---------------------------- MODULE IDMUse -----------------------------
(* The identifier manager with the one user it has, the transfer manager:   *)
(* identifiers are taken for new transfers and returned by                  *)
(* transfer_destroy, in any order, each only by whoever took it.            *)
EXTENDS IDM

CONSTANTS Base, Size

ASSUME RangeAssumption == Base \in Int /\ Size \in Nat

VARIABLES
    tfm_idm,    \* the list of free intervals
    out         \* the identifiers taken and not yet returned

vars == <<tfm_idm, out>>

Init == /\ tfm_idm = idm_create(Base, Size)
        /\ out = {}

(* With an empty list idm_get answers -1 and changes nothing. *)
Get == /\ tfm_idm # <<>>
       /\ out' = out \cup {idm_index(tfm_idm)}
       /\ tfm_idm' = idm_get(tfm_idm)

Return == \E index \in out :
            /\ tfm_idm' = idm_return(tfm_idm, index)
            /\ out' = out \ {index}

Next == Get \/ Return

Spec == Init /\ [][Next]_vars
-----------------------------------------------------------------------------
All == Base .. Base + Size

(* No identifier is free and taken at once, so idm_get never hands out one  *)
(* that a live transfer has (tfm_add_download and tfm_add_upload put the    *)
(* transfer in ttbl under it).                                              *)
NeverTakenTwice == Free(tfm_idm) \cap out = {}

Lost == All \ (Free(tfm_idm) \cup out)

LosesPastTheHead == \A index \in Lost' \ Lost : /\ Len(tfm_idm) > 1
                                                /\ index = tfm_idm[1].end + 1

(* idm_return loses the identifier just past the first interval when there  *)
(* are further intervals and it does not join the two (src/IDM.c:91-116     *)
(* looks only at nodes after the first); every other identifier comes back. *)
OnlyLostPastTheHead == [][LosesPastTheHead]_vars
=============================================================================
