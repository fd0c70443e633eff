------------------------------ MODULE MCReload ------------------------------
EXTENDS Reload
Config(trackers, name, description, max_downloads) ==
    [trackers |-> trackers, name |-> name, description |-> description,
     max_downloads |-> max_downloads]

(* Two trackers and one of them, in other places; a file without trackers; a   *)
(* file without a name; a limit, another, and none.                            *)
Files == {Config(<<"x", "y">>, "n", "d", 1), Config(<<"y">>, None, "e", 2),
          Config(<<>>, "m", "d", None)}
Empty == Config(<<>>, None, None, None)
=============================================================================
