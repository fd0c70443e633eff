-------------------------------- MODULE Files --------------------------------
(* A shared folder and the helpers that work on it: the file transactions of   *)
(* transaction_handler.c, fileops.c, and the uploads of transfer_handler.c.    *)
(* No lock protects a folder; of two uploads of one file only one is in the    *)
(* transfer manager's table, whose other rules are in TransferManager.  An     *)
(* upload goes to <name>.hpf, and gets its name when all of it has arrived.    *)
(*                                                                             *)
(* The system's calls are atomic, except readdir.  A file is the set of its    *)
(* pieces that were written: a position beyond the end leaves a hole.          *)
EXTENDS Naturals, FiniteSets

CONSTANTS Helpers, Names, NoName,
          FileSize, \* the pieces of a whole file
          Named     \* the files that users name in their transactions

Final(n) == [name |-> n, partial |-> FALSE]
Partial(n) == [name |-> n, partial |-> TRUE]
Paths == [name : Names, partial : BOOLEAN]
Pieces == 0 .. FileSize - 1

ASSUME SizeAssumption == FileSize \in Nat \ {0}
ASSUME NamedAssumption == Named \subseteq Paths

VARIABLES folder,  \* whether the folder is there
          files,   \* the files in it or open: the paths of each, the helpers that
                   \* have it open for writing, its pieces, and a history: it was
                   \* resumed beyond its end, or written or linked by an upload
                   \* that had been cancelled while it ran
          pc,      \* where each helper is in its transaction or upload
          upload,  \* what the helper uploads: name, mode, offset, and position
          ttbl,    \* the helpers whose upload is in the transfer manager's table
          listing, \* of a helper that lists or clears: what it has still to read,
                   \* the entries so far, and how many there is room for
          seen     \* history: what was there all through a listing, and
                   \* whether something was created meanwhile

filesVars == <<folder, files, pc, upload, ttbl, listing, seen>>

File == [paths : SUBSET Paths, writers : SUBSET Helpers, pieces : SUBSET Pieces, spoiled : BOOLEAN]
NoUpload == [name |-> NoName, mode |-> FALSE, offset |-> 0, pos |-> 0]
NoListing == [unread |-> {}, entries |-> {}, room |-> 0]
NotSeen == [stays |-> {}, grown |-> FALSE]

Present(fs) == UNION {f.paths : f \in fs}
Exists(p) == p \in Present(files)
At(p) == CHOOSE f \in files : p \in f.paths
Length(f) == IF f.pieces = {} THEN 0 ELSE 1 + CHOOSE m \in f.pieces : \A k \in f.pieces : k <= m

(* What the system's calls do to files; one that has lost its last path and is *)
(* not open is gone.                                                           *)
Unlinked(p, fs) == {[f EXCEPT !.paths = @ \ {p}] : f \in fs}
Linked(p, q, fs) == {[f EXCEPT !.paths = IF p \in @ THEN @ \cup {q} ELSE @] : f \in fs}
Closed(h, fs) == {[f EXCEPT !.writers = @ \ {h}] : f \in fs}

(* Whoever is listing the folder may miss the change. *)
Becomes(fs) ==
    /\ files' = {f \in fs : f.paths # {} \/ f.writers # {}}
    /\ seen' = [h \in Helpers |->
                    IF pc[h] \in {"list", "read"}
                    THEN [stays |-> seen[h].stays \cap Present(fs),
                          grown |-> seen[h].grown \/ ~(Present(fs) \subseteq Present(files))]
                    ELSE seen[h]]

Enters(h, where) == pc' = [pc EXCEPT ![h] = where]
-----------------------------------------------------------------------------
FilesInit == /\ folder = TRUE
             /\ files = {}
             /\ pc = [h \in Helpers |-> "idle"]
             /\ upload = [h \in Helpers |-> NoUpload]
             /\ ttbl = {}
             /\ listing = [h \in Helpers |-> NoListing]
             /\ seen = [h \in Helpers |-> NotSeen]
-----------------------------------------------------------------------------
(* txn_upload, up to tfm_add_upload.  The folder must be there, and the name   *)
(* free.  Refusals change nothing and are left out.                            *)
txn_upload(h, n, mode) ==
    /\ pc[h] = "idle" /\ folder /\ ~Exists(Final(n))
    /\ upload' = [upload EXCEPT ![h] = [NoUpload EXCEPT !.name = n, !.mode = mode]]
    /\ Enters(h, IF mode THEN "resume" ELSE "add")
    /\ UNCHANGED <<folder, files, ttbl, listing, seen>>

(* A resumed upload begins where the partial file ends now. *)
ResumeOffset(h) ==
    /\ pc[h] = "resume"
    /\ LET p == Partial(upload[h].name) IN
       IF Exists(p)
       THEN /\ upload' = [upload EXCEPT ![h].offset = Length(At(p))]
            /\ Enters(h, "add")
       ELSE /\ upload' = [upload EXCEPT ![h] = NoUpload]
            /\ Enters(h, "idle")
    /\ UNCHANGED <<folder, files, ttbl, listing, seen>>

tfm_add_upload(h) ==
    /\ pc[h] = "add"
    /\ IF \E g \in ttbl : upload[g].name = upload[h].name
       THEN /\ upload' = [upload EXCEPT ![h] = NoUpload]
            /\ Enters(h, "idle")
            /\ UNCHANGED ttbl
       ELSE /\ ttbl' = ttbl \cup {h}
            /\ Enters(h, "open")
            /\ UNCHANGED upload
    /\ UNCHANGED <<folder, files, listing, seen>>

(* An upload ends; or it does not begin, because its client does not connect,  *)
(* or cancels it, or sends a bad header, or the file cannot be opened.         *)
tfm_remove(h) ==
    /\ pc[h] \in {"open", "remove"}
    /\ ttbl' = ttbl \ {h}
    /\ upload' = [upload EXCEPT ![h] = NoUpload]
    /\ Enters(h, "idle")
    /\ UNCHANGED <<folder, files, listing, seen>>

(* The file that h writes, or has linked and is about to unlink. *)
InHand(h, f) == \/ h \in f.writers
                \/ pc[h] = "unlink" /\ Partial(upload[h].name) \in f.paths

(* txn_xfer_cancel or tfm_purge_uid for a transfer that runs: its helper goes  *)
(* on, but the table knows nothing of it.                                      *)
CancelRunning(h) ==
    /\ h \in ttbl
    /\ ttbl' = ttbl \ {h}
    /\ files' = {[f EXCEPT !.spoiled = @ \/ InHand(h, f)] : f \in files}
    /\ UNCHANGED <<folder, pc, upload, listing, seen>>
-----------------------------------------------------------------------------
(* xfer_upload *)

(* open with O_CREAT | O_TRUNC: a new file, or the old one emptied. *)
OpenPartial(h) ==
    /\ pc[h] = "open" /\ ~upload[h].mode /\ folder
    /\ LET p == Partial(upload[h].name) IN
       Becomes(IF Exists(p)
               THEN (files \ {At(p)}) \cup
                        {[At(p) EXCEPT !.writers = @ \cup {h}, !.pieces = {},
                                       !.spoiled = @ \/ h \notin ttbl]}
               ELSE files \cup
                        {[paths |-> {p}, writers |-> {h}, pieces |-> {}, spoiled |-> h \notin ttbl]})
    /\ Enters(h, "write")
    /\ UNCHANGED <<folder, upload, ttbl, listing>>

(* open for writing, and lseek to the offset that txn_upload found. *)
OpenResumed(h) ==
    /\ pc[h] = "open" /\ upload[h].mode
    /\ LET p == Partial(upload[h].name) IN
       /\ Exists(p)
       /\ Becomes((files \ {At(p)}) \cup
                      {[At(p) EXCEPT !.writers = @ \cup {h},
                                     !.spoiled = @ \/ h \notin ttbl
                                                   \/ upload[h].offset > Length(At(p))]})
    /\ upload' = [upload EXCEPT ![h].pos = upload[h].offset]
    /\ Enters(h, "write")
    /\ UNCHANGED <<folder, ttbl, listing>>

(* write() of what has been read.  Only an error ends the upload               *)
(* (transfer_handler.c:176): what a full disk cuts short would count as        *)
(* written.  The model has no such writes.                                     *)
WritePiece(h) ==
    /\ pc[h] = "write" /\ upload[h].pos < FileSize
    /\ files' = {[f EXCEPT !.pieces = IF h \in f.writers THEN @ \cup {upload[h].pos} ELSE @]
                    : f \in files}
    /\ upload' = [upload EXCEPT ![h].pos = @ + 1]
    /\ UNCHANGED <<folder, pc, ttbl, listing, seen>>

(* The client is gone; transfers::remove_partials, which a reload may change,  *)
(* says whether what has come so far is thrown away.                           *)
UploadFails(h) ==
    /\ pc[h] = "write" /\ upload[h].pos < FileSize
    /\ \E remove_partials \in BOOLEAN :
           Becomes(IF remove_partials
                   THEN Unlinked(Partial(upload[h].name), Closed(h, files))
                   ELSE Closed(h, files))
    /\ Enters(h, "remove")
    /\ UNCHANGED <<folder, upload, ttbl, listing>>

(* close, and link, which fails when the name is taken or the partial file is  *)
(* gone; nobody looks at the result (transfer_handler.c:183).                  *)
Link(h) ==
    /\ pc[h] = "write" /\ upload[h].pos = FileSize
    /\ LET n == upload[h].name
           cancelled == h \notin ttbl
       IN IF Exists(Partial(n)) /\ ~Exists(Final(n))
          THEN Becomes(Linked(Partial(n), Final(n),
                         {[f EXCEPT !.spoiled = @ \/ (cancelled /\ Partial(n) \in f.paths)]
                             : f \in Closed(h, files)}))
          ELSE Becomes(Closed(h, files))
    /\ Enters(h, "unlink")
    /\ UNCHANGED <<folder, upload, ttbl, listing>>

\* mutant: the transfer leaves the table before its partial file is removed
Unlink_late(h) ==
    /\ pc[h] = "unlink"
    /\ IF h \in ttbl
       THEN ttbl' = ttbl \ {h} /\ UNCHANGED <<files, seen, pc>>
       ELSE /\ Becomes(Unlinked(Partial(upload[h].name), files))
            /\ Enters(h, "remove") /\ UNCHANGED ttbl
    /\ UNCHANGED <<folder, upload, listing>>

Unlink(h) ==
    /\ pc[h] = "unlink"
    /\ Becomes(Unlinked(Partial(upload[h].name), files))
    /\ Enters(h, "remove")
    /\ UNCHANGED <<folder, upload, ttbl, listing>>
-----------------------------------------------------------------------------
(* Transactions on files: each looks first, and then does it in one call.  The *)
(* call fails when it would have failed at the look, too.                      *)

(* rename replaces what has the new path, and does nothing for two paths of    *)
(* one file.                                                                   *)
txn_rename(h, p, q) ==
    /\ pc[h] = "idle" /\ Exists(p) /\ q \notin At(p).paths
    /\ Becomes(Unlinked(p, Linked(p, q, Unlinked(q, files))))
    /\ UNCHANGED <<folder, pc, upload, ttbl, listing>>

txn_delete(h, p) ==
    /\ pc[h] = "idle" /\ Exists(p)
    /\ Becomes(Unlinked(p, files))
    /\ UNCHANGED <<folder, pc, upload, ttbl, listing>>

(* To another folder, and from another folder, where files are whole. *)
txn_move_out(h, p) == txn_delete(h, p)

txn_move_in(h, p) ==
    /\ pc[h] = "idle" /\ folder
    /\ Becomes(Unlinked(p, files) \cup
                   {[paths |-> {p}, writers |-> {}, pieces |-> Pieces, spoiled |-> FALSE]})
    /\ UNCHANGED <<folder, pc, upload, ttbl, listing>>

txn_create_folder(h) ==
    /\ pc[h] = "idle" /\ ~folder
    /\ folder' = TRUE
    /\ UNCHANGED <<files, pc, upload, ttbl, listing, seen>>

(* txn_delete of the folder: f_rmdir_recursive removes it when it is empty, or *)
(* if that is allowed reads it and removes what it finds.                      *)
f_rmdir_recursive(h) ==
    /\ pc[h] = "idle" /\ folder
    /\ IF Present(files) = {}
       THEN folder' = FALSE /\ UNCHANGED <<pc, listing>>
       ELSE /\ Enters(h, "clear")
            /\ listing' = [listing EXCEPT ![h].unread = Present(files)]
            /\ UNCHANGED folder
    /\ UNCHANGED <<files, upload, ttbl, seen>>

RemoveEntry(h) ==
    /\ pc[h] = "clear"
    /\ \E p \in listing[h].unread :
           /\ Exists(p)
           /\ Becomes(Unlinked(p, files))
           /\ listing' = [listing EXCEPT ![h].unread = @ \ {p}]
    /\ UNCHANGED <<folder, pc, upload, ttbl>>

(* What is gone already ends it, and so does a file that came in the meantime. *)
rmdir_recursive(h) ==
    /\ pc[h] = "clear"
    /\ \/ /\ listing[h].unread = {}
          /\ folder' = (folder /\ Present(files) # {})
       \/ /\ \E p \in listing[h].unread : ~Exists(p)
          /\ UNCHANGED folder
    /\ Enters(h, "idle")
    /\ listing' = [listing EXCEPT ![h] = NoListing]
    /\ UNCHANGED <<files, upload, ttbl, seen>>
-----------------------------------------------------------------------------
(* f_list_create: the folder is read twice, first to count its entries, for    *)
(* which the reply has room, and then to add them.                             *)
\* bound: one listing at a time; a listing changes nothing that others read
dir_count(h) ==
    /\ pc[h] = "idle" /\ folder
    /\ \A g \in Helpers : pc[g] \notin {"list", "read"}
    /\ listing' = [listing EXCEPT ![h].room = Cardinality(Present(files))]
    /\ seen' = [seen EXCEPT ![h] = [stays |-> Present(files), grown |-> FALSE]]
    /\ Enters(h, "list")
    /\ UNCHANGED <<folder, files, upload, ttbl>>

OpenFolder(h) ==
    /\ pc[h] = "list" /\ folder
    /\ listing' = [listing EXCEPT ![h].unread = Present(files)]
    /\ Enters(h, "read")
    /\ UNCHANGED <<folder, files, upload, ttbl, seen>>

(* transaction_add_object: what is too much is dropped. *)
Added(l, p) == IF Cardinality(l.entries) < l.room THEN l.entries \cup {p} ELSE l.entries

\* mutant: a file that has been removed since ends the listing
ReadEntry_ends(h) ==
    /\ pc[h] = "read"
    /\ \E p \in listing[h].unread :
           listing' = [listing EXCEPT
               ![h].unread = IF Exists(p) THEN @ \ {p} ELSE {},
               ![h].entries = IF Exists(p) THEN Added(listing[h], p) ELSE @]
    /\ UNCHANGED <<folder, files, pc, upload, ttbl, seen>>

(* readdir may return what is gone, for which stat fails, and what is new. *)
ReadEntry(h) ==
    /\ pc[h] = "read"
    /\ \E p \in listing[h].unread :
           listing' = [listing EXCEPT
               ![h].unread = @ \ {p},
               ![h].entries = IF Exists(p) THEN Added(listing[h], p) ELSE @]
    /\ UNCHANGED <<folder, files, pc, upload, ttbl, seen>>

ReadNew(h) ==
    /\ pc[h] = "read"
    /\ \E p \in Present(files) \ (listing[h].unread \cup listing[h].entries) :
           listing' = [listing EXCEPT ![h].entries = Added(listing[h], p)]
    /\ UNCHANGED <<folder, files, pc, upload, ttbl, seen>>

(* The reply; an error when the folder has gone before it could be read. *)
txn_filelist(h) ==
    /\ \/ pc[h] = "read" /\ listing[h].unread = {}
       \/ pc[h] = "list" /\ ~folder
    /\ listing' = [listing EXCEPT ![h] = NoListing]
    /\ seen' = [seen EXCEPT ![h] = NotSeen]
    /\ Enters(h, "idle")
    /\ UNCHANGED <<folder, files, upload, ttbl>>
-----------------------------------------------------------------------------
Upload(h) == \/ \E n \in Names, mode \in BOOLEAN : txn_upload(h, n, mode)
             \/ ResumeOffset(h) \/ tfm_add_upload(h) \/ tfm_remove(h) \/ CancelRunning(h)
             \/ OpenPartial(h) \/ OpenResumed(h) \/ WritePiece(h) \/ UploadFails(h)
             \/ Link(h) \/ Unlink(h)
FileCall(h) == \/ \E p, q \in Named : txn_rename(h, p, q)
               \/ \E p \in Named : txn_move_out(h, p) \/ txn_move_in(h, p) \/ txn_delete(h, p)
               \/ txn_create_folder(h) \/ f_rmdir_recursive(h) \/ RemoveEntry(h)
               \/ rmdir_recursive(h)
Listing(h) == \/ dir_count(h) \/ OpenFolder(h) \/ ReadEntry(h) \/ ReadNew(h)
              \/ txn_filelist(h)

FilesNext == \E h \in Helpers : Upload(h) \/ FileCall(h) \/ Listing(h)
FilesSpec == FilesInit /\ [][FilesNext]_filesVars
-----------------------------------------------------------------------------
FilesTypeOK == /\ folder \in BOOLEAN
               /\ files \subseteq File
               /\ pc \in [Helpers -> {"idle", "resume", "add", "open", "write", "unlink", "remove",
                                      "clear", "list", "read"}]
               /\ upload \in [Helpers -> [name : Names \cup {NoName}, mode : BOOLEAN,
                                          offset : 0 .. FileSize, pos : 0 .. FileSize]]
               /\ ttbl \subseteq Helpers
               /\ listing \in [Helpers -> [unread : SUBSET Paths, entries : SUBSET Paths,
                                           room : 0 .. Cardinality(Paths)]]
               /\ seen \in [Helpers -> [stays : SUBSET Paths, grown : BOOLEAN]]

(* What has its name is whole: whoever uploads a file again, resumes or        *)
(* abandons it, while the first upload is about to link it (transfer_handler.c *)
(* 182-184) or has just been looked at (transaction_handler.c:468), never      *)
(* truncates or completes it wrongly, unless a running upload was cancelled or *)
(* a resumed one was started after its partial file had become shorter; on a   *)
(* disk that takes every write whole (WritePiece).                             *)
PublishedIsWhole ==
    \A f \in files : (\E n \in Names : Final(n) \in f.paths) /\ ~f.spoiled => f.pieces = Pieces

EveryPublishedIsWhole ==
    \A f \in files : (\E n \in Names : Final(n) \in f.paths) => f.pieces = Pieces

(* A listing has every file that was there from its count to its reply,        *)
(* whatever was removed or renamed in the meantime, unless something was       *)
(* created: then there may be no room for it (fileops.c:251, Transaction.c:447)*)
ListsWhatStays ==
    \A h \in Helpers : pc[h] = "read" /\ listing[h].unread = {} /\ ~seen[h].grown
        => seen[h].stays \subseteq listing[h].entries
=============================================================================
