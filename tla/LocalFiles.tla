------------------------------ MODULE LocalFiles ------------------------------
(***************************************************************************)
(* One uploaded file of the local storage driver: the signed links, the    *)
(* PUT that creates, fills and describes the file in several steps, the    *)
(* GET that opens, describes and streams it, the DELETE.  Nothing in the   *)
(* driver keeps two requests for one key apart, and the process may stop   *)
(* between any two steps.                                                  *)
(*                                                                         *)
(* The file system is external: an open file is its inode, whatever        *)
(* becomes of its name; creating a file that exists empties it.            *)
(***************************************************************************)
EXTENDS Clock

CONSTANTS
  Put,        \* PUT requests that use the link, e.g. one sent again
  Get,        \* GET requests, each with a link of its own
  Inode,      \* bound: files ever created
  PresignTTL, \* presignTTL
  NoFile, Zero

ASSUME FileAssumption ==
  /\ PresignTTL \in Nat
  /\ NoFile \notin Inode
  /\ Zero \notin Put

VARIABLES
  linkEnds,   \* the last second the upload link is accepted
  name,       \* the inode the key's path names
  content,    \* the inodes in use: who wrote each half; Zero is no data
  meta,       \* the .meta file: its type is the one the link fixes
  put,        \* the PUT requests
  get,        \* the GET requests
  deleting,   \* a DELETE has removed the .meta file
  kept        \* history: the PUT that was acknowledged, as long as no other
              \* request and no stop of the process has touched the key

fileVars == <<now, linkEnds, name, content, meta, put, get, deleting, kept>>

Half == {1, 2}
Empty == [h \in Half |-> Zero]

NoPut == [pc |-> "none", file |-> NoFile, alone |-> FALSE, named |-> FALSE]
NoGet == [pc |-> "none", ends |-> 0, file |-> NoFile, type |-> "default",
          read |-> Empty, of |-> Zero]

PutSteps == {"none", "fill1", "fill2", "describe", "type", "acknowledged", "failed"}
GetSteps == {"none", "linked", "opened", "stream1", "stream2", "delivered", "failed"}

FileTypeOK ==
  /\ now \in 0..Horizon
  /\ linkEnds \in 0..(Horizon + PresignTTL)
  /\ name \in Inode \cup {NoFile}
  /\ content \in [Inode -> [Half -> Put \cup {Zero}] \cup {NoFile}]
  /\ meta \in {"missing", "empty", "type"}
  /\ put \in [Put -> [pc : PutSteps, file : Inode \cup {NoFile}, alone : BOOLEAN,
                      named : BOOLEAN]]
  /\ get \in [Get -> [pc : GetSteps, ends : 0..(Horizon + PresignTTL),
                      file : Inode \cup {NoFile}, type : {"default", "empty", "type"},
                      read : [Half -> Put \cup {Zero}], of : Put \cup {Zero}]]
  /\ deleting \in BOOLEAN
  /\ kept \in Put \cup {Zero}

\* an upload was prepared: a new key and its link, no file
FileInit ==
  /\ now = 0
  /\ linkEnds = PresignTTL
  /\ name = NoFile
  /\ content = [i \in Inode |-> NoFile]
  /\ meta = "missing"
  /\ put = [p \in Put |-> NoPut]
  /\ get = [g \in Get |-> NoGet]
  /\ deleting = FALSE
  /\ kept = Zero

----------------------------------------------------------------------------
(* PUT                                                                     *)

Running(p) == put[p].pc \in {"fill1", "fill2", "describe", "type"}

Disturbed == \E p \in Put : Running(p)

\* every other PUT on its way has lost its key to itself
PutTo(p, state) ==
  put' = [q \in Put |-> IF q = p THEN state ELSE [put[q] EXCEPT !.alone = FALSE]]

Step(p, pc) == put' = [put EXCEPT ![p] = [@ EXCEPT !.pc = pc]]

\* wrong token, type or key, or after the end of the link: no file is touched
Rejected(p) ==
  /\ put[p].pc = "none"
  /\ Step(p, "failed")
  /\ UNCHANGED <<now, linkEnds, name, content, meta, get, deleting, kept>>

\* os.Create: the named file emptied, or a new one
CreateFile(p) ==
  /\ put[p].pc = "none"
  /\ now <= linkEnds
  /\ \E i \in Inode :
       /\ IF name = NoFile THEN content[i] = NoFile ELSE i = name
       /\ name' = i
       /\ content' = [content EXCEPT ![i] = Empty]
       /\ PutTo(p, [NoPut EXCEPT !.pc = "fill1", !.file = i,
                                  !.alone = ~Disturbed /\ ~deleting])
  /\ kept' = Zero
  /\ UNCHANGED <<now, linkEnds, meta, get, deleting>>

Fill(p, h, next) ==
  /\ content' = [content EXCEPT ![put[p].file] = [@ EXCEPT ![h] = p]]
  /\ Step(p, next)
  /\ UNCHANGED <<now, linkEnds, name, meta, get, deleting, kept>>

FillFirst(p) == put[p].pc = "fill1" /\ Fill(p, 1, "fill2")
FillSecond(p) == put[p].pc = "fill2" /\ Fill(p, 2, "describe")

\* the body ends early or is too large, or .meta cannot be written: whatever
\* file the path names by then is removed
SaveFails(p) ==
  /\ Running(p)
  /\ name' = NoFile
  /\ kept' = Zero
  /\ PutTo(p, [NoPut EXCEPT !.pc = "failed"])
  /\ UNCHANGED <<now, linkEnds, content, meta, get, deleting>>

Acknowledge(p) ==
  /\ put' = [put EXCEPT ![p] = [NoPut EXCEPT !.pc = "acknowledged"]]
  /\ kept' = IF put[p].alone THEN p ELSE Zero

\* os.WriteFile: emptied or created, then written; "named" is whether the
\* open .meta file is still the one the path names
OpenMeta(p) ==
  /\ put[p].pc = "describe"
  /\ meta' = "empty"
  /\ put' = [put EXCEPT ![p] = [@ EXCEPT !.pc = "type", !.named = TRUE]]
  /\ UNCHANGED <<now, linkEnds, name, content, get, deleting, kept>>

\* an existing .meta is taken to be right
WriteMetaOnce(p) ==
  /\ put[p].pc = "type"
  /\ UNCHANGED meta
  /\ Acknowledge(p)
  /\ UNCHANGED <<now, linkEnds, name, content, get, deleting>>

WriteMeta(p) ==
  /\ put[p].pc = "type"
  /\ meta' = IF put[p].named THEN "type" ELSE meta
  /\ Acknowledge(p)
  /\ UNCHANGED <<now, linkEnds, name, content, get, deleting>>

----------------------------------------------------------------------------
(* GET                                                                     *)

GetTo(g, state) == get' = [get EXCEPT ![g] = state]

\* the last second a link made now is accepted
LinkEnd == now + PresignTTL

GetDownloadURL(g) ==
  /\ get[g].pc = "none"
  /\ GetTo(g, [NoGet EXCEPT !.pc = "linked", !.ends = LinkEnd])
  /\ UNCHANGED <<now, linkEnds, name, content, meta, put, deleting, kept>>

\* "of" remembers what was kept when the request began
OpenFile(g) ==
  /\ get[g].pc = "linked"
  /\ IF now <= get[g].ends /\ name # NoFile
       THEN GetTo(g, [get[g] EXCEPT !.pc = "opened", !.file = name, !.of = kept])
       ELSE GetTo(g, [get[g] EXCEPT !.pc = "failed",
                                    !.of = IF now <= get[g].ends THEN kept ELSE Zero])
  /\ UNCHANGED <<now, linkEnds, name, content, meta, put, deleting, kept>>

ReadMeta(g) ==
  /\ get[g].pc = "opened"
  /\ GetTo(g, [get[g] EXCEPT !.pc = "stream1",
                             !.type = IF meta = "missing" THEN "default" ELSE meta])
  /\ UNCHANGED <<now, linkEnds, name, content, meta, put, deleting, kept>>

Stream(g, h, next) ==
  /\ GetTo(g, [get[g] EXCEPT !.pc = next,
                             !.read = [@ EXCEPT ![h] = content[get[g].file][h]]])
  /\ UNCHANGED <<now, linkEnds, name, content, meta, put, deleting, kept>>

StreamFirst(g) == get[g].pc = "stream1" /\ Stream(g, 1, "stream2")
StreamSecond(g) == get[g].pc = "stream2" /\ Stream(g, 2, "delivered")

----------------------------------------------------------------------------
(* DELETE, and the process                                                 *)

DeleteMeta ==
  /\ ~deleting
  /\ deleting' = TRUE
  /\ meta' = "missing"
  /\ kept' = Zero
  /\ put' = [p \in Put |-> [put[p] EXCEPT !.alone = FALSE, !.named = FALSE]]
  /\ UNCHANGED <<now, linkEnds, name, content, get>>

DeleteFile ==
  /\ deleting
  /\ deleting' = FALSE
  /\ name' = NoFile
  /\ kept' = Zero
  /\ put' = [p \in Put |-> [put[p] EXCEPT !.alone = FALSE]]
  /\ UNCHANGED <<now, linkEnds, content, meta, get>>

\* every request ends where it stands
Stop ==
  /\ put' = [p \in Put |-> IF Running(p) THEN [NoPut EXCEPT !.pc = "failed"] ELSE put[p]]
  /\ get' = [g \in Get |-> NoGet]
  /\ deleting' = FALSE
  /\ UNCHANGED <<now, linkEnds, name, content, meta, kept>>

\* no step waits for time, and a transfer takes as long as it takes
FileTick == Passes /\ UNCHANGED <<linkEnds, name, content, meta, put, get, deleting, kept>>

FileNext ==
  \/ \E p \in Put : \/ Rejected(p) \/ CreateFile(p) \/ FillFirst(p) \/ FillSecond(p)
                    \/ OpenMeta(p) \/ WriteMeta(p) \/ SaveFails(p)
  \/ \E g \in Get : \/ GetDownloadURL(g) \/ OpenFile(g) \/ ReadMeta(g)
                    \/ StreamFirst(g) \/ StreamSecond(g)
  \/ DeleteMeta \/ DeleteFile \/ Stop \/ FileTick

FileSpec == FileInit /\ [][FileNext]_fileVars

----------------------------------------------------------------------------
(* Properties                                                              *)

(* A file that was acknowledged, and that nothing has touched since, is    *)
(* there for every request with a valid link, whole, of one PUT and with   *)
(* its type, whatever failed on the key before: a PUT that was rejected,   *)
(* broken off or stopped half-way leaves nothing that a later one inherits.*)
AcknowledgedServed ==
  \A g \in Get :
    get[g].of # Zero /\ get[g].of = kept =>
      /\ get[g].pc # "failed"
      /\ get[g].pc = "delivered" =>
           get[g].type = "type" /\ get[g].read = [h \in Half |-> get[g].of]

=============================================================================
