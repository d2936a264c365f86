------------------------------ MODULE IniFile ------------------------------
(***************************************************************************)
(* A path, as src/ini_filesystem.c asks the operating system about it, one *)
(* question after the other, while other threads and programs create,      *)
(* write, replace and remove what is there.                                *)
(*                                                                         *)
(* ini_good asks eight times whether the path leads to a file with         *)
(* something in it: five times before it opens the file and three times    *)
(* before it reads it (its verdict on the text is the subject of IniText,  *)
(* here a text is good or bad).  ini_save asks whether it may write and    *)
(* opens the file (what it then does is the subject of IniSave).  Every    *)
(* answer may be out of date when the next question is put.                *)
(***************************************************************************)
EXTENDS Naturals, FiniteSets

CONSTANTS
  Threads,
  Files,        \* what the path may lead to
  MaxChanges    \* bound on the changes during one call

\* access(path, R_OK) and W_OK, and W_OK of the directory it is in.
Access == [read : BOOLEAN, write : BOOLEAN, parent : BOOLEAN]
\* "hidden": a directory on the way may not be searched (EACCES); "astray": one
\* is no directory, a loop, or a name is too long (any other error of stat).
Kinds == {"absent", "hidden", "astray", "directory", "device", "empty", "good", "bad"}

ASSUME FilesAssumption == Files \subseteq [kind : Kinds, access : Access]

VARIABLES
  path,      \* what is there
  inRoot,    \* the only "/" of the path's name is its first character
  call,      \* the call a thread is in, or was in last
  pc,
  stream,    \* what the stream opened by that call has to deliver
  status,    \* what it returned
  seen,      \* history: what was there during that call
  trouble    \* history: the system failed during it for reasons of its own

vars == <<path, inRoot, call, pc, stream, status, seen, trouble>>

Closed == "closed"
\* A text that is written while it is read, and one that cannot be read.
Contents == {"empty", "good", "bad", "mixed", "unreadable"}

Regular(f) == f.kind \in {"empty", "good", "bad"}
Exists(f) == Regular(f) \/ f.kind \in {"directory", "device"}
\* st_size is 0: devices have no size, directories have one.
Sizeless(f) == f.kind \in {"empty", "device"}

\* What fopen grants.
OpensForReading(f) == Exists(f) /\ f.access.read
OpensForWriting(f) ==
  \/ (Regular(f) \/ f.kind = "device") /\ f.access.write
  \/ f.kind = "absent" /\ f.access.parent
Delivered(f) == IF Regular(f) THEN f.kind ELSE "unreadable"

Goto(t, l) == pc' = [pc EXCEPT ![t] = l]
Return(t, s) == Goto(t, "idle") /\ status' = [status EXCEPT ![t] = s]
Working(t) == pc[t] # "idle"

Init ==
  /\ path \in Files
  /\ inRoot \in BOOLEAN
  /\ call = [t \in Threads |-> "none"]
  /\ pc = [t \in Threads |-> "idle"]
  /\ stream = [t \in Threads |-> Closed]
  /\ status = [t \in Threads |-> "none"]
  /\ seen = [t \in Threads |-> {}]
  /\ trouble = [t \in Threads |-> FALSE]

\* What is there is replaced, moved, removed, truncated or written.  Whoever
\* reads it may go on reading what was there, or get some of both.
Saw(f) == [t \in Threads |-> IF Working(t) THEN seen[t] \cup {f} ELSE seen[t]]

Change(f) ==
  /\ f # path
  /\ \A t \in Threads : Working(t) => Cardinality(seen[t] \cup {f}) <= MaxChanges + 1
  /\ path' = f
  /\ seen' = Saw(f)
  /\ \/ UNCHANGED stream
     \/ /\ Regular(path) /\ Regular(f)
        /\ stream' = [t \in Threads |-> IF Working(t) /\ stream[t] # Closed THEN "mixed"
                                                                          ELSE stream[t]]
  /\ UNCHANGED <<inRoot, call, pc, status, trouble>>

Call(t, c, l) ==
  /\ pc[t] = "idle"
  /\ call' = [call EXCEPT ![t] = c]
  /\ Goto(t, l)
  /\ stream' = [stream EXCEPT ![t] = Closed]
  /\ status' = [status EXCEPT ![t] = "none"]
  /\ seen' = [seen EXCEPT ![t] = {path}]
  /\ trouble' = [trouble EXCEPT ![t] = FALSE]
  /\ UNCHANGED <<path, inRoot>>

\* stat: what it says of the path, or that the kernel could not tell.
StatOf(f) ==
  IF Exists(f) THEN "found"
  ELSE IF f.kind = "absent" THEN "ENOENT" ELSE IF f.kind = "hidden" THEN "EACCES" ELSE "error"

Stat(t, answer) ==
  /\ answer \in {StatOf(path), "error"}
  /\ trouble' = [trouble EXCEPT ![t] = @ \/ answer # StatOf(path)]
  /\ UNCHANGED <<path, inRoot, call, seen>>

-----------------------------------------------------------------------------
(* ini_good *)

GoodCall(t) == Call(t, "ini_good", "directory?")

\* ini_check_file_status: ini_is_file_directory, and a stat of its own.
CheckDirectory(t) ==
  /\ pc[t] = "directory?"
  /\ \E answer \in {"found", "ENOENT", "EACCES", "error"} :
       /\ Stat(t, answer)
       /\ IF answer = "found" /\ path.kind = "directory"
          THEN Return(t, "is directory")
          ELSE Goto(t, "status?") /\ UNCHANGED status
  /\ UNCHANGED stream

RegularOnly_Any(f) == Exists(f)
\* Only regular files pass.
RegularOnly(f) == Regular(f)

CheckStatus(t) ==
  /\ pc[t] = "status?"
  /\ \E answer \in {"found", "ENOENT", "EACCES", "error"} :
       /\ Stat(t, answer)
       /\ \/ answer = "ENOENT" /\ Return(t, "not found")
          \/ answer = "EACCES" /\ Return(t, "permission denied")
          \/ answer = "error" /\ Return(t, "unknown error")
          \/ answer = "found" /\ ~RegularOnly(path) /\ Return(t, "bad format")
          \/ answer = "found" /\ RegularOnly(path) /\ Sizeless(path) /\ Return(t, "empty")
          \/ /\ answer = "found" /\ RegularOnly(path) /\ ~Sizeless(path)
             /\ Goto(t, "exists?") /\ UNCHANGED status
  /\ UNCHANGED stream

\* ini_good calls ini_get_file_size before and after it opens the file.  The
\* first time a failure does not matter; the second time it returns with the
\* stream open, as it does when the size is 0 by then.
SizeFails(t, s) ==
  IF stream[t] = Closed THEN Goto(t, "open") /\ UNCHANGED status ELSE Return(t, s)

AfterSize_Parse(t) == "parse"
AfterSize(t) == IF stream[t] = Closed THEN "open" ELSE "parse"

\* ini_get_file_size: ini_file_exists, ini_is_file_directory, and a stat.
SizeExists(t) ==
  /\ pc[t] = "exists?"
  /\ \E answer \in {"found", "ENOENT", "EACCES", "error"} :
       /\ Stat(t, answer)
       /\ IF answer = "found" THEN Goto(t, "size directory?") /\ UNCHANGED status
                              ELSE SizeFails(t, "not found")
  /\ UNCHANGED stream

SizeDirectory(t) ==
  /\ pc[t] = "size directory?"
  /\ \E answer \in {"found", "ENOENT", "EACCES", "error"} :
       /\ Stat(t, answer)
       /\ IF answer = "found" /\ path.kind = "directory"
          THEN SizeFails(t, "is directory")
          ELSE Goto(t, "size?") /\ UNCHANGED status
  /\ UNCHANGED stream

SizeStat(t) ==
  /\ pc[t] = "size?"
  /\ \E answer \in {"found", "ENOENT", "EACCES", "error"} :
       /\ Stat(t, answer)
       /\ \/ answer # "found" /\ SizeFails(t, "stat error")
          \/ answer = "found" /\ Sizeless(path) /\ Return(t, "empty")
          \/ /\ answer = "found" /\ ~Sizeless(path)
             /\ Goto(t, AfterSize(t)) /\ UNCHANGED status
  /\ UNCHANGED stream

\* fopen, or no descriptor or memory for it.
GoodOpen(t) ==
  /\ pc[t] = "open"
  /\ \/ /\ OpensForReading(path)
        /\ stream' = [stream EXCEPT ![t] = Delivered(path)]
        /\ Goto(t, "exists?")
        /\ UNCHANGED <<status, trouble>>
     \/ /\ Return(t, "open failed")
        /\ trouble' = [trouble EXCEPT ![t] = @ \/ OpensForReading(path)]
        /\ UNCHANGED stream
  /\ UNCHANGED <<path, inRoot, call, seen>>

Accepted_All(s) == TRUE
\* The loop over the lines finds nothing wrong.
Accepted(s) == s \in {"good", "empty", "mixed", "unreadable"}
StreamAfterParse_Kept(t) == stream[t]
\* fclose, whatever the lines were.
StreamAfterParse(t) == Closed

\* The loop over the lines, which takes an error of the stream for its end,
\* and fclose, which may fail.
Parse(t) ==
  /\ pc[t] = "parse"
  /\ stream' = [stream EXCEPT ![t] = StreamAfterParse(t)]
  /\ \/ /\ Accepted(stream[t]) /\ Return(t, "success")
        /\ trouble' = [trouble EXCEPT ![t] = @ \/ stream[t] = "unreadable"]
     \/ /\ stream[t] \in {"bad", "mixed"} /\ Return(t, "bad format")
        /\ UNCHANGED trouble
     \/ /\ \/ stream[t] = "bad" /\ Return(t, "success")
           \/ Accepted(stream[t]) /\ Return(t, "close failed")
        /\ trouble' = [trouble EXCEPT ![t] = TRUE]
  /\ UNCHANGED <<path, inRoot, call, seen>>

GoodStep(t) ==
  \/ CheckDirectory(t) \/ CheckStatus(t)
  \/ SizeExists(t) \/ SizeDirectory(t) \/ SizeStat(t)
  \/ GoodOpen(t) \/ Parse(t)

-----------------------------------------------------------------------------
(* ini_save, up to its fopen *)

SaveCall(t) == Call(t, "ini_save", "there?")

AskedNext_File == "writable?"
\* ini_get_file_permission: the file's own permission, if access(path, F_OK)
\* finds a file, otherwise that of its directory.
AskedNext == IF Exists(path) THEN "writable?" ELSE "directory writable?"

AskThere(t) ==
  /\ pc[t] = "there?"
  /\ Goto(t, AskedNext)
  /\ UNCHANGED <<path, inRoot, call, stream, status, seen, trouble>>

Grant(t, writable) ==
  /\ IF writable THEN Goto(t, "open for writing") /\ UNCHANGED status
                 ELSE Return(t, "permission denied")
  /\ UNCHANGED <<path, inRoot, call, stream, seen, trouble>>

AskFile(t) == pc[t] = "writable?" /\ Grant(t, Exists(path) /\ path.access.write)

\* The name is cut at its last "/".  Of the root directory nothing is left but
\* "", for which "." is asked.
AskParent(t) ==
  /\ pc[t] = "directory writable?"
  /\ IF inRoot THEN \E dot \in BOOLEAN : Grant(t, dot) ELSE Grant(t, path.access.parent)

\* fopen(path, "w") creates the file or empties it.
Emptied(f) == IF f.kind = "device" THEN f
              ELSE [f EXCEPT !.kind = "empty",
                             !.access = IF f.kind = "absent"
                                        THEN [read |-> TRUE, write |-> TRUE, parent |-> @.parent]
                                        ELSE @]

SaveOpen(t) ==
  /\ pc[t] = "open for writing"
  /\ \/ /\ OpensForWriting(path)
        /\ path' = Emptied(path)
        /\ seen' = Saw(path')
        /\ stream' = [u \in Threads |->
             IF Regular(path) /\ u # t /\ Working(u) /\ stream[u] # Closed THEN "mixed"
                                                                          ELSE stream[u]]
        /\ Return(t, "opened")
        /\ UNCHANGED trouble
     \/ /\ Return(t, "open failed")
        /\ trouble' = [trouble EXCEPT ![t] = @ \/ OpensForWriting(path)]
        /\ UNCHANGED <<path, stream, seen>>
  /\ UNCHANGED <<inRoot, call>>

SaveStep(t) == AskThere(t) \/ AskFile(t) \/ AskParent(t) \/ SaveOpen(t)

Next ==
  \/ \E f \in Files : Change(f)
  \/ \E t \in Threads : GoodCall(t) \/ GoodStep(t) \/ SaveCall(t) \/ SaveStep(t)

Spec == Init /\ [][Next]_vars

-----------------------------------------------------------------------------
(* Properties *)

Paths == [kind : Kinds, access : Access]
Statuses == {"none", "success", "not found", "permission denied", "unknown error", "is directory",
             "bad format", "empty", "stat error", "open failed", "close failed", "opened"}
GoodPCs == {"directory?", "status?", "exists?", "size directory?", "size?", "open", "parse"}
SavePCs == {"there?", "writable?", "directory writable?", "open for writing"}

\* Every variable has its type; a stream is read only when it is open, and is
\* open only after the first size is known; a call sees what is there.
TypeOK ==
  /\ path \in Paths
  /\ inRoot \in BOOLEAN
  /\ call \in [Threads -> {"none", "ini_good", "ini_save"}]
  /\ pc \in [Threads -> GoodPCs \cup SavePCs \cup {"idle"}]
  /\ stream \in [Threads -> Contents \cup {Closed}]
  /\ status \in [Threads -> Statuses]
  /\ seen \in [Threads -> SUBSET Paths]
  /\ trouble \in [Threads -> BOOLEAN]
  /\ \A t \in Threads :
       /\ pc[t] \in SavePCs \cup {"directory?", "status?", "open"} => stream[t] = Closed
       /\ pc[t] = "parse" => stream[t] # Closed
       /\ Working(t) => path \in seen[t]

Returned(t, c) == call[t] = c /\ pc[t] = "idle"
Steady(t) == Cardinality(seen[t]) = 1 /\ ~trouble[t]

\* What include/ini_parser.h:58 has ini_good look for: the path exists and is
\* accessible, is a regular file, is not empty, and has valid syntax.
Verdict(f) ==
  CASE f.kind = "absent" -> "not found"
    [] f.kind = "hidden" -> "permission denied"
    [] f.kind = "astray" -> "unknown error"
    [] f.kind = "directory" -> "is directory"
    [] f.kind = "device" -> "bad format"
    [] f.kind = "empty" -> "empty"
    [] f.kind \in {"good", "bad"} /\ ~f.access.read -> "open failed"
    [] f.kind = "bad" /\ f.access.read -> "bad format"
    [] f.kind = "good" /\ f.access.read -> "success"

\* If nothing happens to the path, the eight questions of ini_good agree: it
\* returns the one status that is due, whichever question is the one to find it.
VerdictIsDue ==
  \A t \in Threads :
    Returned(t, "ini_good") /\ Steady(t) => \A f \in seen[t] : status[t] = Verdict(f)

\* What each status of ini_good says of a path.
Says(s, f) ==
  \/ s \in {"not found", "stat error"} /\ ~Exists(f)
  \/ s = "permission denied" /\ f.kind = "hidden"
  \/ s = "unknown error" /\ f.kind = "astray"
  \/ s = "is directory" /\ f.kind = "directory"
  \/ s = "bad format" /\ f.kind \in {"bad", "directory", "device"}
  \/ s = "empty" /\ Sizeless(f)
  \/ s = "open failed" /\ ~OpensForReading(f)
  \/ s = "success" /\ f.kind = "good"

\* Two texts were there, and may have been read in part each or between them.
Torn(t) == Cardinality({f \in seen[t] : Regular(f)}) > 1

\* However the path changes between the questions, the status of ini_good was
\* true of it at some moment of the call; only what it says of the syntax may
\* be about a text that was being written, and never was there as a whole.
VerdictWasTrue ==
  \A t \in Threads :
    Returned(t, "ini_good") /\ ~trouble[t] =>
      \/ \E f \in seen[t] : Says(status[t], f)
      \/ status[t] \in {"success", "bad format"} /\ Torn(t)

\* ini_good returns without closing the file only if the path changed, or
\* stat failed, after it had been opened; and never with success.
LeakNeedsChange ==
  \A t \in Threads :
    Returned(t, "ini_good") /\ stream[t] # Closed =>
      /\ ~Steady(t)
      /\ status[t] \in {"not found", "is directory", "stat error", "empty"}

\* A save is refused only if the path could not be opened for writing at some
\* moment of the call, or a file came or went.  There is one exception: a file
\* to be made in the root directory is refused permission although it could be
\* made there, because "." may not be written, where ini_filesystem.c:83 speaks
\* of the parent directory.
RefusalWasDue ==
  \A t \in Threads :
    Returned(t, "ini_save") /\ status[t] # "opened" /\ ~trouble[t] =>
      \/ \E f \in seen[t] : ~OpensForWriting(f)
      \/ \E f, g \in seen[t] : Exists(f) /\ ~Exists(g)
      \/ inRoot /\ status[t] = "permission denied" /\ \E f \in seen[t] : ~Exists(f)
=============================================================================
