--------------------------- MODULE IniFile_proofs ---------------------------
(***************************************************************************)
(* Proofs about IniFile, for any number of threads, any paths and any      *)
(* number of changes: what ini_good and ini_save return was true of the    *)
(* path at some moment of the call, and ini_good leaves a stream open only *)
(* if something changed.                                                   *)
(***************************************************************************)
EXTENDS IniFile, FiniteSetTheorems, TLAPS

\* The path led to two things, or to two texts, during t's call.
Changed(t) == \E f, g \in seen[t] : f # g
TwoTexts(t) == \E f, g \in seen[t] : f # g /\ Regular(f) /\ Regular(g)

\* What passes the first look of ini_good.
HasText(f) == Regular(f) /\ ~Sizeless(f)
Passed == {"exists?", "size directory?", "size?", "open", "parse"}

\* What the steps of a call know of the path as it was.
CallInv(t) ==
  /\ pc[t] \in GoodPCs => call[t] = "ini_good"
  /\ pc[t] \in SavePCs => call[t] = "ini_save"
  /\ pc[t] \in Passed => \E f \in seen[t] : HasText(f)
  /\ Working(t) /\ stream[t] \in {"empty", "good", "bad"} => \E f \in seen[t] : f.kind = stream[t]
  /\ Working(t) /\ stream[t] = "mixed" => TwoTexts(t)
  /\ pc[t] = "writable?" => \E f \in seen[t] : Exists(f)
  /\ pc[t] = "directory writable?" => \E f \in seen[t] : ~Exists(f)

\* The three properties of a thread that has returned.
VerdictInv(t) ==
  Returned(t, "ini_good") /\ ~trouble[t] =>
    \/ \E f \in seen[t] : Says(status[t], f)
    \/ status[t] \in {"success", "bad format"} /\ TwoTexts(t)
LeakInv(t) ==
  Returned(t, "ini_good") /\ stream[t] # Closed =>
    /\ trouble[t] \/ Changed(t)
    /\ status[t] \in {"not found", "is directory", "stat error", "empty"}
RefusalInv(t) ==
  Returned(t, "ini_save") /\ status[t] # "opened" /\ ~trouble[t] =>
    \/ \E f \in seen[t] : ~OpensForWriting(f)
    \/ \E f, g \in seen[t] : Exists(f) /\ ~Exists(g)
    \/ inRoot /\ status[t] = "permission denied" /\ \E f \in seen[t] : ~Exists(f)

ThreadInv(t) == CallInv(t) /\ VerdictInv(t) /\ LeakInv(t) /\ RefusalInv(t)

FileInv ==
  /\ TypeOK
  /\ \A t \in Threads : IsFiniteSet(seen[t])
  /\ \A t \in Threads : ThreadInv(t)

-----------------------------------------------------------------------------

\* A step of another thread that leaves the path alone.
LEMMA OthersKeep ==
  ASSUME NEW u \in Threads, ThreadInv(u), inRoot' = inRoot, call'[u] = call[u], pc'[u] = pc[u],
         stream'[u] = stream[u], status'[u] = status[u], seen'[u] = seen[u],
         trouble'[u] = trouble[u]
  PROVE  ThreadInv(u)'
BY ZenonT(60) DEF ThreadInv, CallInv, VerdictInv, LeakInv, RefusalInv, Returned, Working, Changed, TwoTexts

\* The path changes: a call sees more, and may be reading two texts.
LEMMA ChangeKeeps ==
  ASSUME NEW u \in Threads, ThreadInv(u), inRoot' = inRoot, call'[u] = call[u], pc'[u] = pc[u],
         status'[u] = status[u], trouble'[u] = trouble[u],
         seen[u] \subseteq seen'[u],
         pc[u] = "idle" => seen'[u] = seen[u] /\ stream'[u] = stream[u],
         stream'[u] # stream[u] => stream'[u] = "mixed" /\ TwoTexts(u)'
  PROVE  ThreadInv(u)'
<1>1. CASE pc[u] = "idle"
  BY <1>1, OthersKeep
<1>2. CASE pc[u] # "idle"
  <2>1. CallInv(u)'
    BY <1>2 DEF ThreadInv, CallInv, Working, TwoTexts
  <2>2. VerdictInv(u)' /\ LeakInv(u)' /\ RefusalInv(u)'
    BY <1>2 DEF VerdictInv, LeakInv, RefusalInv, Returned
  <2>3. QED
    BY <2>1, <2>2 DEF ThreadInv
<1>3. QED
  BY <1>1, <1>2

LEMMA ChangePreserves == FileInv /\ (\E f \in Files : Change(f)) => FileInv'
<1> SUFFICES ASSUME FileInv, NEW f \in Files, Change(f) PROVE FileInv'
  OBVIOUS
<1>1. /\ f \in Paths /\ f # path /\ path' = f
      /\ UNCHANGED <<inRoot, call, pc, status, trouble>>
      /\ seen' = Saw(f)
  BY FilesAssumption DEF Change, Paths
<1>2. \A t \in Threads : seen'[t] = IF Working(t) THEN seen[t] \cup {f} ELSE seen[t]
  BY <1>1 DEF Saw
<1>3. /\ stream' \in [Threads -> Contents \cup {Closed}]
      /\ \A t \in Threads :
           \/ stream'[t] = stream[t]
           \/ stream'[t] = "mixed" /\ Working(t) /\ stream[t] # Closed /\ Regular(path) /\ Regular(f)
  BY DEF Change, FileInv, TypeOK, Contents
<1>4. TypeOK'
  BY <1>1, <1>2, <1>3 DEF FileInv, TypeOK, Saw, Working, Closed
<1>5. ASSUME NEW t \in Threads PROVE IsFiniteSet(seen'[t])
  BY <1>2, FS_AddElement DEF FileInv
<1>6. ASSUME NEW t \in Threads PROVE ThreadInv(t)'
  <2>1. stream'[t] # stream[t] => stream'[t] = "mixed" /\ TwoTexts(t)'
    BY <1>1, <1>2, <1>3 DEF FileInv, TypeOK, TwoTexts
  <2>2. QED
    BY <1>1, <1>2, <1>3, <2>1, ChangeKeeps DEF FileInv, Working
<1>7. QED
  BY <1>4, <1>5, <1>6 DEF FileInv

\* A call under way only has to know what it has found so far.
LEMMA Underway ==
  ASSUME NEW t \in Threads, pc'[t] # "idle", CallInv(t)'
  PROVE  ThreadInv(t)'
BY DEF ThreadInv, VerdictInv, LeakInv, RefusalInv, Returned

\* One that has returned is judged by its status; ini_good has closed the
\* stream, or had a reason not to.
LEMMA GoodReturned ==
  ASSUME NEW t \in Threads, pc'[t] = "idle", call'[t] = "ini_good",
         \/ trouble'[t]
         \/ \E f \in seen'[t] : Says(status'[t], f)
         \/ status'[t] \in {"success", "bad format"} /\ TwoTexts(t)',
         \/ stream'[t] = Closed
         \/ /\ trouble'[t] \/ Changed(t)'
            /\ status'[t] \in {"not found", "is directory", "stat error", "empty"}
  PROVE  ThreadInv(t)'
BY DEF ThreadInv, CallInv, VerdictInv, LeakInv, RefusalInv, Returned, Working, GoodPCs, SavePCs, Passed

\* A step of a call that leaves the path alone disturbs only its thread.
LEMMA StepPreserves ==
  ASSUME FileInv, NEW t \in Threads, pc[t] # "idle", UNCHANGED <<path, inRoot, call, seen>>,
         pc' = [pc EXCEPT ![t] = pc'[t]], pc'[t] \in GoodPCs \cup SavePCs \cup {"idle"},
         stream' = [stream EXCEPT ![t] = stream'[t]], stream'[t] \in Contents \cup {Closed},
         status' = [status EXCEPT ![t] = status'[t]], status'[t] \in Statuses,
         trouble' = [trouble EXCEPT ![t] = trouble'[t]], trouble'[t] \in BOOLEAN,
         pc'[t] \in SavePCs \cup {"directory?", "status?", "open"} => stream'[t] = Closed,
         pc'[t] = "parse" => stream'[t] # Closed,
         ThreadInv(t)'
  PROVE  FileInv'
<1>1. TypeOK'
  BY DEF FileInv, TypeOK, Working
<1>2. \A u \in Threads : IsFiniteSet(seen'[u])
  BY DEF FileInv
<1>3. ASSUME NEW u \in Threads, u # t PROVE ThreadInv(u)'
  BY <1>3, OthersKeep DEF FileInv, TypeOK
<1>4. QED
  BY <1>1, <1>2, <1>3 DEF FileInv

LEMMA CallPreserves ==
  ASSUME FileInv, NEW t \in Threads, GoodCall(t) \/ SaveCall(t)
  PROVE  FileInv'
<1>1. PICK c, l : /\ Call(t, c, l)
                  /\ \/ c = "ini_good" /\ l = "directory?"
                     \/ c = "ini_save" /\ l = "there?"
  <2>1. CASE GoodCall(t)
    BY <2>1 DEF GoodCall
  <2>2. CASE SaveCall(t)
    BY <2>2 DEF SaveCall
  <2>3. QED
    BY <2>1, <2>2
<1>2. /\ UNCHANGED <<path, inRoot>>
      /\ call' = [call EXCEPT ![t] = c] /\ c \in {"ini_good", "ini_save"}
      /\ pc' = [pc EXCEPT ![t] = l] /\ l \in {"directory?", "there?"}
      /\ stream' = [stream EXCEPT ![t] = Closed]
      /\ status' = [status EXCEPT ![t] = "none"]
      /\ seen' = [seen EXCEPT ![t] = {path}]
      /\ trouble' = [trouble EXCEPT ![t] = FALSE]
  BY <1>1 DEF Call, Goto
<1>3. \A u \in Threads :
        /\ call'[u] = IF u = t THEN c ELSE call[u]
        /\ pc'[u] = IF u = t THEN l ELSE pc[u]
        /\ stream'[u] = IF u = t THEN Closed ELSE stream[u]
        /\ status'[u] = IF u = t THEN "none" ELSE status[u]
        /\ seen'[u] = IF u = t THEN {path} ELSE seen[u]
        /\ trouble'[u] = IF u = t THEN FALSE ELSE trouble[u]
  BY <1>2 DEF FileInv, TypeOK
<1>4. TypeOK'
  <2>1. /\ call' \in [Threads -> {"none", "ini_good", "ini_save"}]
        /\ pc' \in [Threads -> GoodPCs \cup SavePCs \cup {"idle"}]
        /\ stream' \in [Threads -> Contents \cup {Closed}]
        /\ status' \in [Threads -> Statuses]
        /\ seen' \in [Threads -> SUBSET Paths]
        /\ trouble' \in [Threads -> BOOLEAN]
    BY <1>2 DEF FileInv, TypeOK, GoodPCs, SavePCs, Statuses
  <2>2. QED
    BY <1>2, <1>3, <2>1 DEF FileInv, TypeOK, Working
<1>5. \A u \in Threads : IsFiniteSet(seen'[u])
  BY <1>3, FS_Singleton DEF FileInv
<1>6. CallInv(t)' /\ pc'[t] # "idle"
  <2>1. /\ call'[t] = c /\ pc'[t] = l /\ stream'[t] = Closed
        /\ \/ c = "ini_good" /\ l = "directory?"
           \/ c = "ini_save" /\ l = "there?"
    BY <1>1, <1>3
  <2>2. QED
    BY <2>1 DEF CallInv, GoodPCs, SavePCs, Passed, Closed
<1>7. ASSUME NEW u \in Threads, u # t PROVE ThreadInv(u)'
  BY <1>2, <1>3, <1>7, OthersKeep DEF FileInv
<1>8. QED
  BY <1>4, <1>5, <1>6, <1>7, Underway DEF FileInv

-----------------------------------------------------------------------------
(* The steps of ini_good *)

\* What stat's answers say of the path, unless stat itself failed.
LEMMA StatAnswers ==
  ASSUME path \in Paths, NEW answer \in {StatOf(path), "error"}
  PROVE  /\ answer = "found" => Exists(path)
         /\ answer = "ENOENT" => path.kind = "absent"
         /\ answer = "EACCES" => path.kind = "hidden"
         /\ answer = StatOf(path) /\ answer # "found" => ~Exists(path)
         /\ answer = StatOf(path) /\ answer = "error" => path.kind = "astray"
BY DEF StatOf, Exists, Regular, Paths, Kinds

\* What a step that asks stat leaves, and what it has to show for its thread.
LEMMA StatPreserves ==
  ASSUME FileInv, NEW t \in Threads, NEW answer, Stat(t, answer), UNCHANGED stream,
         pc[t] \in GoodPCs, NEW l \in GoodPCs \cup {"idle"}, Goto(t, l),
         \/ l # "idle" /\ UNCHANGED status
         \/ l = "idle" /\ status' = [status EXCEPT ![t] = status'[t]] /\ status'[t] \in Statuses,
         l \in {"directory?", "status?", "open"} => stream[t] = Closed,
         l = "parse" => stream[t] # Closed,
         trouble'[t] = (trouble[t] \/ answer # StatOf(path)) => ThreadInv(t)'
  PROVE  FileInv'
<1>1. /\ UNCHANGED <<path, inRoot, call, seen>>
      /\ trouble' = [trouble EXCEPT ![t] = trouble[t] \/ answer # StatOf(path)]
  BY DEF Stat
<1>2. trouble'[t] = (trouble[t] \/ answer # StatOf(path))
  BY <1>1 DEF FileInv, TypeOK
<1>3. pc' = [pc EXCEPT ![t] = pc'[t]] /\ pc'[t] = l
  BY DEF Goto, FileInv, TypeOK
<1>4. stream' = [stream EXCEPT ![t] = stream'[t]] /\ stream'[t] \in Contents \cup {Closed}
  BY DEF FileInv, TypeOK
<1>5. status' = [status EXCEPT ![t] = status'[t]] /\ status'[t] \in Statuses
  BY DEF FileInv, TypeOK
<1>6. pc[t] # "idle" /\ l \notin SavePCs
  BY DEF GoodPCs, SavePCs
<1>7. trouble' = [trouble EXCEPT ![t] = trouble'[t]] /\ trouble'[t] \in BOOLEAN
  BY <1>1, <1>2
<1>8. ThreadInv(t)'
  BY <1>2
<1>9. QED
  BY <1>1, <1>3, <1>4, <1>5, <1>6, <1>7, <1>8, StepPreserves

LEMMA DirectoryPreserves ==
  ASSUME FileInv, NEW t \in Threads, CheckDirectory(t)
  PROVE  FileInv'
<1>1. PICK answer : Stat(t, answer) /\ IF answer = "found" /\ path.kind = "directory"
                                        THEN Return(t, "is directory")
                                        ELSE Goto(t, "status?") /\ UNCHANGED status
  BY DEF CheckDirectory
<1>2. /\ pc[t] = "directory?" /\ stream[t] = Closed /\ UNCHANGED <<stream, call, seen>>
      /\ call[t] = "ini_good" /\ path \in seen[t] /\ status \in [Threads -> Statuses]
      /\ pc \in [Threads -> GoodPCs \cup SavePCs \cup {"idle"}]
  BY <1>1 DEF CheckDirectory, Stat, FileInv, TypeOK, ThreadInv, CallInv, GoodPCs, Working
<1>3. CASE answer = "found" /\ path.kind = "directory"
  <2>1. Goto(t, "idle") /\ status' = [status EXCEPT ![t] = "is directory"]
    BY <1>1, <1>3 DEF Return
  <2>2. pc'[t] = "idle" /\ status'[t] = "is directory"
    BY <1>2, <2>1 DEF Goto
  <2>3. Says("is directory", path)
    BY <1>3 DEF Says
  <2>4. ThreadInv(t)'
    BY <1>2, <2>2, <2>3, GoodReturned
  <2>5. QED
    BY <1>1, <1>2, <2>1, <2>2, <2>4, StatPreserves DEF Statuses, GoodPCs
<1>4. CASE ~(answer = "found" /\ path.kind = "directory")
  <2>1. Goto(t, "status?") /\ UNCHANGED status
    BY <1>1, <1>4
  <2>2. pc'[t] = "status?"
    BY <1>2, <2>1 DEF Goto
  <2>3. ThreadInv(t)'
    BY <1>2, <2>2, Underway DEF CallInv, GoodPCs, SavePCs, Passed, Closed
  <2>4. QED
    BY <1>1, <1>2, <2>1, <2>3, StatPreserves DEF GoodPCs
<1>5. QED
  BY <1>3, <1>4

\* A stat whose answer is a verdict: the step returns it.
LEMMA AnswerReturned ==
  ASSUME FileInv, NEW t \in Threads, pc[t] \in GoodPCs, NEW answer, Stat(t, answer),
         UNCHANGED stream, NEW v \in Statuses, Return(t, v),
         answer # StatOf(path) \/ Says(v, path),
         stream[t] # Closed => v \in {"not found", "is directory", "stat error", "empty"},
         stream[t] # Closed /\ answer = StatOf(path) => \E f \in seen[t] : f # path
  PROVE  FileInv'
<1>1. /\ call[t] = "ini_good" /\ path \in seen[t] /\ UNCHANGED <<stream, call, seen>>
      /\ pc \in [Threads -> GoodPCs \cup SavePCs \cup {"idle"}] /\ status \in [Threads -> Statuses]
  BY DEF Stat, FileInv, TypeOK, ThreadInv, CallInv, GoodPCs, Working
<1>2. Goto(t, "idle") /\ status' = [status EXCEPT ![t] = v]
  BY DEF Return
<1>3. pc'[t] = "idle" /\ status'[t] = v
  BY <1>1, <1>2 DEF Goto
<1>4. ASSUME trouble'[t] = (trouble[t] \/ answer # StatOf(path)) PROVE ThreadInv(t)'
  <2>1. trouble'[t] \/ Says(status'[t], path)
    BY <1>3, <1>4
  <2>2. stream'[t] # Closed => status'[t] \in {"not found", "is directory", "stat error", "empty"}
    BY <1>1, <1>3
  <2>3. stream'[t] # Closed => trouble'[t] \/ Changed(t)'
    <3>1. CASE answer = StatOf(path)
      BY <1>1, <3>1 DEF Changed
    <3>2. CASE answer # StatOf(path)
      BY <1>4, <3>2
    <3>3. QED
      BY <3>1, <3>2
  <2>4. QED
    BY <1>1, <1>3, <2>1, <2>2, <2>3, GoodReturned
<1>5. QED
  BY <1>1, <1>2, <1>3, <1>4, StatPreserves

\* A stat after which ini_good goes on.
LEMMA AnswerPassed ==
  ASSUME FileInv, NEW t \in Threads, pc[t] \in GoodPCs, NEW answer, Stat(t, answer),
         UNCHANGED <<stream, status>>, NEW l \in Passed, Goto(t, l),
         \E f \in seen[t] : HasText(f),
         l = "open" => stream[t] = Closed,
         l = "parse" => stream[t] # Closed
  PROVE  FileInv'
<1>1. /\ call[t] = "ini_good" /\ UNCHANGED <<stream, call, seen>> /\ pc[t] # "idle"
      /\ pc \in [Threads -> GoodPCs \cup SavePCs \cup {"idle"}] /\ CallInv(t)
  BY DEF Stat, FileInv, TypeOK, ThreadInv, CallInv, GoodPCs
<1>2. pc'[t] = l /\ l \in GoodPCs /\ l # "idle" /\ l \notin {"directory?", "status?"}
  BY <1>1 DEF Goto, Passed, GoodPCs
<1>3. ThreadInv(t)'
  BY <1>1, <1>2, Underway DEF CallInv, GoodPCs, SavePCs, Passed, Working, TwoTexts
<1>4. QED
  BY <1>1, <1>2, <1>3, StatPreserves

LEMMA StatusPreserves ==
  ASSUME FileInv, NEW t \in Threads, CheckStatus(t)
  PROVE  FileInv'
<1>1. PICK answer :
        /\ Stat(t, answer)
        /\ \/ answer = "ENOENT" /\ Return(t, "not found")
           \/ answer = "EACCES" /\ Return(t, "permission denied")
           \/ answer = "error" /\ Return(t, "unknown error")
           \/ answer = "found" /\ ~Regular(path) /\ Return(t, "bad format")
           \/ answer = "found" /\ Regular(path) /\ Sizeless(path) /\ Return(t, "empty")
           \/ /\ answer = "found" /\ HasText(path)
              /\ Goto(t, "exists?") /\ UNCHANGED status
  BY DEF CheckStatus, RegularOnly, HasText
<1>2. /\ pc[t] = "status?" /\ pc[t] \in GoodPCs /\ stream[t] = Closed /\ UNCHANGED stream
      /\ path \in Paths /\ path \in seen[t] /\ answer \in {StatOf(path), "error"}
  BY <1>1 DEF CheckStatus, Stat, FileInv, TypeOK, GoodPCs, Working
<1>3. CASE answer = "found" /\ HasText(path) /\ Goto(t, "exists?") /\ UNCHANGED status
  BY <1>1, <1>2, <1>3, AnswerPassed DEF Passed
<1>4. CASE \E v \in Statuses : Return(t, v) /\ (answer # StatOf(path) \/ Says(v, path))
  <2>1. PICK v \in Statuses : Return(t, v) /\ (answer # StatOf(path) \/ Says(v, path))
    BY <1>4
  <2>2. Stat(t, answer)
    BY <1>1
  <2>3. QED
    BY <1>2, <2>1, <2>2, AnswerReturned
<1>5. ASSUME \/ answer = "ENOENT" /\ Return(t, "not found")
             \/ answer = "EACCES" /\ Return(t, "permission denied")
             \/ answer = "error" /\ Return(t, "unknown error")
             \/ answer = "found" /\ ~Regular(path) /\ Return(t, "bad format")
             \/ answer = "found" /\ Regular(path) /\ Sizeless(path) /\ Return(t, "empty")
      PROVE  \E v \in Statuses : Return(t, v) /\ (answer # StatOf(path) \/ Says(v, path))
  <2>1. /\ answer = "ENOENT" => ~Exists(path)
        /\ answer = "EACCES" => path.kind = "hidden"
        /\ answer = StatOf(path) /\ answer = "error" => path.kind = "astray"
        /\ answer = "found" /\ ~Regular(path) => path.kind \in {"directory", "device"}
    BY <1>2, StatAnswers DEF Exists, Regular
  <2>2. QED
    BY <1>5, <2>1 DEF Says, Statuses
<1>6. QED
  BY <1>1, <1>3, <1>4, <1>5

\* What the steps of ini_get_file_size find when they are called.
LEMMA SizeKnows ==
  ASSUME FileInv, NEW t \in Threads, pc[t] \in Passed
  PROVE  /\ pc[t] \in GoodPCs /\ path \in Paths /\ path \in seen[t]
         /\ \E f \in seen[t] : HasText(f)
         /\ ~HasText(path) => \E f \in seen[t] : f # path
BY DEF FileInv, TypeOK, ThreadInv, CallInv, GoodPCs, Passed, Working

\* A failure of ini_get_file_size.
LEMMA FailurePreserves ==
  ASSUME FileInv, NEW t \in Threads, pc[t] \in Passed, NEW answer, Stat(t, answer),
         UNCHANGED stream, NEW v \in {"not found", "is directory", "stat error", "empty"},
         SizeFails(t, v),
         answer # StatOf(path) \/ (Says(v, path) /\ ~HasText(path))
  PROVE  FileInv'
<1>1. /\ pc[t] \in GoodPCs /\ v \in Statuses
      /\ \E f \in seen[t] : HasText(f)
      /\ ~HasText(path) => \E f \in seen[t] : f # path
  BY SizeKnows DEF Statuses
<1>2. CASE stream[t] = Closed
  <2>1. Goto(t, "open") /\ UNCHANGED status /\ "open" \in Passed
    BY <1>2 DEF SizeFails, Passed
  <2>2. QED
    BY <1>1, <1>2, <2>1, AnswerPassed
<1>3. CASE stream[t] # Closed
  <2>1. Return(t, v)
    BY <1>3 DEF SizeFails
  <2>2. answer # StatOf(path) \/ Says(v, path)
    OBVIOUS
  <2>3. answer = StatOf(path) => \E f \in seen[t] : f # path
    BY <1>1
  <2>4. QED
    BY <1>1, <2>1, <2>2, <2>3, AnswerReturned
<1>4. QED
  BY <1>2, <1>3

LEMMA SizeExistsPreserves ==
  ASSUME FileInv, NEW t \in Threads, SizeExists(t)
  PROVE  FileInv'
<1>1. PICK answer : Stat(t, answer) /\ IF answer = "found"
                                        THEN Goto(t, "size directory?") /\ UNCHANGED status
                                        ELSE SizeFails(t, "not found")
  BY DEF SizeExists
<1>2. /\ pc[t] \in Passed /\ UNCHANGED stream /\ answer \in {StatOf(path), "error"}
      /\ "size directory?" \in Passed
  BY <1>1 DEF SizeExists, Passed, Stat
<1>3. CASE answer = "found"
  BY <1>1, <1>2, <1>3, SizeKnows, AnswerPassed
<1>4. CASE answer # "found"
  <2>1. answer # StatOf(path) \/ (Says("not found", path) /\ ~HasText(path))
    BY <1>2, <1>4, SizeKnows, StatAnswers DEF Says, HasText, Exists
  <2>2. SizeFails(t, "not found")
    BY <1>1, <1>4
  <2>3. QED
    BY <1>1, <1>2, <2>1, <2>2, FailurePreserves
<1>5. QED
  BY <1>3, <1>4

LEMMA SizeDirectoryPreserves ==
  ASSUME FileInv, NEW t \in Threads, SizeDirectory(t)
  PROVE  FileInv'
<1>1. PICK answer : Stat(t, answer) /\ IF answer = "found" /\ path.kind = "directory"
                                        THEN SizeFails(t, "is directory")
                                        ELSE Goto(t, "size?") /\ UNCHANGED status
  BY DEF SizeDirectory
<1>2. pc[t] \in Passed /\ UNCHANGED stream /\ "size?" \in Passed
  BY DEF SizeDirectory, Passed
<1>3. CASE answer = "found" /\ path.kind = "directory"
  <2>1. Says("is directory", path) /\ ~HasText(path)
    BY <1>3 DEF Says, HasText, Regular
  <2>2. SizeFails(t, "is directory")
    BY <1>1, <1>3
  <2>3. QED
    BY <1>1, <1>2, <2>1, <2>2, FailurePreserves
<1>4. CASE ~(answer = "found" /\ path.kind = "directory")
  BY <1>1, <1>2, <1>4, SizeKnows, AnswerPassed
<1>5. QED
  BY <1>3, <1>4

LEMMA SizeStatPreserves ==
  ASSUME FileInv, NEW t \in Threads, SizeStat(t)
  PROVE  FileInv'
<1>1. PICK answer :
        /\ Stat(t, answer)
        /\ \/ answer # "found" /\ SizeFails(t, "stat error")
           \/ answer = "found" /\ Sizeless(path) /\ Return(t, "empty")
           \/ /\ answer = "found" /\ ~Sizeless(path)
              /\ Goto(t, AfterSize(t)) /\ UNCHANGED status
  BY DEF SizeStat
<1>2. /\ pc[t] \in Passed /\ UNCHANGED stream /\ answer \in {StatOf(path), "error"}
      /\ pc[t] \in GoodPCs /\ path \in Paths
      /\ \E f \in seen[t] : HasText(f)
      /\ ~HasText(path) => \E f \in seen[t] : f # path
  BY <1>1, SizeKnows DEF SizeStat, Passed, Stat
<1>3. CASE answer # "found" /\ SizeFails(t, "stat error")
  <2>1. answer # StatOf(path) \/ (Says("stat error", path) /\ ~HasText(path))
    BY <1>2, <1>3, StatAnswers DEF Says, HasText, Exists
  <2>2. QED
    BY <1>1, <1>2, <1>3, <2>1, FailurePreserves
<1>4. CASE answer = "found" /\ Sizeless(path) /\ Return(t, "empty")
  <2>1. Says("empty", path) /\ ~HasText(path) /\ "empty" \in Statuses
    BY <1>4 DEF Says, HasText, Statuses
  <2>2. QED
    BY <1>1, <1>2, <1>4, <2>1, AnswerReturned
<1>5. CASE answer = "found" /\ ~Sizeless(path) /\ Goto(t, AfterSize(t)) /\ UNCHANGED status
  <2>1. /\ AfterSize(t) \in Passed
        /\ AfterSize(t) = "open" => stream[t] = Closed
        /\ AfterSize(t) = "parse" => stream[t] # Closed
    BY DEF AfterSize, Passed
  <2>2. QED
    BY <1>1, <1>2, <1>5, <2>1, AnswerPassed
<1>6. QED
  BY <1>1, <1>3, <1>4, <1>5

LEMMA OpenPreserves ==
  ASSUME FileInv, NEW t \in Threads, GoodOpen(t)
  PROVE  FileInv'
<1>1. /\ pc[t] = "open" /\ stream[t] = Closed /\ UNCHANGED <<path, inRoot, call, seen>>
      /\ call[t] = "ini_good" /\ path \in Paths /\ path \in seen[t]
      /\ \E f \in seen[t] : HasText(f)
      /\ pc \in [Threads -> GoodPCs \cup SavePCs \cup {"idle"}]
      /\ stream \in [Threads -> Contents \cup {Closed}]
      /\ status \in [Threads -> Statuses] /\ trouble \in [Threads -> BOOLEAN]
  BY SizeKnows DEF GoodOpen, FileInv, TypeOK, ThreadInv, CallInv, GoodPCs, Passed
<1>2. CASE /\ stream' = [stream EXCEPT ![t] = Delivered(path)]
           /\ Goto(t, "exists?")
           /\ UNCHANGED <<status, trouble>>
  <2>1. /\ stream'[t] = Delivered(path) /\ pc'[t] = "exists?" /\ pc' = [pc EXCEPT ![t] = pc'[t]]
        /\ status' = [status EXCEPT ![t] = status'[t]] /\ status'[t] \in Statuses
        /\ trouble' = [trouble EXCEPT ![t] = trouble'[t]] /\ trouble'[t] \in BOOLEAN
    BY <1>1, <1>2 DEF Goto
  <2>2. /\ stream'[t] \in Contents /\ stream'[t] # "mixed" /\ stream'[t] # Closed
        /\ stream'[t] \in {"empty", "good", "bad"} => path.kind = stream'[t]
    BY <2>1 DEF Delivered, Regular, Contents, Closed
  <2>3. ThreadInv(t)'
    BY <1>1, <2>1, <2>2, Underway DEF CallInv, GoodPCs, SavePCs, Passed
  <2>4. QED
    BY <1>1, <1>2, <2>1, <2>2, <2>3, StepPreserves DEF GoodPCs, SavePCs
<1>3. CASE /\ Return(t, "open failed")
           /\ trouble' = [trouble EXCEPT ![t] = @ \/ OpensForReading(path)]
           /\ UNCHANGED stream
  <2>1. /\ status' = [status EXCEPT ![t] = "open failed"] /\ status'[t] = "open failed"
        /\ pc'[t] = "idle" /\ pc' = [pc EXCEPT ![t] = pc'[t]]
        /\ stream' = [stream EXCEPT ![t] = stream'[t]] /\ stream'[t] = Closed
        /\ "open failed" \in Statuses
    BY <1>1, <1>3 DEF Return, Goto, Statuses
  <2>2. /\ trouble'[t] = (trouble[t] \/ OpensForReading(path))
        /\ trouble' = [trouble EXCEPT ![t] = trouble'[t]] /\ trouble'[t] \in BOOLEAN
    BY <1>1, <1>3
  <2>3. trouble'[t] \/ Says(status'[t], path)
    BY <2>1, <2>2 DEF Says
  <2>4. ThreadInv(t)'
    BY <1>1, <2>1, <2>3, GoodReturned
  <2>5. QED
    BY <1>1, <2>1, <2>2, <2>4, StepPreserves
<1>4. QED
  BY <1>2, <1>3 DEF GoodOpen

LEMMA ParsePreserves ==
  ASSUME FileInv, NEW t \in Threads, Parse(t)
  PROVE  FileInv'
<1>1. /\ pc[t] = "parse" /\ pc[t] # "idle" /\ UNCHANGED <<path, inRoot, call, seen>>
      /\ call[t] = "ini_good" /\ path \in Paths /\ seen[t] \subseteq Paths
      /\ \E f \in seen[t] : HasText(f)
      /\ stream[t] \in {"empty", "good", "bad"} => \E f \in seen[t] : f.kind = stream[t]
      /\ stream[t] = "mixed" => TwoTexts(t)
      /\ pc \in [Threads -> GoodPCs \cup SavePCs \cup {"idle"}]
      /\ stream \in [Threads -> Contents \cup {Closed}]
      /\ status \in [Threads -> Statuses] /\ trouble \in [Threads -> BOOLEAN]
  BY SizeKnows DEF Parse, FileInv, TypeOK, ThreadInv, CallInv, GoodPCs, Passed, Working
<1>2. PICK s \in Statuses :
        /\ Return(t, s)
        /\ \/ s = "success" /\ stream[t] \in {"good", "empty", "mixed"} /\ UNCHANGED trouble
           \/ s = "bad format" /\ stream[t] \in {"bad", "mixed"} /\ UNCHANGED trouble
           \/ trouble' = [trouble EXCEPT ![t] = TRUE]
  <2>1. "success" \in Statuses /\ "bad format" \in Statuses /\ "close failed" \in Statuses
    BY DEF Statuses
  <2>2. CASE /\ Accepted(stream[t]) /\ Return(t, "success")
             /\ trouble' = [trouble EXCEPT ![t] = @ \/ stream[t] = "unreadable"]
    <3>1. CASE stream[t] = "unreadable"
      BY <1>1, <2>1, <2>2, <3>1
    <3>2. CASE stream[t] # "unreadable"
      BY <1>1, <2>1, <2>2, <3>2 DEF Accepted
    <3>3. QED
      BY <3>1, <3>2
  <2>3. QED
    BY <2>1, <2>2 DEF Parse
<1>3. /\ stream' = [stream EXCEPT ![t] = Closed] /\ stream'[t] = Closed
      /\ pc'[t] = "idle" /\ pc' = [pc EXCEPT ![t] = pc'[t]]
      /\ status' = [status EXCEPT ![t] = s] /\ status'[t] = s
  BY <1>1, <1>2 DEF Parse, StreamAfterParse, Return, Goto
<1>4. trouble' = [trouble EXCEPT ![t] = trouble'[t]] /\ trouble'[t] \in BOOLEAN
  BY <1>1, <1>2
<1>5. \/ trouble'[t]
      \/ \E f \in seen[t] : Says(s, f)
      \/ s \in {"success", "bad format"} /\ TwoTexts(t)
  <2>1. CASE stream[t] = "mixed" /\ s \in {"success", "bad format"}
    BY <1>1, <2>1
  <2>2. CASE s = "success" /\ stream[t] = "good"
    BY <1>1, <2>2 DEF Says
  <2>3. CASE s = "bad format" /\ stream[t] = "bad"
    BY <1>1, <2>3 DEF Says
  <2>4. CASE s = "success" /\ stream[t] = "empty"
    BY <1>1, <2>4 DEF TwoTexts, HasText, Regular, Sizeless
  <2>5. CASE trouble' = [trouble EXCEPT ![t] = TRUE]
    BY <1>1, <2>5
  <2>6. QED
    BY <1>2, <2>1, <2>2, <2>3, <2>4, <2>5
<1>6. TwoTexts(t) => TwoTexts(t)'
  BY <1>1 DEF TwoTexts
<1>7. ThreadInv(t)'
  BY <1>1, <1>3, <1>5, <1>6, GoodReturned
<1>8. QED
  BY <1>1, <1>3, <1>4, <1>7, StepPreserves

-----------------------------------------------------------------------------
(* The steps of ini_save *)

\* A save that is refused has seen why.
LEMMA SaveReturned ==
  ASSUME NEW t \in Threads, pc'[t] = "idle", call'[t] = "ini_save",
         \/ status'[t] = "opened"
         \/ trouble'[t]
         \/ inRoot' /\ status'[t] = "permission denied" /\ \E f \in seen'[t] : ~Exists(f)
         \/ \E f \in seen'[t] : ~OpensForWriting(f)
         \/ \E f, g \in seen'[t] : Exists(f) /\ ~Exists(g)
  PROVE  ThreadInv(t)'
BY DEF ThreadInv, CallInv, VerdictInv, LeakInv, RefusalInv, Returned, Working, GoodPCs, SavePCs, Passed

\* What its steps find when they are called.
LEMMA SaveKnows ==
  ASSUME FileInv, NEW t \in Threads, pc[t] \in SavePCs
  PROVE  /\ call[t] = "ini_save" /\ path \in Paths /\ path \in seen[t] /\ stream[t] = Closed
         /\ pc[t] # "idle"
         /\ pc[t] = "writable?" => \E f \in seen[t] : Exists(f)
         /\ pc[t] = "directory writable?" => \E f \in seen[t] : ~Exists(f)
         /\ pc \in [Threads -> GoodPCs \cup SavePCs \cup {"idle"}]
         /\ stream \in [Threads -> Contents \cup {Closed}]
         /\ status \in [Threads -> Statuses] /\ trouble \in [Threads -> BOOLEAN]
BY DEF FileInv, TypeOK, ThreadInv, CallInv, SavePCs, Working

LEMMA AskTherePreserves ==
  ASSUME FileInv, NEW t \in Threads, AskThere(t)
  PROVE  FileInv'
<1>1. pc[t] \in SavePCs /\ UNCHANGED <<path, inRoot, call, stream, status, seen, trouble>>
  BY DEF AskThere, SavePCs
<1>2. /\ pc'[t] = AskedNext /\ pc' = [pc EXCEPT ![t] = pc'[t]]
      /\ \/ AskedNext = "writable?" /\ Exists(path)
         \/ AskedNext = "directory writable?" /\ ~Exists(path)
  BY <1>1, SaveKnows DEF AskThere, Goto, AskedNext
<1>3. ThreadInv(t)'
  BY <1>1, <1>2, SaveKnows, Underway DEF CallInv, GoodPCs, SavePCs, Passed, Closed
<1>4. pc'[t] \in SavePCs
  BY <1>2 DEF SavePCs
<1>5. /\ stream' = [stream EXCEPT ![t] = stream'[t]] /\ stream'[t] = Closed
      /\ status' = [status EXCEPT ![t] = status'[t]] /\ status'[t] \in Statuses
      /\ trouble' = [trouble EXCEPT ![t] = trouble'[t]] /\ trouble'[t] \in BOOLEAN
  BY <1>1, SaveKnows
<1>6. pc[t] # "idle" /\ pc'[t] # "parse"
  BY <1>1, <1>4, SaveKnows DEF SavePCs
<1>7. QED
  BY <1>1, <1>2, <1>3, <1>4, <1>5, <1>6, StepPreserves

\* The answer to whether the path may be written.
LEMMA GrantPreserves ==
  ASSUME FileInv, NEW t \in Threads, pc[t] \in SavePCs, NEW w \in BOOLEAN, Grant(t, w),
         ~w => \/ inRoot /\ \E f \in seen[t] : ~Exists(f)
               \/ \E f \in seen[t] : ~OpensForWriting(f)
               \/ \E f, g \in seen[t] : Exists(f) /\ ~Exists(g)
  PROVE  FileInv'
<1>1. /\ UNCHANGED <<path, inRoot, call, stream, seen, trouble>>
      /\ IF w THEN Goto(t, "open for writing") /\ UNCHANGED status
              ELSE Return(t, "permission denied")
  BY DEF Grant
<1>2. /\ stream' = [stream EXCEPT ![t] = stream'[t]] /\ stream'[t] = Closed
      /\ trouble' = [trouble EXCEPT ![t] = trouble'[t]] /\ trouble'[t] \in BOOLEAN
      /\ pc[t] # "idle" /\ call'[t] = "ini_save"
  BY <1>1, SaveKnows
<1>3. CASE w
  <2>1. /\ pc'[t] = "open for writing" /\ pc' = [pc EXCEPT ![t] = pc'[t]]
        /\ status' = [status EXCEPT ![t] = status'[t]] /\ status'[t] \in Statuses
    BY <1>1, <1>3, SaveKnows DEF Goto
  <2>2. ThreadInv(t)'
    BY <1>2, <2>1, Underway DEF CallInv, GoodPCs, SavePCs, Passed, Closed
  <2>3. QED
    BY <1>1, <1>2, <2>1, <2>2, StepPreserves DEF SavePCs
<1>4. CASE ~w
  <2>1. /\ pc'[t] = "idle" /\ pc' = [pc EXCEPT ![t] = pc'[t]]
        /\ status' = [status EXCEPT ![t] = status'[t]] /\ status'[t] = "permission denied"
    BY <1>1, <1>4, SaveKnows DEF Goto, Return
  <2>2. ThreadInv(t)'
    BY <1>1, <1>2, <1>4, <2>1, SaveReturned
  <2>3. QED
    BY <1>1, <1>2, <2>1, <2>2, StepPreserves DEF Statuses
<1>5. QED
  BY <1>3, <1>4

LEMMA AskPreserves ==
  ASSUME FileInv, NEW t \in Threads, AskFile(t) \/ AskParent(t)
  PROVE  FileInv'
<1>1. CASE AskFile(t)
  <2>1. pc[t] = "writable?" /\ pc[t] \in SavePCs /\ Grant(t, Exists(path) /\ path.access.write)
    BY <1>1 DEF AskFile, SavePCs
  <2>2. path \in seen[t] /\ \E f \in seen[t] : Exists(f)
    BY <2>1, SaveKnows
  <2>3. Exists(path) /\ ~path.access.write => ~OpensForWriting(path)
    BY DEF OpensForWriting, Exists, Regular
  <2>4. QED
    BY <2>1, <2>2, <2>3, GrantPreserves
<1>2. CASE AskParent(t)
  <2>1. /\ pc[t] = "directory writable?" /\ pc[t] \in SavePCs
        /\ IF inRoot THEN \E dot \in BOOLEAN : Grant(t, dot) ELSE Grant(t, path.access.parent)
    BY <1>2 DEF AskParent, SavePCs
  <2>2. /\ path \in seen[t] /\ path.access.parent \in BOOLEAN
        /\ \E f \in seen[t] : ~Exists(f)
    BY <2>1, SaveKnows DEF Paths, Access
  <2>3. ~Exists(path) /\ ~path.access.parent => ~OpensForWriting(path)
    BY DEF OpensForWriting, Exists
  <2>4. CASE inRoot
    BY <2>1, <2>2, <2>4, GrantPreserves
  <2>5. CASE ~inRoot
    BY <2>1, <2>2, <2>3, <2>5, GrantPreserves
  <2>6. QED
    BY <2>4, <2>5
<1>3. QED
  BY <1>1, <1>2

\* fopen(path, "w") succeeds: the path changes for all calls under way.
LEMMA EmptyingPreserves ==
  ASSUME FileInv, NEW t \in Threads, pc[t] = "open for writing",
         path' = Emptied(path), seen' = Saw(path'),
         stream' = [u \in Threads |->
           IF Regular(path) /\ u # t /\ Working(u) /\ stream[u] # Closed THEN "mixed" ELSE stream[u]],
         Return(t, "opened"), UNCHANGED <<trouble, inRoot, call>>
  PROVE  FileInv'
<1> DEFINE e == Emptied(path)
<1>1. /\ path \in Paths /\ seen \in [Threads -> SUBSET Paths]
      /\ pc \in [Threads -> GoodPCs \cup SavePCs \cup {"idle"}]
      /\ stream \in [Threads -> Contents \cup {Closed}] /\ status \in [Threads -> Statuses]
      /\ call[t] = "ini_save" /\ stream[t] = Closed /\ pc[t] # "idle"
  BY SaveKnows DEF FileInv, TypeOK, SavePCs
<1>2. /\ e \in Paths
      /\ Regular(path) => Regular(e) /\ e.kind = "empty"
  BY <1>1 DEF Emptied, Paths, Access, Kinds, Regular
<1>3. \A u \in Threads :
        /\ seen'[u] = IF Working(u) THEN seen[u] \cup {e} ELSE seen[u]
        /\ stream'[u] = IF Regular(path) /\ u # t /\ Working(u) /\ stream[u] # Closed
                        THEN "mixed" ELSE stream[u]
        /\ pc'[u] = IF u = t THEN "idle" ELSE pc[u]
        /\ status'[u] = IF u = t THEN "opened" ELSE status[u]
  BY <1>1 DEF Saw, Return, Goto
<1>4. TypeOK'
  <2>1. seen' \in [Threads -> SUBSET Paths]
    BY <1>1, <1>2 DEF Saw
  <2>2. stream' \in [Threads -> Contents \cup {Closed}]
    BY <1>1 DEF Contents
  <2>3. /\ pc' \in [Threads -> GoodPCs \cup SavePCs \cup {"idle"}]
        /\ status' \in [Threads -> Statuses]
    BY <1>1 DEF Return, Goto, Statuses
  <2>4. ASSUME NEW u \in Threads
        PROVE  /\ pc'[u] \in SavePCs \cup {"directory?", "status?", "open"} => stream'[u] = Closed
               /\ pc'[u] = "parse" => stream'[u] # Closed
               /\ pc'[u] # "idle" => path' \in seen'[u]
    BY <1>3 DEF FileInv, TypeOK, SavePCs, Working, Closed
  <2>5. QED
    BY <1>2, <2>1, <2>2, <2>3, <2>4 DEF FileInv, TypeOK, Working
<1>5. ASSUME NEW u \in Threads PROVE IsFiniteSet(seen'[u])
  BY <1>3, FS_AddElement DEF FileInv
<1>6. ThreadInv(t)'
  <2>1. pc'[t] = "idle" /\ status'[t] = "opened" /\ call'[t] = "ini_save"
    BY <1>1, <1>3
  <2>2. QED
    BY <2>1, SaveReturned
<1>7. ASSUME NEW u \in Threads, u # t PROVE ThreadInv(u)'
  <2>1. stream'[u] # stream[u] => stream'[u] = "mixed" /\ TwoTexts(u)'
    <3> SUFFICES ASSUME stream'[u] # stream[u] PROVE stream'[u] = "mixed" /\ TwoTexts(u)'
      OBVIOUS
    <3>1. Regular(path) /\ Working(u) /\ stream[u] # Closed /\ stream'[u] = "mixed"
      BY <1>3
    <3>2. pc[u] \in Passed /\ seen'[u] = seen[u] \cup {e} /\ path \in seen[u]
      BY <1>3, <3>1 DEF FileInv, TypeOK, Working, GoodPCs, Passed
    <3>3. PICK f \in seen[u] : HasText(f)
      BY <3>2, SizeKnows
    <3>4. f # e /\ Regular(f) /\ Regular(e)
      BY <1>2, <3>1, <3>3 DEF HasText, Sizeless
    <3>5. QED
      BY <3>1, <3>2, <3>3, <3>4 DEF TwoTexts
  <2>2. /\ call'[u] = call[u] /\ pc'[u] = pc[u] /\ status'[u] = status[u]
        /\ trouble'[u] = trouble[u] /\ inRoot' = inRoot /\ seen[u] \subseteq seen'[u]
        /\ pc[u] = "idle" => seen'[u] = seen[u] /\ stream'[u] = stream[u]
    BY <1>3, <1>7 DEF Working
  <2>3. QED
    BY <2>1, <2>2, ChangeKeeps DEF FileInv
<1>8. QED
  BY <1>4, <1>5, <1>6, <1>7 DEF FileInv

LEMMA SaveOpenPreserves ==
  ASSUME FileInv, NEW t \in Threads, SaveOpen(t)
  PROVE  FileInv'
<1>1. pc[t] = "open for writing" /\ pc[t] \in SavePCs /\ UNCHANGED <<inRoot, call>>
  BY DEF SaveOpen, SavePCs
<1>2. CASE /\ path' = Emptied(path)
           /\ seen' = Saw(path')
           /\ stream' = [u \in Threads |->
                IF Regular(path) /\ u # t /\ Working(u) /\ stream[u] # Closed THEN "mixed"
                                                                             ELSE stream[u]]
           /\ Return(t, "opened")
           /\ UNCHANGED trouble
  BY <1>1, <1>2, EmptyingPreserves
<1>3. CASE /\ Return(t, "open failed")
           /\ trouble' = [trouble EXCEPT ![t] = @ \/ OpensForWriting(path)]
           /\ UNCHANGED <<path, stream, seen>>
  <2>1. /\ path \in seen[t] /\ call'[t] = "ini_save" /\ pc[t] # "idle"
        /\ pc'[t] = "idle" /\ pc' = [pc EXCEPT ![t] = pc'[t]]
        /\ status' = [status EXCEPT ![t] = status'[t]] /\ status'[t] = "open failed"
        /\ stream' = [stream EXCEPT ![t] = stream'[t]] /\ stream'[t] = Closed
    BY <1>1, <1>3, SaveKnows DEF Return, Goto
  <2>2. /\ trouble' = [trouble EXCEPT ![t] = trouble'[t]] /\ trouble'[t] \in BOOLEAN
        /\ trouble'[t] = (trouble[t] \/ OpensForWriting(path))
    BY <1>1, <1>3, SaveKnows
  <2>3. trouble'[t] \/ ~OpensForWriting(path)
    BY <2>2
  <2>4. ThreadInv(t)'
    BY <1>3, <2>1, <2>3, SaveReturned
  <2>5. QED
    BY <1>1, <1>3, <2>1, <2>2, <2>4, StepPreserves DEF Statuses
<1>4. QED
  BY <1>2, <1>3 DEF SaveOpen

-----------------------------------------------------------------------------

LEMMA InitInv == Init => FileInv
<1> SUFFICES ASSUME Init PROVE FileInv
  OBVIOUS
<1>1. /\ path \in Paths /\ inRoot \in BOOLEAN
      /\ call = [t \in Threads |-> "none"] /\ pc = [t \in Threads |-> "idle"]
      /\ stream = [t \in Threads |-> Closed] /\ status = [t \in Threads |-> "none"]
      /\ seen = [t \in Threads |-> {}] /\ trouble = [t \in Threads |-> FALSE]
  BY FilesAssumption DEF Init, Paths
<1>2. TypeOK
  BY <1>1 DEF TypeOK, Statuses, GoodPCs, SavePCs, Working
<1>3. \A t \in Threads : IsFiniteSet(seen[t])
  BY <1>1, FS_EmptySet
<1>4. ASSUME NEW t \in Threads PROVE ThreadInv(t)
  <2>1. pc[t] = "idle" /\ call[t] = "none"
    BY <1>1
  <2>2. QED
    BY <2>1 DEF ThreadInv, CallInv, VerdictInv, LeakInv, RefusalInv, Returned, Working, GoodPCs,
                SavePCs, Passed
<1>5. QED
  BY <1>2, <1>3, <1>4 DEF FileInv

\* FileInv is inductive: one case per action.
LEMMA FileStep == FileInv /\ [Next]_vars => FileInv'
<1> SUFFICES ASSUME FileInv, [Next]_vars PROVE FileInv'
  OBVIOUS
<1>1. CASE \E f \in Files : Change(f)
  BY <1>1, ChangePreserves
<1>2. ASSUME NEW t \in Threads, GoodCall(t) \/ SaveCall(t) PROVE FileInv'
  BY <1>2, CallPreserves
<1>3. ASSUME NEW t \in Threads, GoodStep(t) PROVE FileInv'
  BY <1>3, DirectoryPreserves, StatusPreserves, SizeExistsPreserves, SizeDirectoryPreserves,
     SizeStatPreserves, OpenPreserves, ParsePreserves DEF GoodStep
<1>4. ASSUME NEW t \in Threads, SaveStep(t) PROVE FileInv'
  BY <1>4, AskTherePreserves, AskPreserves, SaveOpenPreserves DEF SaveStep
<1>5. CASE UNCHANGED vars
  <2>1. TypeOK'
    BY <1>5 DEF vars, FileInv, TypeOK, Working
  <2>2. \A t \in Threads : IsFiniteSet(seen'[t]) /\ ThreadInv(t)'
    BY <1>5, OthersKeep DEF vars, FileInv
  <2>3. QED
    BY <2>1, <2>2 DEF FileInv
<1>6. QED
  BY <1>1, <1>2, <1>3, <1>4, <1>5 DEF Next

LEMMA FileInvariant == Spec => []FileInv
BY InitInv, FileStep, PTL DEF Spec

\* A finite set with two members in it has more than one.
LEMMA TwoMembers ==
  ASSUME NEW S, IsFiniteSet(S), NEW x \in S, NEW y \in S, x # y
  PROVE  Cardinality(S) \in Nat /\ Cardinality(S) > 1
<1>1. Cardinality(S) \in Nat
  BY FS_CardinalityType
<1>2. Cardinality(S) # 0
  BY FS_EmptySet
<1>3. Cardinality(S) # 1
  BY FS_Singleton
<1>4. QED
  BY <1>1, <1>2, <1>3

\* Whatever happens to the path, and to whichever call, the variables keep
\* their types, a stream is open only where ini_good has opened it and not
\* closed it yet, and every call has seen what is there now.
THEOREM TypeCorrect == Spec => []TypeOK
BY FileInvariant, PTL DEF FileInv

\* For any number of threads and of changes between the eight questions of
\* ini_good, its status was true of the path at some moment of the call, or it
\* is about a text that was written while it was read.
THEOREM VerdictsWereTrue == Spec => []VerdictWasTrue
<1>1. FileInv => VerdictWasTrue
  <2> SUFFICES ASSUME FileInv, NEW t \in Threads, Returned(t, "ini_good"), ~trouble[t]
               PROVE  \/ \E f \in seen[t] : Says(status[t], f)
                      \/ status[t] \in {"success", "bad format"} /\ Torn(t)
    BY DEF VerdictWasTrue
  <2>1. TwoTexts(t) => Torn(t)
    <3> SUFFICES ASSUME TwoTexts(t) PROVE Torn(t)
      OBVIOUS
    <3> DEFINE S == {f \in seen[t] : Regular(f)}
    <3>1. IsFiniteSet(S)
      BY FS_Subset DEF FileInv
    <3>2. PICK f, g \in S : f # g
      BY DEF TwoTexts
    <3>3. Cardinality(S) > 1
      BY <3>1, <3>2, TwoMembers
    <3>4. QED
      BY <3>3 DEF Torn
  <2>2. QED
    BY <2>1 DEF FileInv, ThreadInv, VerdictInv
<1>2. QED
  BY <1>1, FileInvariant, PTL

\* ini_good returns with the file open only when the path changed or the
\* system failed during the call, and with one of four statuses; the stream is
\* not lost while nothing happens, nor by a call that succeeds.
THEOREM LeaksNeedChange == Spec => []LeakNeedsChange
<1>1. FileInv => LeakNeedsChange
  <2> SUFFICES ASSUME FileInv, NEW t \in Threads, Returned(t, "ini_good"), stream[t] # Closed
               PROVE  /\ ~Steady(t)
                      /\ status[t] \in {"not found", "is directory", "stat error", "empty"}
    BY DEF LeakNeedsChange
  <2>1. /\ trouble[t] \/ Changed(t)
        /\ status[t] \in {"not found", "is directory", "stat error", "empty"}
    BY DEF FileInv, ThreadInv, LeakInv
  <2>2. Changed(t) => Cardinality(seen[t]) # 1
    BY TwoMembers DEF FileInv, Changed
  <2>3. QED
    BY <2>1, <2>2 DEF Steady
<1>2. QED
  BY <1>1, FileInvariant, PTL

\* Whatever happens to the path between the questions of ini_save and its
\* fopen, a save that is refused could have been refused by fopen at some moment
\* of the call, or the file came or went during it; or it was denied permission
\* because "." was asked for, while a file was to be made in the root directory.
THEOREM RefusalsWereDue == Spec => []RefusalWasDue
<1>1. FileInv => RefusalWasDue
  BY DEF FileInv, ThreadInv, RefusalInv, RefusalWasDue
<1>2. QED
  BY <1>1, FileInvariant, PTL
-----------------------------------------------------------------------------
(* Nothing happens to the path *)

\* The call has seen one thing, and the system did not fail.
Alone(t) == ~Changed(t) /\ ~trouble[t]

\* What each question has then settled about the one thing f that is there.
Settled(t, f) ==
  /\ pc[t] \in Passed \cup {"status?"} => f.kind # "directory"
  /\ pc[t] \in Passed => HasText(f)
  /\ pc[t] \in GoodPCs /\ stream[t] # Closed => f.access.read /\ stream[t] = f.kind
  /\ Returned(t, "ini_good") => status[t] = Verdict(f)

DueInv(t) == Alone(t) => \A f \in seen[t] : Settled(t, f)

\* The branches of Verdict exclude one another.
LEMMA VerdictOf ==
  ASSUME NEW f \in Paths
  PROVE  /\ f.kind = "absent" => Verdict(f) = "not found"
         /\ f.kind = "hidden" => Verdict(f) = "permission denied"
         /\ f.kind = "astray" => Verdict(f) = "unknown error"
         /\ f.kind = "directory" => Verdict(f) = "is directory"
         /\ f.kind = "device" => Verdict(f) = "bad format"
         /\ f.kind = "empty" => Verdict(f) = "empty"
         /\ HasText(f) /\ ~f.access.read => Verdict(f) = "open failed"
         /\ f.kind = "bad" /\ f.access.read => Verdict(f) = "bad format"
         /\ f.kind = "good" /\ f.access.read => Verdict(f) = "success"
BY DEF Verdict, HasText, Regular, Sizeless

LEMMA DueKeeps ==
  ASSUME NEW u \in Threads, DueInv(u), call'[u] = call[u], pc'[u] = pc[u],
         stream'[u] = stream[u], status'[u] = status[u], seen'[u] = seen[u],
         trouble'[u] = trouble[u]
  PROVE  DueInv(u)'
BY DEF DueInv, Settled, Alone, Changed, Returned

\* A call that sees something new is not alone with the path any more.
LEMMA DueSees ==
  ASSUME FileInv, NEW u \in Threads, Working(u), NEW f, f # path, seen'[u] = seen[u] \cup {f}
  PROVE  DueInv(u)'
BY DEF FileInv, TypeOK, DueInv, Alone, Changed

\* What a step of a call that may still be alone knows.
LEMMA AloneSees ==
  ASSUME FileInv, NEW t \in Threads, DueInv(t), Working(t), Alone(t)
  PROVE  /\ path \in Paths /\ \A f \in seen[t] : f = path
         /\ Settled(t, path)
BY DEF FileInv, TypeOK, DueInv, Alone, Changed

\* A thread that has returned is judged by its status; one under way by what
\* the questions have found.
LEMMA DueReturned ==
  ASSUME NEW t \in Threads, pc'[t] = "idle",
         Alone(t)' /\ call'[t] = "ini_good" => \A f \in seen'[t] : status'[t] = Verdict(f)
  PROVE  DueInv(t)'
BY DEF DueInv, Settled, Returned, Passed, GoodPCs

LEMMA DueUnderway ==
  ASSUME NEW t \in Threads, pc'[t] # "idle",
         Alone(t)' => \A f \in seen'[t] :
           /\ pc'[t] \in Passed \cup {"status?"} => f.kind # "directory"
           /\ pc'[t] \in Passed => HasText(f)
           /\ pc'[t] \in GoodPCs /\ stream'[t] # Closed => f.access.read /\ stream'[t] = f.kind
  PROVE  DueInv(t)'
BY DEF DueInv, Settled, Returned

\* stat told the truth, and, once the path has passed, that it is there.
LEMMA Asked ==
  ASSUME FileInv, NEW t \in Threads, DueInv(t), pc[t] \in GoodPCs, NEW answer, Stat(t, answer),
         Alone(t)'
  PROVE  /\ path \in Paths /\ \A f \in seen'[t] : f = path
         /\ answer = StatOf(path)
         /\ Settled(t, path)
         /\ pc[t] \in Passed => answer = "found" /\ HasText(path) /\ path.kind # "directory"
<1>1. /\ seen'[t] = seen[t] /\ trouble'[t] = (trouble[t] \/ answer # StatOf(path))
      /\ Working(t)
  BY DEF Stat, FileInv, TypeOK, Working, GoodPCs
<1>2. answer = StatOf(path) /\ Alone(t)
  <2>1. ~trouble'[t] /\ ~Changed(t)'
    BY DEF Alone
  <2>2. ~Changed(t)
    BY <1>1, <2>1 DEF Changed
  <2>3. QED
    BY <1>1, <2>1, <2>2 DEF Alone
<1>3. path \in Paths /\ (\A f \in seen[t] : f = path) /\ Settled(t, path)
  BY <1>1, <1>2, AloneSees
<1>4. pc[t] \in Passed => HasText(path) /\ path.kind # "directory"
  BY <1>3 DEF Settled
<1>5. HasText(path) => StatOf(path) = "found"
  BY DEF HasText, StatOf, Exists
<1>6. QED
  BY <1>1, <1>2, <1>3, <1>4, <1>5

LEMMA DirectoryDue ==
  ASSUME FileInv, NEW t \in Threads, DueInv(t), CheckDirectory(t)
  PROVE  DueInv(t)'
<1>1. /\ pc[t] = "directory?" /\ pc[t] \in GoodPCs /\ stream'[t] = Closed
      /\ pc \in [Threads -> GoodPCs \cup SavePCs \cup {"idle"}] /\ status \in [Threads -> Statuses]
  BY DEF CheckDirectory, FileInv, TypeOK, GoodPCs
<1>2. PICK answer : Stat(t, answer) /\ IF answer = "found" /\ path.kind = "directory"
                                        THEN Return(t, "is directory")
                                        ELSE Goto(t, "status?") /\ UNCHANGED status
  BY DEF CheckDirectory
<1>3. Alone(t)' => answer = StatOf(path) /\ path \in Paths /\ \A f \in seen'[t] : f = path
  BY <1>1, <1>2, Asked
<1>4. CASE answer = "found" /\ path.kind = "directory"
  <2>1. pc'[t] = "idle" /\ status'[t] = "is directory"
    BY <1>1, <1>2, <1>4 DEF Return, Goto
  <2>2. QED
    BY <1>3, <1>4, <2>1, DueReturned, VerdictOf
<1>5. CASE ~(answer = "found" /\ path.kind = "directory")
  <2>1. pc'[t] = "status?" /\ pc'[t] \notin Passed
    BY <1>1, <1>2, <1>5 DEF Goto, Passed
  <2>2. answer = StatOf(path) => path.kind # "directory"
    BY <1>5 DEF StatOf, Exists
  <2>3. QED
    BY <1>1, <1>3, <2>1, <2>2, DueUnderway
<1>6. QED
  BY <1>4, <1>5

LEMMA StatusDue ==
  ASSUME FileInv, NEW t \in Threads, DueInv(t), CheckStatus(t)
  PROVE  DueInv(t)'
<1>1. /\ pc[t] = "status?" /\ pc[t] \in GoodPCs /\ stream'[t] = Closed
      /\ pc \in [Threads -> GoodPCs \cup SavePCs \cup {"idle"}] /\ status \in [Threads -> Statuses]
  BY DEF CheckStatus, FileInv, TypeOK, GoodPCs
<1>2. PICK answer :
        /\ Stat(t, answer)
        /\ \/ answer = "ENOENT" /\ Return(t, "not found")
           \/ answer = "EACCES" /\ Return(t, "permission denied")
           \/ answer = "error" /\ Return(t, "unknown error")
           \/ answer = "found" /\ ~Regular(path) /\ Return(t, "bad format")
           \/ answer = "found" /\ Regular(path) /\ Sizeless(path) /\ Return(t, "empty")
           \/ /\ answer = "found" /\ HasText(path)
              /\ Goto(t, "exists?") /\ UNCHANGED status
  BY DEF CheckStatus, RegularOnly, HasText
<1>3. Alone(t)' => /\ answer = StatOf(path) /\ path \in Paths
                   /\ \A f \in seen'[t] : f = path
                   /\ path.kind # "directory"
  BY <1>1, <1>2, Asked DEF Settled
<1>4. ASSUME NEW v, Return(t, v), path \in Paths /\ answer = StatOf(path) /\ path.kind # "directory"
                                    => v = Verdict(path)
      PROVE  DueInv(t)'
  <2>1. pc'[t] = "idle" /\ status'[t] = v
    BY <1>1, <1>4 DEF Return, Goto
  <2>2. QED
    BY <1>3, <1>4, <2>1, DueReturned
<1>5. ASSUME path \in Paths, answer = StatOf(path), path.kind # "directory"
      PROVE  /\ answer = "ENOENT" => Verdict(path) = "not found"
             /\ answer = "EACCES" => Verdict(path) = "permission denied"
             /\ answer = "error" => Verdict(path) = "unknown error"
             /\ answer = "found" /\ ~Regular(path) => Verdict(path) = "bad format"
             /\ answer = "found" /\ Regular(path) /\ Sizeless(path) => Verdict(path) = "empty"
  <2>1. /\ answer = "ENOENT" => path.kind = "absent"
        /\ answer = "EACCES" => path.kind = "hidden"
        /\ answer = "error" => path.kind = "astray"
        /\ answer = "found" /\ ~Regular(path) => path.kind = "device"
        /\ Regular(path) /\ Sizeless(path) => path.kind = "empty"
    BY <1>5, StatAnswers DEF Exists, Regular, Sizeless
  <2>2. QED
    BY <1>5, <2>1, VerdictOf
<1>6. CASE answer = "found" /\ HasText(path) /\ Goto(t, "exists?")
  <2>1. pc'[t] = "exists?"
    BY <1>1, <1>6 DEF Goto
  <2>2. QED
    BY <1>1, <1>3, <1>6, <2>1, DueUnderway
<1>7. QED
  BY <1>2, <1>4, <1>5, <1>6

\* Once the path has passed, a stat that tells the truth lets ini_good go on.
LEMMA PassedDue ==
  ASSUME FileInv, NEW t \in Threads, DueInv(t), pc[t] \in Passed, NEW answer, Stat(t, answer),
         UNCHANGED stream, NEW l, Goto(t, l), l \notin Passed => answer # "found" \/ ~HasText(path)
                                               \/ path.kind = "directory"
  PROVE  DueInv(t)'
<1>1. /\ pc'[t] = l /\ pc[t] \in GoodPCs /\ stream'[t] = stream[t]
  BY DEF Goto, Passed, GoodPCs, FileInv, TypeOK
<1>2. ASSUME Alone(t)'
      PROVE  /\ l \in Passed /\ HasText(path) /\ path.kind # "directory"
             /\ \A f \in seen'[t] : f = path
             /\ stream[t] # Closed => path.access.read /\ stream[t] = path.kind
  BY <1>1, <1>2, Asked DEF Settled
<1>3. CASE l = "idle"
  <2>1. ~Alone(t)'
    BY <1>2, <1>3 DEF Passed
  <2>2. QED
    BY <2>1 DEF DueInv
<1>4. CASE l # "idle"
  BY <1>1, <1>2, <1>4, DueUnderway
<1>5. QED
  BY <1>3, <1>4

LEMMA SizeDue ==
  ASSUME FileInv, NEW t \in Threads, DueInv(t), SizeExists(t) \/ SizeDirectory(t) \/ SizeStat(t)
  PROVE  DueInv(t)'
<1>1. pc[t] \in Passed /\ UNCHANGED stream
  BY DEF SizeExists, SizeDirectory, SizeStat, Passed
<1>2. PICK answer, l :
        /\ Stat(t, answer) /\ Goto(t, l)
        /\ l \notin Passed => answer # "found" \/ ~HasText(path) \/ path.kind = "directory"
  <2>1. CASE SizeExists(t)
    BY <2>1 DEF SizeExists, SizeFails, Return, Passed
  <2>2. CASE SizeDirectory(t)
    BY <2>2 DEF SizeDirectory, SizeFails, Return, Passed
  <2>3. CASE SizeStat(t)
    BY <2>3 DEF SizeStat, SizeFails, Return, Passed, AfterSize, HasText
  <2>4. QED
    BY <2>1, <2>2, <2>3
<1>3. QED
  BY <1>1, <1>2, PassedDue

LEMMA OpenDue ==
  ASSUME FileInv, NEW t \in Threads, DueInv(t), GoodOpen(t)
  PROVE  DueInv(t)'
<1>1. /\ pc[t] = "open" /\ pc[t] \in Passed /\ Working(t) /\ UNCHANGED <<path, seen>>
      /\ pc \in [Threads -> GoodPCs \cup SavePCs \cup {"idle"}] /\ status \in [Threads -> Statuses]
      /\ stream \in [Threads -> Contents \cup {Closed}] /\ trouble \in [Threads -> BOOLEAN]
  BY DEF GoodOpen, FileInv, TypeOK, Passed, Working
<1>2. ASSUME Alone(t)
      PROVE  /\ path \in Paths /\ HasText(path) /\ path.kind # "directory"
             /\ \A f \in seen'[t] : f = path
  BY <1>1, <1>2, AloneSees DEF Settled
<1>3. ASSUME trouble[t] => trouble'[t], Alone(t)' PROVE Alone(t)
  BY <1>1, <1>3 DEF Alone, Changed
<1>4. CASE /\ OpensForReading(path)
           /\ stream' = [stream EXCEPT ![t] = Delivered(path)]
           /\ Goto(t, "exists?")
           /\ UNCHANGED <<status, trouble>>
  <2>1. pc'[t] = "exists?" /\ stream'[t] = Delivered(path) /\ trouble'[t] = trouble[t]
    BY <1>1, <1>4 DEF Goto
  <2>2. HasText(path) => Delivered(path) = path.kind
    BY DEF HasText, Delivered
  <2>3. path.access.read
    BY <1>4 DEF OpensForReading
  <2>4. QED
    BY <1>2, <1>3, <2>1, <2>2, <2>3, DueUnderway
<1>5. CASE /\ Return(t, "open failed")
           /\ trouble' = [trouble EXCEPT ![t] = @ \/ OpensForReading(path)]
           /\ UNCHANGED stream
  <2>1. pc'[t] = "idle" /\ status'[t] = "open failed"
    BY <1>1, <1>5 DEF Return, Goto
  <2>2. trouble'[t] = (trouble[t] \/ OpensForReading(path))
    BY <1>1, <1>5
  <2>3. ASSUME Alone(t)' PROVE \A f \in seen'[t] : "open failed" = Verdict(f)
    <3>1. Alone(t) /\ ~OpensForReading(path)
      BY <1>3, <2>2, <2>3 DEF Alone
    <3>2. path \in Paths /\ HasText(path) /\ \A f \in seen'[t] : f = path
      BY <1>2, <3>1
    <3>3. ~path.access.read
      BY <3>1, <3>2 DEF OpensForReading, HasText, Exists
    <3>4. QED
      BY <3>2, <3>3, VerdictOf
  <2>4. QED
    BY <2>1, <2>3, DueReturned
<1>6. QED
  BY <1>4, <1>5 DEF GoodOpen

LEMMA ParseDue ==
  ASSUME FileInv, NEW t \in Threads, DueInv(t), Parse(t)
  PROVE  DueInv(t)'
<1>1. /\ pc[t] = "parse" /\ pc[t] \in Passed /\ pc[t] \in GoodPCs /\ Working(t)
      /\ UNCHANGED <<path, seen>> /\ stream[t] # Closed
      /\ pc \in [Threads -> GoodPCs \cup SavePCs \cup {"idle"}] /\ status \in [Threads -> Statuses]
      /\ trouble \in [Threads -> BOOLEAN]
  BY DEF Parse, FileInv, TypeOK, Passed, GoodPCs, Working
<1>2. ASSUME Alone(t)
      PROVE  /\ path \in Paths /\ path.access.read
             /\ stream[t] = path.kind /\ path.kind \in {"good", "bad"}
             /\ \A f \in seen'[t] : f = path
  BY <1>1, <1>2, AloneSees DEF Settled, HasText, Regular, Sizeless
<1>3. \/ Accepted(stream[t]) /\ Return(t, "success") /\ trouble'[t] = (trouble[t] \/ stream[t] = "unreadable")
      \/ stream[t] \in {"bad", "mixed"} /\ Return(t, "bad format") /\ trouble'[t] = trouble[t]
      \/ (\E v : Return(t, v)) /\ trouble'[t] = TRUE
  BY <1>1 DEF Parse
<1>4. ASSUME Alone(t)' PROVE Alone(t) /\ ~trouble'[t]
  BY <1>1, <1>3, <1>4 DEF Alone, Changed
<1>5. CASE Accepted(stream[t]) /\ Return(t, "success")
  <2>1. pc'[t] = "idle" /\ status'[t] = "success"
    BY <1>1, <1>5 DEF Return, Goto
  <2>2. ASSUME Alone(t)' PROVE \A f \in seen'[t] : "success" = Verdict(f)
    BY <1>2, <1>4, <1>5, <2>2, VerdictOf DEF Accepted
  <2>3. QED
    BY <2>1, <2>2, DueReturned
<1>6. CASE stream[t] \in {"bad", "mixed"} /\ Return(t, "bad format")
  <2>1. pc'[t] = "idle" /\ status'[t] = "bad format"
    BY <1>1, <1>6 DEF Return, Goto
  <2>2. ASSUME Alone(t)' PROVE \A f \in seen'[t] : "bad format" = Verdict(f)
    BY <1>2, <1>4, <1>6, <2>2, VerdictOf
  <2>3. QED
    BY <2>1, <2>2, DueReturned
<1>7. CASE trouble'[t] = TRUE
  BY <1>7 DEF DueInv, Alone
<1>8. QED
  BY <1>3, <1>5, <1>6, <1>7

\* A call starts with nothing settled, and the steps of ini_save settle
\* nothing that ini_good returned.
LEMMA CallDue ==
  ASSUME FileInv, NEW t \in Threads, GoodCall(t) \/ SaveCall(t)
  PROVE  DueInv(t)'
<1>1. PICK l \in {"directory?", "there?"} : Goto(t, l) /\ stream' = [stream EXCEPT ![t] = Closed]
  BY DEF GoodCall, SaveCall, Call
<1>2. pc'[t] = l /\ stream'[t] = Closed /\ l \notin Passed \cup {"status?"} /\ l # "idle"
  BY <1>1 DEF Goto, FileInv, TypeOK, Passed
<1>3. QED
  BY <1>2, DueUnderway

LEMMA SaveDue ==
  ASSUME FileInv, NEW t \in Threads, SaveStep(t)
  PROVE  DueInv(t)'
<1>1. /\ pc[t] \in SavePCs /\ call[t] = "ini_save" /\ call' = call
      /\ \E l \in SavePCs \cup {"idle"} : Goto(t, l)
  BY SaveKnows DEF SaveStep, AskThere, AskedNext, AskFile, AskParent, Grant, SaveOpen, Return, SavePCs
<1>2. pc'[t] \in SavePCs \cup {"idle"} /\ call'[t] # "ini_good"
  BY <1>1 DEF Goto, FileInv, TypeOK
<1>3. CASE pc'[t] = "idle"
  BY <1>2, <1>3, DueReturned
<1>4. CASE pc'[t] # "idle"
  <2>1. pc'[t] \notin GoodPCs /\ pc'[t] \notin Passed \cup {"status?"}
    BY <1>2, <1>4 DEF SavePCs, GoodPCs, Passed
  <2>2. QED
    BY <1>4, <2>1, DueUnderway
<1>5. QED
  BY <1>3, <1>4

\* The other threads: their calls stand still, unless the path changes under
\* them; emptying a path that is empty changes nothing for a call that is alone.
LEMMA OthersDue ==
  ASSUME FileInv, NEW t \in Threads, NEW u \in Threads, u # t, DueInv(u),
         GoodCall(t) \/ GoodStep(t) \/ SaveCall(t) \/ SaveStep(t)
  PROVE  DueInv(u)'
<1>1. CASE GoodCall(t) \/ SaveCall(t)
  <2>1. \E c, l : Call(t, c, l)
    BY <1>1 DEF GoodCall, SaveCall
  <2>2. QED
    BY <2>1, DueKeeps DEF Call, Goto, FileInv, TypeOK
<1>2. CASE GoodStep(t)
  <2>1. CASE GoodOpen(t) \/ Parse(t)
    BY <2>1, DueKeeps DEF GoodOpen, Parse, Return, Goto, FileInv, TypeOK
  <2>2. CASE CheckDirectory(t) \/ CheckStatus(t)
    BY <2>2, DueKeeps DEF CheckDirectory, CheckStatus, Stat, Return, Goto, FileInv, TypeOK
  <2>3. CASE SizeExists(t) \/ SizeDirectory(t) \/ SizeStat(t)
    BY <2>3, DueKeeps DEF SizeExists, SizeDirectory, SizeStat, SizeFails, Stat, Return, Goto, FileInv, TypeOK
  <2>4. QED
    BY <1>2, <2>1, <2>2, <2>3 DEF GoodStep
<1>3. CASE AskThere(t) \/ AskFile(t) \/ AskParent(t)
  BY <1>3, DueKeeps DEF AskThere, AskFile, AskParent, Grant, Return, Goto, FileInv, TypeOK
<1>4. CASE SaveOpen(t)
  <2>1. /\ call'[u] = call[u] /\ pc'[u] = pc[u] /\ status'[u] = status[u]
        /\ trouble'[u] = trouble[u]
    BY <1>4 DEF SaveOpen, Return, Goto, FileInv, TypeOK
  <2>2. CASE UNCHANGED <<path, stream, seen>>
    BY <2>1, <2>2, DueKeeps
  <2>3. CASE /\ path' = Emptied(path)
             /\ seen' = Saw(path')
             /\ stream' = [v \in Threads |->
                  IF Regular(path) /\ v # t /\ Working(v) /\ stream[v] # Closed THEN "mixed"
                                                                               ELSE stream[v]]
    <3>1. /\ seen'[u] = IF Working(u) THEN seen[u] \cup {Emptied(path)} ELSE seen[u]
          /\ stream'[u] = IF Regular(path) /\ Working(u) /\ stream[u] # Closed THEN "mixed" ELSE stream[u]
      BY <2>3 DEF Saw
    <3>2. CASE ~Working(u)
      BY <2>1, <3>1, <3>2, DueKeeps
    <3>3. CASE Working(u) /\ Emptied(path) # path
      BY <3>1, <3>3, DueSees
    <3>4. CASE Working(u) /\ Emptied(path) = path
      <4>1. seen'[u] = seen[u] /\ path \in seen[u]
        BY <3>1, <3>4 DEF FileInv, TypeOK
      <4>2. CASE stream'[u] = stream[u]
        BY <2>1, <4>1, <4>2, DueKeeps
      <4>3. CASE stream'[u] # stream[u]
        <5>1. Regular(path) /\ stream[u] # Closed
          BY <3>1, <4>3
        <5>2. path.kind = "empty"
          BY <3>4, <5>1 DEF Emptied, FileInv, TypeOK, Paths, Regular
        <5>3. pc[u] \in Passed
          BY <3>4, <5>1 DEF FileInv, TypeOK, Working, GoodPCs, SavePCs, Passed
        <5>4. ~Alone(u)
          BY <3>4, <5>2, <5>3, AloneSees DEF Settled, HasText, Sizeless
        <5>5. ~Alone(u)'
          BY <2>1, <4>1, <5>4 DEF Alone, Changed
        <5>6. QED
          BY <5>5 DEF DueInv
      <4>4. QED
        BY <4>2, <4>3
    <3>5. QED
      BY <3>2, <3>3, <3>4
  <2>4. QED
    BY <1>4, <2>2, <2>3 DEF SaveOpen
<1>5. QED
  BY <1>1, <1>2, <1>3, <1>4 DEF SaveStep

LEMMA ChangeDue ==
  ASSUME FileInv, NEW u \in Threads, DueInv(u), \E f \in Files : Change(f)
  PROVE  DueInv(u)'
<1>1. PICK f \in Files : Change(f)
  OBVIOUS
<1>2. /\ f # path /\ UNCHANGED <<call, pc, status, trouble>>
      /\ seen'[u] = IF Working(u) THEN seen[u] \cup {f} ELSE seen[u]
  BY <1>1 DEF Change, Saw
<1>3. CASE Working(u)
  BY <1>2, <1>3, DueSees
<1>4. CASE ~Working(u)
  <2>1. stream'[u] = stream[u]
    BY <1>1, <1>4 DEF Change
  <2>2. QED
    BY <1>2, <1>4, <2>1, DueKeeps
<1>5. QED
  BY <1>3, <1>4

\* With FileInv, DueInv is inductive.
LEMMA DueStep ==
  ASSUME FileInv, \A t \in Threads : DueInv(t), [Next]_vars
  PROVE  \A t \in Threads : DueInv(t)'
<1> SUFFICES ASSUME NEW u \in Threads PROVE DueInv(u)'
  OBVIOUS
<1>1. CASE \E f \in Files : Change(f)
  BY <1>1, ChangeDue
<1>2. CASE UNCHANGED vars
  BY <1>2, DueKeeps DEF vars
<1>3. ASSUME NEW t \in Threads, GoodCall(t) \/ GoodStep(t) \/ SaveCall(t) \/ SaveStep(t)
      PROVE  DueInv(u)'
  <2>1. CASE u # t
    BY <1>3, <2>1, OthersDue
  <2>2. CASE u = t
    BY <1>3, <2>2, CallDue, SaveDue, DirectoryDue, StatusDue, SizeDue, OpenDue, ParseDue DEF GoodStep
  <2>3. QED
    BY <2>1, <2>2
<1>4. QED
  BY <1>1, <1>2, <1>3 DEF Next

LEMMA DueInvariant == Spec => [](\A t \in Threads : DueInv(t))
<1>1. Init => \A t \in Threads : DueInv(t)
  BY DEF Init, DueInv
<1>2. FileInv /\ (\A t \in Threads : DueInv(t)) /\ [Next]_vars => (\A t \in Threads : DueInv(t))'
  BY DueStep
<1>3. QED
  BY <1>1, <1>2, FileInvariant, PTL DEF Spec

\* If nothing happens to the path during a call of ini_good, whatever the other
\* threads do, its eight questions agree: the status is the one that is due to
\* what is there.
THEOREM VerdictsAreDue == Spec => []VerdictIsDue
<1>1. FileInv /\ (\A t \in Threads : DueInv(t)) => VerdictIsDue
  <2> SUFFICES ASSUME FileInv, \A t \in Threads : DueInv(t),
                      NEW t \in Threads, Returned(t, "ini_good"), Steady(t), NEW f \in seen[t]
               PROVE  status[t] = Verdict(f)
    BY DEF VerdictIsDue
  <2>1. ~Changed(t)
    BY TwoMembers DEF FileInv, Changed, Steady
  <2>2. QED
    BY <2>1 DEF DueInv, Alone, Settled, Steady
<1>2. QED
  BY <1>1, FileInvariant, DueInvariant, PTL
=============================================================================
