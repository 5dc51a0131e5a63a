------------------------------- MODULE OtaProofs -------------------------------
(***************************************************************************)
(* Proofs about Ota, for any jobs, versions, messages and restarts.  What   *)
(* the three invariants say of the state between two steps of a handler is  *)
(* carried by the shape of todo, the steps that the handler has still to     *)
(* take.                                                                   *)
(***************************************************************************)
EXTENDS Ota, TLAPS

Step == [op : Ops, job : Jobs \cup {NoJob}, status : Status]

\* Only reports, writes of the file and module_info may be about no job.
JobsNamed ==
  \A i \in 1 .. Len(todo) : todo[i].op \notin {"report", "flush", "module_info"} => todo[i].job \in Jobs

\* A callback that is still to be made has a verified file, and nothing that could
\* change the file is done before it.
CallbacksVerified ==
  \A i \in 1 .. Len(todo) : todo[i].op = "callback" =>
    /\ todo[i].job \in Signed /\ file[todo[i].job] = "good"
    /\ \A k \in 1 .. i - 1 : todo[k].op \in {"report", "put_task", "flush"}

\* A success that is owed is the first thing the handler does, or is found by the
\* module_info of the start; the file that was read at the start has not been
\* written since.
OwedKept ==
  owed # NoJob =>
    /\ disk.job = owed /\ version = VersionOf[owed]
    /\ up => todo \in {<<Op("module_info", NoJob)>>, Recovered(owed) \o <<Report(NoJob, "Version")>>}

\* Without a restart, a saved task, or one that is going to be saved, is deleted by
\* a later step of the same handler.
TasksDeleted ==
  restarts = 0 =>
    /\ ~up => kv.tasks = {} /\ disk.tasks = {}
    /\ \A j \in kv.tasks : \E i \in 1 .. Len(todo) : todo[i].op = "delete_task" /\ todo[i].job = j
    /\ \A i \in 1 .. Len(todo) : todo[i].op = "put_task" =>
         \E k \in i + 1 .. Len(todo) : todo[k].op = "delete_task" /\ todo[k].job = todo[i].job

OtaInv == TypeOK /\ JobsNamed /\ CallbacksVerified /\ OwedKept /\ TasksDeleted

-----------------------------------------------------------------------------
(* Sequences of steps.                                                     *)

\* Replacing the head of a sequence by another sequence: length and elements.
LEMMA ReplaceHead ==
  ASSUME NEW S, NEW q \in Seq(S), q # <<>>, NEW s \in Seq(S)
  PROVE  LET r == s \o Tail(q)
         IN  /\ r \in Seq(S) /\ Len(r) = Len(s) + Len(q) - 1
             /\ Len(s) \in Nat /\ Len(q) \in Nat /\ Len(q) > 0
             /\ \A i \in 1 .. Len(s) : r[i] = s[i]
             /\ \A i \in 2 .. Len(q) : r[Len(s) + i - 1] = q[i]
             /\ \A i \in 1 .. Len(r) : i > Len(s) => i - Len(s) + 1 \in 2 .. Len(q) /\ r[i] = q[i - Len(s) + 1]
OBVIOUS

\* The empty sequence in front of another.
LEMMA EmptyFirst == ASSUME NEW a PROVE <<>> \o <<a>> = <<a>>
OBVIOUS

\* One more element at the end: length and first element.
LEMMA OneMore ==
  ASSUME NEW S, NEW s \in Seq(S), NEW a \in S, s # <<>>
  PROVE  s \o <<a>> \in Seq(S) /\ s \o <<a>> # <<>> /\ Head(s \o <<a>>) = Head(s)
OBVIOUS

\* The records that Op and Report make.
LEMMA Records ==
  /\ \A o \in Ops, j \in Jobs \cup {NoJob} :
       Op(o, j) \in Step /\ Op(o, j).op = o /\ Op(o, j).job = j
  /\ \A j \in Jobs \cup {NoJob}, t \in Status :
       Report(j, t) \in Step /\ Report(j, t).op = "report" /\ Report(j, t).job = j /\ Report(j, t).status = t
BY DEF Op, Report, Step, Ops, Status

\* The steps that do not touch a firmware file.
Quiet == {"report", "put_task", "flush"}

\* What a handler may put in front of the steps it still has to take: jobs are named,
\* callbacks come with a verified file before anything changes it, and a task that is
\* saved is deleted again.
Fine(s) ==
  /\ s \in Seq(Step)
  /\ \A i \in 1 .. Len(s) : s[i].op \notin {"report", "flush", "module_info"} => s[i].job \in Jobs
  /\ \A i \in 1 .. Len(s) : s[i].op = "callback" =>
       /\ s[i].job \in Signed /\ file'[s[i].job] = "good"
       /\ \A k \in 1 .. i - 1 : s[k].op \in Quiet
  /\ \A i \in 1 .. Len(s) : s[i].op = "put_task" =>
       \E k \in i + 1 .. Len(s) : s[k].op = "delete_task" /\ s[k].job = s[i].job

\* Nothing, or one step that names its job and is neither a callback nor the start
\* of a task.
LEMMA FineShort ==
  /\ Fine(<<>>)
  /\ \A x \in Step : /\ x.op \notin {"callback", "put_task"}
                     /\ x.op \notin {"report", "flush", "module_info"} => x.job \in Jobs
                     => Fine(<<x>>)
BY DEF Fine

\* on_download_error
LEMMA FineError == ASSUME NEW j \in Jobs PROVE Fine(DownloadError(j))
<1> DEFINE s == DownloadError(j)
<1>1. s \in Seq(Step) /\ Len(s) = 4
  BY Records DEF DownloadError, Dropped, Ops, Status
<1>2. /\ s[1] = Op("delete_file", j) /\ s[2] = Report(j, "Failed")
      /\ s[3] = Op("delete_task", j) /\ s[4] = Op("map_remove", j)
  BY DEF DownloadError, Dropped
<1>3. /\ s[1].op = "delete_file" /\ s[2].op = "report" /\ s[3].op = "delete_task" /\ s[4].op = "map_remove"
      /\ s[1].job = j /\ s[3].job = j /\ s[4].job = j
  BY <1>2, Records DEF Ops, Status
<1> HIDE DEF s
<1>4. \A i \in 1 .. Len(s) : i = 1 \/ i = 2 \/ i = 3 \/ i = 4
  BY <1>1
<1>5. Fine(s) BY <1>1, <1>3, <1>4 DEF Fine
<1> QED BY <1>5 DEF s

\* on_download_complete, of a file whose content is c
LEMMA FineComplete ==
  ASSUME NEW j \in Jobs, NEW c, c = "good" => file'[j] = "good"
  PROVE  Fine(DownloadComplete(j, c))
<1> DEFINE s == DownloadComplete(j, c)
<1>1. CASE j \notin Signed
  <2>1. s \in Seq(Step) /\ Len(s) = 2 /\ s[1] = Op("delete_task", j) /\ s[2] = Op("map_remove", j)
    BY <1>1, Records DEF DownloadComplete, Dropped, Ops, Status
  <2>2. s[1].op = "delete_task" /\ s[2].op = "map_remove" /\ s[1].job = j /\ s[2].job = j
    BY <2>1, Records DEF Ops
  <2> HIDE DEF s
  <2>3. Fine(s) BY <2>1, <2>2 DEF Fine
  <2> QED BY <2>3 DEF s
<1>2. CASE j \in Signed /\ c = "good"
  <2>1. s \in Seq(Step) /\ Len(s) = 5
    BY <1>2, Records DEF DownloadComplete, Dropped, Ops, Status
  <2>2. /\ s[1] = Report(j, "Downloaded") /\ s[2] = Op("put_task", j) /\ s[3] = Op("callback", j)
        /\ s[4] = Op("delete_task", j) /\ s[5] = Op("map_remove", j)
    BY <1>2 DEF DownloadComplete, Dropped
  <2>3. /\ s[1].op = "report" /\ s[2].op = "put_task" /\ s[3].op = "callback"
        /\ s[4].op = "delete_task" /\ s[5].op = "map_remove"
        /\ s[2].job = j /\ s[3].job = j /\ s[4].job = j /\ s[5].job = j
    BY <2>2, Records DEF Ops, Status
  <2> HIDE DEF s
  <2>4. \A i \in 1 .. Len(s) : i = 1 \/ i = 2 \/ i = 3 \/ i = 4 \/ i = 5
    BY <2>1
  <2>5. \A k \in 1 .. 2 : s[k].op \in Quiet
    BY <2>3 DEF Quiet
  <2>6. 4 \in 2 + 1 .. Len(s) BY <2>1
  <2>7. Fine(s) BY <1>2, <2>1, <2>3, <2>4, <2>5, <2>6 DEF Fine
  <2> QED BY <2>7 DEF s
<1>3. CASE j \in Signed /\ c # "good"
  <2>1. s = DownloadError(j) BY <1>3 DEF DownloadComplete, DownloadError
  <2> QED BY <2>1, FineError
<1> QED BY <1>1, <1>2, <1>3

\* iot_ota_set_device_module_info, of a saved job that has become the running version
LEMMA FineRecovered == ASSUME NEW j \in Jobs PROVE Fine(Recovered(j) \o <<Report(NoJob, "Version")>>)
<1> DEFINE s == Recovered(j) \o <<Report(NoJob, "Version")>>
<1>1. s \in Seq(Step) /\ Len(s) = 4
  BY Records DEF Recovered, Ops, Status
<1>2. /\ s[1] = Report(j, "Success") /\ s[2] = Op("delete_job", j)
      /\ s[3] = Op("delete_task", j) /\ s[4] = Report(NoJob, "Version")
  BY DEF Recovered
<1>3. /\ s[1].op = "report" /\ s[2].op = "delete_job" /\ s[3].op = "delete_task" /\ s[4].op = "report"
      /\ s[2].job = j /\ s[3].job = j
  BY <1>2, Records DEF Ops, Status
<1> HIDE DEF s
<1>4. \A i \in 1 .. Len(s) : i = 1 \/ i = 2 \/ i = 3 \/ i = 4
  BY <1>1
<1>5. Fine(s) BY <1>1, <1>3, <1>4 DEF Fine
<1> QED BY <1>5 DEF s

-----------------------------------------------------------------------------
(* A step of a handler.                                                    *)

\* Every step of a handler replaces the first thing to do by steps that are fine.
\* One that does not touch a firmware file is replaced by the write of the key-value
\* file at most.
HandlerStep ==
  /\ up /\ todo # <<>>
  /\ \E s : /\ todo' = s \o Tail(todo) /\ Fine(s)
            /\ Head(todo).op \in Quiet =>
                 file' = file /\ \A i \in 1 .. Len(s) : s[i].op = "flush"

\* Every step of a handler is a HandlerStep.
LEMMA HandlerSteps == TypeOK /\ JobsNamed /\ CallbacksVerified /\ Handle => HandlerStep
<1> SUFFICES ASSUME TypeOK, JobsNamed, CallbacksVerified, Handle PROVE HandlerStep
  OBVIOUS
<1>t. todo \in Seq(Step) /\ file \in [Jobs -> {"none", "bad", "good"}] /\ kv \in Kv
  BY DEF TypeOK, Step
<1>h. ASSUME todo # <<>> PROVE /\ Head(todo) = todo[1] /\ 1 \in 1 .. Len(todo) /\ Head(todo) \in Step
  BY <1>t, <1>h
<1>j. ASSUME todo # <<>>, Head(todo).op \notin {"report", "flush", "module_info"} PROVE J \in Jobs
  BY <1>h, <1>j DEF JobsNamed, J
<1>o. \A o \in {"flush", "callback", "download", "receive", "module_info"} : o \in Ops
  BY DEF Ops
<1>s. Fine(<<>>) BY FineShort
<1>w. ASSUME Now("put_job") \/ Now("delete_job") \/ Now("put_task") \/ Now("delete_task"), NEW new, Writes(new)
      PROVE  HandlerStep
  <2>1. Fine(<<Op("flush", NoJob)>>)
    BY <1>o, FineShort, Records
  <2>2. \A i \in 1 .. Len(<<Op("flush", NoJob)>>) : <<Op("flush", NoJob)>>[i].op = "flush"
    BY <1>o, Records
  <2> QED BY <1>w, <2>1, <2>2 DEF Writes, Instead, Now, HandlerStep
<1>1. CASE DoReport
  BY <1>1, <1>s DEF DoReport, Now, NextStep, Instead, HandlerStep
<1>2. CASE PutJob \/ DeleteJob \/ PutTask \/ DeleteTask
  BY <1>2, <1>w DEF PutJob, DeleteJob, PutTask, DeleteTask
<1>3. CASE Flush
  BY <1>3, <1>s DEF Flush, Now, NextStep, Instead, HandlerStep
<1>4. CASE DeleteFile \/ MapRemove
  BY <1>4, <1>s DEF DeleteFile, MapRemove, Now, NextStep, Instead, HandlerStep, Quiet
<1>5. CASE ModuleInfo
  <2> DEFINE done == kv.job # NoJob /\ VersionOf[kv.job] = version
             s == (IF done THEN Recovered(kv.job) ELSE <<>>) \o <<Report(NoJob, "Version")>>
  <2>1. Fine(s)
    <3>1. CASE done
      <4>1. kv.job \in Jobs BY <1>t, <3>1 DEF Kv
      <4> QED BY <3>1, <4>1, FineRecovered
    <3>2. CASE ~done
      <4>1. s = <<Report(NoJob, "Version")>> BY <3>2, EmptyFirst
      <4>2. Fine(<<Report(NoJob, "Version")>>) BY FineShort, Records DEF Status
      <4> QED BY <4>1, <4>2
    <3> QED BY <3>1, <3>2
  <2> HIDE DEF s
  <2>2. todo' = s \o Tail(todo) BY <1>5 DEF ModuleInfo, Instead, s
  <2>3. up /\ todo # <<>> /\ Head(todo).op = "module_info" BY <1>5 DEF ModuleInfo, Now
  <2> QED BY <2>1, <2>2, <2>3 DEF HandlerStep, Quiet
<1>6. CASE StartDownload
  <2>1. up /\ todo # <<>> /\ Head(todo).op = "start_download" /\ file' = file
    BY <1>6 DEF StartDownload, Now
  <2>2. J \in Jobs BY <1>j, <2>1
  <2>3. Fine(<<Op("download", J)>>) BY <1>o, <2>2, FineShort, Records
  <2>4. ASSUME ReuseFile PROVE Fine(<<Op("callback", J)>>)
    <3> DEFINE x == Op("callback", J)
    <3>1. x \in Step /\ x.op = "callback" /\ x.job = J BY <1>o, <2>2, Records
    <3>2. J \in Signed /\ file'[J] = "good" BY <2>1, <2>4 DEF ReuseFile
    <3> HIDE DEF x
    <3>3. Fine(<<x>>) BY <2>2, <3>1, <3>2 DEF Fine
    <3> QED BY <3>3 DEF x
  <2> QED BY <1>6, <2>1, <2>3, <2>4 DEF StartDownload, Instead, HandlerStep, Quiet
<1>7. CASE Download
  <2>1. up /\ todo # <<>> /\ Head(todo).op = "download" BY <1>7 DEF Download, Now
  <2>2. J \in Jobs BY <1>j, <2>1
  <2>3. CASE NextStep BY <1>s, <2>1, <2>3 DEF NextStep, Instead, HandlerStep, Quiet
  <2>4. CASE Instead(DownloadError(J)) BY <2>1, <2>2, <2>4, FineError DEF Instead, HandlerStep, Quiet
  <2>5. CASE Instead(DownloadComplete(J, file[J])) /\ UNCHANGED file
    BY <2>1, <2>2, <2>5, FineComplete DEF Instead, HandlerStep, Quiet
  <2>6. CASE Instead(<<Op("receive", J)>>)
    <3>1. Fine(<<Op("receive", J)>>) BY <1>o, <2>2, FineShort, Records
    <3> QED BY <2>1, <2>6, <3>1 DEF Instead, HandlerStep, Quiet
  <2> QED BY <1>7, <2>3, <2>4, <2>5, <2>6 DEF Download
<1>8. CASE Receive
  <2>1. up /\ todo # <<>> /\ Head(todo).op = "receive" BY <1>8 DEF Receive, Now
  <2>2. J \in Jobs BY <1>j, <2>1
  <2>3. CASE NextStep BY <1>s, <2>1, <2>3 DEF NextStep, Instead, HandlerStep, Quiet
  <2>4. CASE Instead(DownloadError(J)) BY <2>1, <2>2, <2>4, FineError DEF Instead, HandlerStep, Quiet
  <2>5. ASSUME NEW c \in {"good", "bad"}, file' = [file EXCEPT ![J] = c], Instead(DownloadComplete(J, c))
        PROVE  HandlerStep
    <3>1. c = "good" => file'[J] = "good" BY <1>t, <2>2, <2>5
    <3> QED BY <2>1, <2>2, <2>5, <3>1, FineComplete DEF Instead, HandlerStep, Quiet
  <2> QED BY <1>8, <2>3, <2>4, <2>5 DEF Receive
<1>9. CASE Callback
  <2>1. up /\ todo # <<>> /\ Head(todo).op = "callback" BY <1>9 DEF Callback, Now
  <2>2. J \in Jobs BY <1>j, <2>1
  <2>3. CASE NextStep BY <1>s, <2>1, <2>3 DEF NextStep, Instead, HandlerStep, Quiet
  <2>4. CASE Instead(<<Op("module_info", NoJob), Report(J, "Installed")>>)
    <3> DEFINE x == Op("module_info", NoJob)  y == Report(J, "Installed")
    <3>1. x \in Step /\ x.op = "module_info" /\ y \in Step /\ y.op = "report"
      BY <1>o, <2>2, Records DEF Status
    <3> HIDE DEF x, y
    <3>2. Fine(<<x, y>>) BY <3>1 DEF Fine
    <3> QED BY <2>1, <2>4, <3>2 DEF Instead, HandlerStep, Quiet, x, y
  <2>5. CASE Instead(<<Report(J, "Failed")>>)
    <3>1. Fine(<<Report(J, "Failed")>>) BY <2>2, FineShort, Records DEF Status
    <3> QED BY <2>1, <2>5, <3>1 DEF Instead, HandlerStep, Quiet
  <2> QED BY <1>9, <2>3, <2>4, <2>5 DEF Callback
<1> QED BY <1>1, <1>2, <1>3, <1>4, <1>5, <1>6, <1>7, <1>8, <1>9 DEF Handle

-----------------------------------------------------------------------------
(* The parts of the invariant.                                             *)

\* What a step other than a handler's does to todo and the firmware files.
LEMMA OtherSteps ==
  [Next]_vars => \/ Handle
                 \/ todo' = <<>> /\ ~up'
                 \/ UNCHANGED <<todo, file, kv, disk, restarts, up>>
                 \/ /\ UNCHANGED file
                    /\ \/ Boot
                       \/ \E j \in Jobs : Notify(j) \/ Reply(j)
BY DEF Next, vars, Boot, Crash, Ends, Install, Notify, Reply, Send

\* The initial states satisfy the invariant.
LEMMA InitInv == Init => OtaInv
<1> SUFFICES ASSUME Init PROVE OtaInv
  OBVIOUS
<1>1. TypeOK
  <2> USE DEF Init
  <2>1. 0 \in 0 .. MaxMessages /\ 0 \in 0 .. MaxRestarts BY OtaAssumption
  <2>2. EmptyKv \in Kv BY DEF EmptyKv, Kv
  <2>3. queue \in Seq(Message) /\ todo \in Seq(Step) BY DEF Step
  <2> QED BY <2>1, <2>2, <2>3 DEF TypeOK, Step
<1> QED BY <1>1 DEF Init, OtaInv, JobsNamed, CallbacksVerified, OwedKept, TasksDeleted, EmptyKv

\* The first steps of a handler name their job.
LEMMA NamedStep == TypeOK /\ JobsNamed /\ CallbacksVerified /\ [Next]_vars => JobsNamed'
<1> SUFFICES ASSUME TypeOK, JobsNamed, CallbacksVerified, [Next]_vars PROVE JobsNamed'
  OBVIOUS
<1>t. todo \in Seq(Step) BY DEF TypeOK, Step
<1>1. CASE Handle
  <2>1. PICK s : todo' = s \o Tail(todo) /\ Fine(s) /\ todo # <<>>
    BY <1>1, HandlerSteps DEF HandlerStep
  <2>2. s \in Seq(Step) BY <2>1 DEF Fine
  <2>3. /\ Len(s) \in Nat /\ \A i \in 1 .. Len(s) : todo'[i] = s[i]
        /\ \A i \in 1 .. Len(todo') : i > Len(s) => i - Len(s) + 1 \in 2 .. Len(todo) /\ todo'[i] = todo[i - Len(s) + 1]
    BY <1>t, <2>1, <2>2, ReplaceHead
  <2>4. \A i \in 1 .. Len(todo') : i \in 1 .. Len(s) \/ i > Len(s) BY <2>3
  <2> QED BY <2>1, <2>3, <2>4 DEF JobsNamed, Fine
<1>2. CASE todo' = <<>> BY <1>2 DEF JobsNamed
<1>3. CASE UNCHANGED todo BY <1>3 DEF JobsNamed
<1>4. CASE Boot BY <1>4, Records DEF Boot, JobsNamed, Ops
<1>5. ASSUME NEW j \in Jobs, Notify(j) PROVE JobsNamed'
  BY <1>5, Records DEF Notify, JobsNamed, Status
<1>6. ASSUME NEW j \in Jobs, Reply(j) PROVE JobsNamed'
  BY <1>6, Records DEF Reply, JobsNamed, Ops
<1> QED BY <1>1, <1>2, <1>3, <1>4, <1>5, <1>6, OtherSteps

\* A verified file stays verified until its callback.
LEMMA VerifiedStep == TypeOK /\ JobsNamed /\ CallbacksVerified /\ [Next]_vars => CallbacksVerified'
<1> SUFFICES ASSUME TypeOK, JobsNamed, CallbacksVerified, [Next]_vars PROVE CallbacksVerified'
  OBVIOUS
<1>t. todo \in Seq(Step) BY DEF TypeOK, Step
<1>1. CASE Handle
  <2>1. PICK s : /\ todo' = s \o Tail(todo) /\ Fine(s) /\ todo # <<>>
                 /\ Head(todo).op \in Quiet =>
                      file' = file /\ \A i \in 1 .. Len(s) : s[i].op = "flush"
    BY <1>1, HandlerSteps DEF HandlerStep
  <2>2. s \in Seq(Step) BY <2>1 DEF Fine
  <2>3. /\ Len(s) \in Nat /\ Len(todo) \in Nat /\ \A i \in 1 .. Len(s) : todo'[i] = s[i]
        /\ \A i \in 1 .. Len(todo') : i > Len(s) => i - Len(s) + 1 \in 2 .. Len(todo) /\ todo'[i] = todo[i - Len(s) + 1]
    BY <1>t, <2>1, <2>2, ReplaceHead
  <2>4. Head(todo) = todo[1] BY <1>t, <2>1
  <2>5. ASSUME NEW i \in 1 .. Len(todo'), todo'[i].op = "callback", i > Len(s)
        PROVE  /\ todo'[i].job \in Signed /\ file'[todo'[i].job] = "good"
               /\ \A k \in 1 .. i - 1 : todo'[k].op \in Quiet
    <3> DEFINE n == i - Len(s) + 1
    <3>1. n \in 2 .. Len(todo) /\ todo'[i] = todo[n] BY <2>3, <2>5
    <3>2. /\ todo[n].job \in Signed /\ file[todo[n].job] = "good"
          /\ \A k \in 1 .. n - 1 : todo[k].op \in Quiet
      BY <2>3, <2>5, <3>1 DEF CallbacksVerified, Quiet
    <3>n. 1 \in 1 .. n - 1 BY <3>1
    <3> HIDE DEF n
    <3>3. Head(todo).op \in Quiet BY <2>4, <3>n, <3>2
    <3>4. ASSUME NEW k \in 1 .. i - 1 PROVE todo'[k].op \in Quiet
      <4>1. CASE k <= Len(s)
        BY <2>1, <2>3, <3>3, <4>1 DEF Quiet
      <4>2. CASE k > Len(s)
        <5>1. k \in 1 .. Len(todo') BY <2>2, <2>3, <1>t, <2>1
        <5>2. k - Len(s) + 1 \in 1 .. n - 1 /\ todo'[k] = todo[k - Len(s) + 1]
          BY <2>3, <4>2, <5>1 DEF n
        <5> QED BY <3>2, <5>2
      <4> QED BY <2>3, <4>1, <4>2
    <3> QED BY <2>1, <3>1, <3>2, <3>3, <3>4
  <2>6. ASSUME NEW i \in 1 .. Len(todo'), todo'[i].op = "callback", i <= Len(s)
        PROVE  /\ todo'[i].job \in Signed /\ file'[todo'[i].job] = "good"
               /\ \A k \in 1 .. i - 1 : todo'[k].op \in Quiet
    <3>1. i \in 1 .. Len(s) /\ \A k \in 1 .. i - 1 : k \in 1 .. Len(s) BY <2>3, <2>6
    <3> QED BY <2>1, <2>3, <2>6, <3>1 DEF Fine
  <2>7. \A i \in 1 .. Len(todo') : i > Len(s) \/ i <= Len(s) BY <2>3
  <2> QED BY <2>5, <2>6, <2>7 DEF CallbacksVerified, Quiet
<1>2. CASE todo' = <<>> BY <1>2 DEF CallbacksVerified
<1>3. CASE UNCHANGED <<todo, file>> BY <1>3 DEF CallbacksVerified
<1>4. CASE Boot BY <1>4, Records DEF Boot, CallbacksVerified, Ops
<1>5. ASSUME NEW j \in Jobs, Notify(j) PROVE CallbacksVerified'
  BY <1>5, Records DEF Notify, CallbacksVerified, Status
<1>6. ASSUME NEW j \in Jobs, Reply(j) PROVE CallbacksVerified'
  BY <1>6, Records DEF Reply, CallbacksVerified, Ops
<1> QED BY <1>1, <1>2, <1>3, <1>4, <1>5, <1>6, OtherSteps

\* todo stays a sequence of steps.
LEMMA TodoStep == TypeOK /\ JobsNamed /\ CallbacksVerified /\ [Next]_vars => todo' \in Seq(Step)
<1> SUFFICES ASSUME TypeOK, JobsNamed, CallbacksVerified, [Next]_vars PROVE todo' \in Seq(Step)
  OBVIOUS
<1>t. todo \in Seq(Step) BY DEF TypeOK, Step
<1>1. CASE Handle
  <2>1. PICK s : todo' = s \o Tail(todo) /\ Fine(s) /\ todo # <<>>
    BY <1>1, HandlerSteps DEF HandlerStep
  <2>2. s \in Seq(Step) BY <2>1 DEF Fine
  <2> QED BY <1>t, <2>1, <2>2, ReplaceHead
<1>2. CASE todo' = <<>> BY <1>2
<1>3. CASE UNCHANGED todo BY <1>t, <1>3
<1>4. CASE Boot BY <1>4, Records DEF Boot, Ops
<1>5. ASSUME NEW j \in Jobs, Notify(j) PROVE todo' \in Seq(Step)
  BY <1>5, Records DEF Notify, Status
<1>6. ASSUME NEW j \in Jobs, Reply(j) PROVE todo' \in Seq(Step)
  BY <1>6, Records DEF Reply, Ops
<1> QED BY <1>1, <1>2, <1>3, <1>4, <1>5, <1>6, OtherSteps

\* The key-value file differs from kv_json_data only inside a write.
Flushed == up /\ disk # kv => Now("flush")
LEMMA FlushStep == TypeOK /\ [Next]_vars => Flushed'
<1> SUFFICES ASSUME TypeOK, [Next]_vars PROVE Flushed'
  OBVIOUS
<1>t. todo \in Seq(Step) /\ Flushed BY DEF TypeOK, Step, Flushed
<1>1. ASSUME NEW new, Writes(new), todo # <<>> PROVE Flushed'
  <2> DEFINE x == Op("flush", NoJob)
  <2>1. x \in Step /\ x.op = "flush" BY Records DEF Ops
  <2>2. todo' = <<x>> \o Tail(todo) BY <1>1 DEF Writes, Instead
  <2> HIDE DEF x
  <2>3. todo' # <<>> /\ Head(todo') = x
    BY <1>t, <1>1, <2>1, <2>2
  <2> QED BY <1>1, <2>1, <2>3 DEF Flushed, Now, Writes
<1>2. CASE PutJob \/ DeleteJob \/ PutTask \/ DeleteTask
  BY <1>1, <1>2 DEF PutJob, DeleteJob, PutTask, DeleteTask, Now
<1>3. CASE Flush BY <1>3 DEF Flush, Flushed
<1>4. CASE DoReport \/ DeleteFile \/ MapRemove \/ ModuleInfo \/ StartDownload \/ Download \/ Receive \/ Callback
  BY <1>t, <1>4 DEF DoReport, DeleteFile, MapRemove, ModuleInfo, StartDownload, Download, Receive, Callback, Flushed, Now
<1>5. CASE Boot BY <1>5 DEF Boot, Flushed
<1>6. CASE Send BY <1>t, <1>6 DEF Send, Flushed, Now
<1>7. CASE Ends BY <1>7 DEF Ends, Flushed
<1>8. ASSUME NEW j \in Jobs, Notify(j) \/ Reply(j) PROVE Flushed'
  BY <1>t, <1>8 DEF Notify, Reply, Flushed, Now
<1>9. CASE UNCHANGED vars BY <1>t, <1>9 DEF vars, Flushed, Now
<1> QED BY <1>2, <1>3, <1>4, <1>5, <1>6, <1>7, <1>8, <1>9 DEF Next, Handle, Crash, Install

\* Every step keeps the types.
LEMMA TypeStep == TypeOK /\ JobsNamed /\ CallbacksVerified /\ [Next]_vars => TypeOK'
<1> SUFFICES ASSUME TypeOK, JobsNamed, CallbacksVerified, [Next]_vars PROVE TypeOK'
  OBVIOUS
<1> DEFINE Rest == /\ up \in BOOLEAN /\ kv \in Kv /\ disk \in Kv
                   /\ version \in {FirstVersion} \cup {VersionOf[j] : j \in Jobs}
                   /\ file \in [Jobs -> {"none", "bad", "good"}]
                   /\ map \subseteq Jobs /\ handed \subseteq Jobs /\ owed \in Jobs \cup {NoJob}
                   /\ queue \in Seq(Message) /\ sent \subseteq Message
                   /\ messages \in 0 .. MaxMessages /\ restarts \in 0 .. MaxRestarts
<1>t. todo' \in Seq(Step) /\ Flushed' BY TodoStep, FlushStep
<1>u. Rest /\ todo \in Seq(Step) BY DEF TypeOK, Step
<1>e. EmptyKv \in Kv BY DEF EmptyKv, Kv
<1>h. ASSUME todo # <<>> PROVE /\ J \in Jobs \cup {NoJob} /\ Head(todo).status \in Status
                               /\ Head(todo).op \notin {"report", "flush", "module_info"} => J \in Jobs
  <2>1. Head(todo) = todo[1] /\ 1 \in 1 .. Len(todo) /\ Head(todo) \in Step BY <1>u, <1>h
  <2> QED BY <2>1 DEF J, Step, JobsNamed
<1>1. CASE DoReport
  <2>1. Msg(J, Head(todo).status) \in Message
    BY <1>1, <1>h DEF DoReport, Now, Msg, Message
  <2> QED BY <1>1, <1>t, <1>u, <2>1 DEF DoReport, TypeOK, Step, Flushed
<1>2. CASE PutJob \/ DeleteJob \/ PutTask \/ DeleteTask
  <2>1. kv' \in Kv
    BY <1>2, <1>h, <1>u DEF PutJob, DeleteJob, PutTask, DeleteTask, Writes, Now, Kv
  <2> QED BY <1>2, <1>e, <1>t, <1>u, <2>1 DEF PutJob, DeleteJob, PutTask, DeleteTask, Writes, TypeOK, Step, Flushed
<1>3. CASE Flush BY <1>3, <1>t, <1>u DEF Flush, TypeOK, Step, Flushed
<1>4. CASE DeleteFile BY <1>4, <1>t, <1>u DEF DeleteFile, TypeOK, Step, Flushed
<1>5. CASE MapRemove BY <1>5, <1>t, <1>u DEF MapRemove, TypeOK, Step, Flushed
<1>6. CASE ModuleInfo
  <2>1. map' \subseteq Jobs BY <1>6, <1>u DEF ModuleInfo, Kv
  <2> QED BY <1>6, <1>t, <1>u, <2>1 DEF ModuleInfo, TypeOK, Step, Flushed
<1>7. CASE StartDownload BY <1>7, <1>t, <1>u DEF StartDownload, TypeOK, Step, Flushed
<1>8. CASE Download BY <1>8, <1>t, <1>u DEF Download, TypeOK, Step, Flushed
<1>9. CASE Receive BY <1>9, <1>t, <1>u DEF Receive, TypeOK, Step, Flushed
<1>10. CASE Callback
  <2>1. J \in Jobs BY <1>10, <1>h DEF Callback, Now
  <2> QED BY <1>10, <1>t, <1>u, <2>1 DEF Callback, TypeOK, Step, Flushed
<1>11. CASE Boot BY <1>11, <1>t, <1>u DEF Boot, TypeOK, Step, Flushed
<1>12. CASE Send
  <2>1. Tail(queue) \in Seq(Message) /\ Head(queue) \in Message BY <1>12, <1>u DEF Send
  <2> QED BY <1>12, <1>t, <1>u, <2>1 DEF Send, TypeOK, Step, Flushed
<1>13. ASSUME Ends PROVE /\ queue' \in Seq(Message) /\ restarts' \in 0 .. MaxRestarts
  BY <1>13, <1>u, OtaAssumption DEF Ends
<1>14. CASE Crash
  BY <1>13, <1>14, <1>e, <1>t, <1>u DEF Crash, Ends, TypeOK, Step, Flushed
<1>15. ASSUME NEW j \in Jobs, Install(j) PROVE TypeOK'
  BY <1>13, <1>15, <1>e, <1>t, <1>u DEF Install, Ends, TypeOK, Step, Flushed
<1>16. ASSUME NEW j \in Jobs, Notify(j) \/ Reply(j) PROVE TypeOK'
  <2>1. messages' \in 0 .. MaxMessages BY <1>16, <1>u, OtaAssumption DEF Notify, Reply
  <2> QED BY <1>16, <1>t, <1>u, <2>1 DEF Notify, Reply, TypeOK, Step, Flushed
<1>17. CASE UNCHANGED vars BY <1>17, <1>t, <1>u DEF vars, TypeOK, Step, Flushed
<1> QED BY <1>1, <1>2, <1>3, <1>4, <1>5, <1>6, <1>7, <1>8, <1>9, <1>10, <1>11, <1>12, <1>14, <1>15, <1>16, <1>17
        DEF Next, Handle

\* The two forms of todo while a success is owed.
LEMMA OwedForms ==
  ASSUME NEW j \in Jobs, NEW q \in {<<Op("module_info", NoJob)>>, Recovered(j) \o <<Report(NoJob, "Version")>>}
  PROVE  /\ q # <<>>
         /\ \/ q = <<Op("module_info", NoJob)>> /\ Head(q).op = "module_info" /\ Tail(q) = <<>>
            \/ Head(q).op = "report" /\ Head(q).job = j /\ Head(q).status = "Success"
<1>1. CASE q = <<Op("module_info", NoJob)>>
  <2>1. Head(q) = Op("module_info", NoJob) /\ Tail(q) = <<>> /\ q # <<>> BY <1>1
  <2> QED BY <1>1, <2>1, Records DEF Ops
<1>2. CASE q = Recovered(j) \o <<Report(NoJob, "Version")>>
  <2>1. Report(NoJob, "Version") \in Step BY Records DEF Status
  <2>2. Recovered(j) \in Seq(Step) /\ Recovered(j) # <<>> /\ Head(Recovered(j)) = Report(j, "Success")
    BY Records DEF Recovered, Ops, Status
  <2>3. q # <<>> /\ Head(q) = Report(j, "Success") BY <1>2, <2>1, <2>2, OneMore
  <2> QED BY <2>3, Records DEF Status
<1> QED BY <1>1, <1>2

\* A success that is owed is not forgotten.
LEMMA OwedStep == TypeOK /\ OwedKept /\ [Next]_vars => OwedKept'
<1> SUFFICES ASSUME TypeOK, OwedKept, [Next]_vars, owed' # NoJob
             PROVE  /\ disk'.job = owed' /\ version' = VersionOf[owed']
                    /\ up' => todo' \in {<<Op("module_info", NoJob)>>, Recovered(owed') \o <<Report(NoJob, "Version")>>}
  BY DEF OwedKept
<1>t. /\ todo \in Seq(Step) /\ kv \in Kv /\ owed \in Jobs \cup {NoJob} /\ up \in BOOLEAN
      /\ up /\ disk # kv => Now("flush")
  BY DEF TypeOK, Step
<1>k. ASSUME owed # NoJob PROVE /\ owed \in Jobs /\ disk.job = owed /\ version = VersionOf[owed]
                                /\ up => todo \in {<<Op("module_info", NoJob)>>, Recovered(owed) \o <<Report(NoJob, "Version")>>}
  BY <1>t, <1>k DEF OwedKept
<1>f. ASSUME owed # NoJob, up
      PROVE  /\ todo # <<>>
             /\ \/ Head(todo).op = "module_info" /\ Tail(todo) = <<>>
                \/ Head(todo).op = "report" /\ Head(todo).job = owed /\ Head(todo).status = "Success"
  <2>1. owed \in Jobs /\ todo \in {<<Op("module_info", NoJob)>>, Recovered(owed) \o <<Report(NoJob, "Version")>>}
    BY <1>k, <1>f
  <2> QED BY <2>1, OwedForms
<1>1. CASE DoReport
  <2>1. up /\ Head(todo).op = "report" /\ owed' = IF Head(todo).status = "Success" /\ owed = J THEN NoJob ELSE owed
    BY <1>1 DEF DoReport, Now
  <2>2. owed # NoJob BY <2>1
  <2>3. Head(todo).op = "report" /\ Head(todo).job = owed /\ Head(todo).status = "Success"
    BY <1>f, <2>1, <2>2
  <2> QED BY <2>1, <2>3 DEF J
<1>2. CASE ModuleInfo
  <2>1. owed' = owed /\ disk' = disk /\ version' = version /\ up /\ Head(todo).op = "module_info" BY <1>2 DEF ModuleInfo, Now
  <2>2. Tail(todo) = <<>> BY <1>f, <2>1
  <2>3. disk = kv BY <1>t, <2>1 DEF Now
  <2>4. kv.job = owed /\ VersionOf[kv.job] = version /\ owed \in Jobs BY <1>k, <2>1, <2>3
  <2>5. todo' = (Recovered(owed) \o <<Report(NoJob, "Version")>>) \o <<>>
    BY <1>2, <2>1, <2>2, <2>4 DEF ModuleInfo, Instead
  <2>6. Recovered(owed) \o <<Report(NoJob, "Version")>> \in Seq(Step)
    BY <2>4, FineRecovered DEF Fine
  <2>7. \A r \in Seq(Step) : r \o <<>> = r OBVIOUS
  <2>8. todo' = Recovered(owed) \o <<Report(NoJob, "Version")>> BY <2>5, <2>6, <2>7
  <2> QED BY <1>k, <2>1, <2>4, <2>8
<1>3. CASE Handle /\ ~DoReport /\ ~ModuleInfo
  <2>1. /\ up /\ owed' = owed /\ todo # <<>> /\ Head(todo).op \notin {"report", "module_info"}
    BY <1>3 DEF Handle, PutJob, DeleteJob, PutTask, DeleteTask, Writes, Flush, DeleteFile, MapRemove,
                StartDownload, Download, Receive, Callback, Now
  <2> QED BY <1>f, <2>1
<1>4. CASE Boot BY <1>4, <1>k DEF Boot
<1>5. CASE Crash BY <1>5, <1>k DEF Crash, Ends
<1>6. ASSUME NEW j \in Jobs, Install(j)
      PROVE  disk'.job = owed' /\ version' = VersionOf[owed'] /\ ~up'
  <2>1. up /\ ~Now("flush") BY <1>6 DEF Install, Ends, Now
  <2>2. disk = kv BY <1>t, <2>1
  <2> QED BY <1>6, <2>2 DEF Install, Ends
<1>7. ASSUME NEW j \in Jobs, Notify(j) \/ Reply(j) PROVE FALSE
  BY <1>f, <1>7 DEF Notify, Reply
<1>8. CASE Send BY <1>8, <1>k DEF Send
<1>9. CASE UNCHANGED vars BY <1>9, <1>k DEF vars
<1> QED BY <1>1, <1>2, <1>3, <1>4, <1>5, <1>6, <1>7, <1>8, <1>9 DEF Next

\* Without a restart, every saved task is deleted by a later step.
LEMMA TasksStep == TypeOK /\ JobsNamed /\ CallbacksVerified /\ TasksDeleted /\ [Next]_vars => TasksDeleted'
<1> SUFFICES ASSUME TypeOK, JobsNamed, CallbacksVerified, TasksDeleted, [Next]_vars, restarts' = 0
             PROVE  TasksDeleted'
  BY DEF TasksDeleted
<1>t. todo \in Seq(Step) /\ up \in BOOLEAN /\ restarts \in Nat /\ kv \in Kv
  BY OtaAssumption DEF TypeOK, Step
<1>1. CASE Handle
  <2>1. PICK s : todo' = s \o Tail(todo) /\ Fine(s) /\ todo # <<>>
    BY <1>1, HandlerSteps DEF HandlerStep
  <2>2. s \in Seq(Step) BY <2>1 DEF Fine
  <2>3. /\ Len(s) \in Nat /\ Len(todo) \in Nat /\ Len(todo) > 0 /\ Len(todo') = Len(s) + Len(todo) - 1
        /\ \A i \in 1 .. Len(s) : todo'[i] = s[i]
        /\ \A i \in 2 .. Len(todo) : todo'[Len(s) + i - 1] = todo[i]
        /\ \A i \in 1 .. Len(todo') : i > Len(s) => i - Len(s) + 1 \in 2 .. Len(todo) /\ todo'[i] = todo[i - Len(s) + 1]
    BY <1>t, <2>1, <2>2, ReplaceHead
  <2>4. restarts = 0 /\ up /\ up'
    BY <1>1 DEF Handle, DoReport, PutJob, DeleteJob, PutTask, DeleteTask, Writes, Flush, DeleteFile, MapRemove,
                ModuleInfo, StartDownload, Download, Receive, Callback, Now
  <2>5. Head(todo) = todo[1] BY <1>t, <2>1
  <2>6. ASSUME NEW j, NEW i \in 2 .. Len(todo), todo[i].op = "delete_task", todo[i].job = j
        PROVE  \E k \in 1 .. Len(todo') : todo'[k].op = "delete_task" /\ todo'[k].job = j
    <3>1. Len(s) + i - 1 \in 1 .. Len(todo') BY <2>3
    <3> QED BY <2>3, <2>6, <3>1
  <2>7. ASSUME NEW j \in kv'.tasks
        PROVE  \E i \in 2 .. Len(todo) : todo[i].op = "delete_task" /\ todo[i].job = j
    <3>1. CASE PutTask /\ j = J
      <4>1. todo[1].op = "put_task" /\ todo[1].job = j BY <2>5, <3>1 DEF PutTask, Now, J
      <4>2. 1 \in 1 .. Len(todo) BY <2>3
      <4>3. \E k \in 1 + 1 .. Len(todo) : todo[k].op = "delete_task" /\ todo[k].job = j
        BY <2>4, <4>1, <4>2 DEF TasksDeleted
      <4> QED BY <4>3
    <3>2. CASE ~(PutTask /\ j = J)
      <4>1. j \in kv.tasks
        BY <1>1, <1>t, <2>7, <3>2 DEF Handle, DoReport, PutJob, DeleteJob, PutTask, DeleteTask, Writes, Flush, DeleteFile,
           MapRemove, ModuleInfo, StartDownload, Download, Receive, Callback, Kv
      <4>2. PICK i \in 1 .. Len(todo) : todo[i].op = "delete_task" /\ todo[i].job = j
        BY <2>4, <4>1 DEF TasksDeleted
      <4>3. ASSUME i = 1 PROVE FALSE
        <5>1. Head(todo).op = "delete_task" /\ J = j BY <2>5, <4>2, <4>3 DEF J
        <5>2. DeleteTask
          BY <1>1, <5>1 DEF Handle, DoReport, PutJob, DeleteJob, PutTask, Flush, DeleteFile,
             MapRemove, ModuleInfo, StartDownload, Download, Receive, Callback, Now
        <5> QED BY <1>t, <2>7, <5>1, <5>2 DEF DeleteTask, Writes, Kv
      <4>4. i \in 2 .. Len(todo) BY <2>3, <4>3
      <4> QED BY <4>2, <4>4
    <3> QED BY <3>1, <3>2
  <2>8. ASSUME NEW i \in 1 .. Len(todo'), todo'[i].op = "put_task"
        PROVE  \E k \in i + 1 .. Len(todo') : todo'[k].op = "delete_task" /\ todo'[k].job = todo'[i].job
    <3>1. CASE i <= Len(s)
      <4>1. i \in 1 .. Len(s) BY <3>1
      <4>2. PICK k \in i + 1 .. Len(s) : s[k].op = "delete_task" /\ s[k].job = s[i].job
        BY <2>1, <2>3, <2>8, <4>1 DEF Fine
      <4>3. k \in 1 .. Len(s) /\ k \in i + 1 .. Len(todo') BY <2>3, <4>1
      <4> QED BY <2>3, <4>1, <4>2, <4>3
    <3>2. CASE i > Len(s)
      <4> DEFINE n == i - Len(s) + 1
      <4>1. n \in 2 .. Len(todo) /\ todo'[i] = todo[n] BY <2>3, <3>2
      <4>2. PICK k \in n + 1 .. Len(todo) : todo[k].op = "delete_task" /\ todo[k].job = todo[n].job
        BY <2>3, <2>4, <2>8, <4>1 DEF TasksDeleted
      <4>3. k \in 2 .. Len(todo) /\ Len(s) + k - 1 \in i + 1 .. Len(todo') BY <2>3, <4>1
      <4> QED BY <2>3, <4>1, <4>2, <4>3
    <3> QED BY <2>3, <3>1, <3>2
  <2> QED BY <2>4, <2>6, <2>7, <2>8 DEF TasksDeleted
<1>2. CASE Crash \/ \E j \in Jobs : Install(j)
  <2>1. restarts' = restarts + 1 BY <1>2 DEF Crash, Install, Ends
  <2> QED BY <1>t, <2>1
<1>3. CASE UNCHANGED <<todo, kv, disk, restarts, up>> BY <1>3 DEF TasksDeleted
<1>4. CASE Boot
  <2>1. kv'.tasks = {} BY <1>4 DEF Boot, TasksDeleted
  <2>2. \A i \in 1 .. Len(todo') : todo'[i].op # "put_task" BY <1>4, Records DEF Boot, Ops
  <2> QED BY <1>4, <2>1, <2>2 DEF Boot, TasksDeleted
<1>5. ASSUME NEW j \in Jobs, Notify(j) \/ Reply(j) PROVE TasksDeleted'
  <2>1. up /\ up' /\ restarts = 0 /\ kv' = kv /\ todo = <<>> BY <1>5 DEF Notify, Reply
  <2>2. kv.tasks = {} BY <2>1 DEF TasksDeleted
  <2>3. \A i \in 1 .. Len(todo') : todo'[i].op # "put_task"
    BY <1>5, Records DEF Notify, Reply, Ops, Status
  <2> QED BY <2>1, <2>2, <2>3 DEF TasksDeleted
<1> QED BY <1>1, <1>2, <1>3, <1>4, <1>5 DEF Next, Send, vars

-----------------------------------------------------------------------------
\* Every step keeps the invariant.
LEMMA Inductive == OtaInv /\ [Next]_vars => OtaInv'
BY TypeStep, NamedStep, VerifiedStep, OwedStep, TasksStep DEF OtaInv

\* The invariant holds throughout.
LEMMA Invariance == Spec => []OtaInv
BY InitInv, Inductive, PTL DEF Spec

\* The application is only given a file that has the md5 of its job, whatever was
\* downloaded, interrupted or announced again before (iot_ota_start_download,
\* on_download_complete).
THEOREM OnlyVerifiedFiles == Spec => []VerifiedHandover
<1>1. OtaInv => VerifiedHandover
  <2> SUFFICES ASSUME OtaInv, Now("callback") PROVE J \in Signed /\ file[J] = "good"
    BY DEF VerifiedHandover
  <2>1. todo \in Seq(Step) /\ todo # <<>> /\ Head(todo).op = "callback"
    BY DEF OtaInv, TypeOK, Step, Now
  <2>2. Head(todo) = todo[1] /\ 1 \in 1 .. Len(todo) BY <2>1
  <2> QED BY <2>1, <2>2 DEF OtaInv, CallbacksVerified, J
<1> QED BY <1>1, Invariance, PTL

\* A device that has rebooted into the version of its saved job keeps the job in the
\* key-value file until it has reported Success, through any crashes
\* (iot_ota_set_device_module_info); and every state is well typed.
THEOREM JobsRemembered == Spec => []JobRemembered
<1>1. OtaInv => JobRemembered BY DEF OtaInv, OwedKept, JobRemembered
<1> QED BY <1>1, Invariance, PTL

\* Until the process is interrupted, no download task stays in the key-value file
\* after its handler (on_download_complete, on_download_error).
THEOREM TasksCleaned == Spec => []TaskKeysCleaned
<1>1. OtaInv => TaskKeysCleaned BY DEF OtaInv, TasksDeleted, TaskKeysCleaned
<1> QED BY <1>1, Invariance, PTL
=============================================================================
