--------------------------------- MODULE Ota ---------------------------------
(***************************************************************************)
(* Firmware updates: src/iot/ota/iot_ota_api.c with the calls of            *)
(* src/onesdk_iot.c around it, the key-value file src/iot/iot_kv.c, and     *)
(* crashes and reboots of the device at any point.                         *)
(*                                                                         *)
(* Everything runs on the thread of the MQTT event loop: a download is made *)
(* inside the callback of the message that announced it, and the            *)
(* application's download callback inside that.  So a handler is the list   *)
(* todo of the elementary steps it still has to take, in the order of the   *)
(* code; a step may put further steps in front.  A write of the key-value   *)
(* file truncates it first, and its content is there after a "flush" step:  *)
(* a crash between the two leaves a file that does not parse, which         *)
(* iot_kv_init reads as empty.                                             *)
(*                                                                         *)
(* One firmware module (onesdk_iot_ota_set_device_module_info takes one).   *)
(* Reports go to iot_mqtt_publish with QoS 1; what MqttClient shows of it   *)
(* is used here: it sends them in order, and a restart loses its lists.    *)
(***************************************************************************)
EXTENDS Naturals, Sequences, SequencesExt

CONSTANTS
  Jobs,         \* OTA jobs: model values
  VersionOf,    \* dest_version of each job
  Signed,       \* the jobs with a non-empty sign
  FirstVersion, \* the version the device is delivered with
  NoJob,
  MaxMessages,  \* bound: messages of the server handled
  MaxRestarts   \* bound: crashes and reboots

ASSUME OtaAssumption ==
  /\ NoJob \notin Jobs /\ Signed \subseteq Jobs
  /\ DOMAIN VersionOf = Jobs
  /\ MaxMessages \in Nat /\ MaxRestarts \in Nat

VARIABLES
  up,        \* the process runs and iot_ota_init has been called
  version,   \* the firmware version the device runs, as the application knows it
  kv,        \* kv_json_data: [job: KEY_SAVE_JOB_INFO, tasks: KEY_SAVE_TASK_INFO]
  disk,      \* what iot_kv_init would read from ./ota.kv
  file,      \* the firmware file of each job
  map,       \* task_hash_map: the jobs that have a task in it
  todo,      \* what the running handler has still to do
  queue,     \* messages the MQTT client has accepted and not sent
  sent,      \* messages the server has received
  handed,    \* jobs whose file the application was given since the start
  owed,      \* the installed job whose success has not been reported yet
  messages, restarts

vars == <<up, version, kv, disk, file, map, todo, queue, sent, handed, owed,
          messages, restarts>>

-----------------------------------------------------------------------------
EmptyKv == [job |-> NoJob, tasks |-> {}]
Kv      == [job : Jobs \cup {NoJob}, tasks : SUBSET Jobs]

\* A message to the server: a progress report, a request for a job's details,
\* or the report of the running version.
Status  == {"Request", "Downloaded", "Failed", "Installed", "Success", "Version"}
Message == [job : Jobs \cup {NoJob}, status : Status]
Msg(j, s) == [job |-> j, status |-> s]

\* An elementary step of a handler.
Op(o, j)     == [op |-> o, job |-> j, status |-> "Version"]
Report(j, s) == [op |-> "report", job |-> j, status |-> s]
Ops == {"report", "put_job", "delete_job", "put_task", "delete_task", "flush",
        "start_download", "download", "receive", "delete_file", "map_remove",
        "callback", "module_info"}

Init ==
  /\ up = FALSE /\ version = FirstVersion
  /\ kv = EmptyKv /\ disk = EmptyKv
  /\ file = [j \in Jobs |-> "none"]
  /\ map = {} /\ todo = <<>> /\ queue = <<>> /\ sent = {}
  /\ handed = {} /\ owed = NoJob
  /\ messages = 0 /\ restarts = 0

Now(o)  == up /\ todo # <<>> /\ Head(todo).op = o
J       == Head(todo).job
Instead(steps) == todo' = steps \o Tail(todo)
NextStep == Instead(<<>>)

-----------------------------------------------------------------------------
(* Start of the process, and its end.                                      *)

\* onesdk_iot_enable_ota: iot_ota_init, iot_kv_init, iot_ota_set_mqtt_handler;
\* then onesdk_iot_ota_set_device_module_info.
Boot ==
  /\ ~up
  /\ up' = TRUE
  /\ kv' = disk
  /\ todo' = <<Op("module_info", NoJob)>>
  /\ UNCHANGED <<version, disk, file, map, queue, sent, handed, owed, messages, restarts>>

\* What a process that ends leaves behind.
Ends ==
  /\ up /\ restarts < MaxRestarts
  /\ restarts' = restarts + 1
  /\ up' = FALSE /\ kv' = EmptyKv /\ map' = {} /\ todo' = <<>> /\ queue' = <<>>
  /\ handed' = {}
  /\ UNCHANGED <<disk, file, sent, messages>>

Crash == Ends /\ UNCHANGED <<version, owed>>

\* The application installs a file it was given and reboots into it, in its
\* download callback or later.  The success of a job is owed if it is still
\* the one that is saved.
Install(j) ==
  /\ \/ Now("callback") /\ j = J
     \/ up /\ todo = <<>> /\ j \in handed
  /\ Ends
  /\ version' = VersionOf[j]
  /\ owed' = IF kv.job = j THEN j ELSE NoJob

-----------------------------------------------------------------------------
(* Steps every handler uses.                                               *)

\* Mutant: a success, which has no result_desc, is not published.
DoReportDescribed ==
  /\ Now("report")
  /\ queue' = IF Head(todo).status = "Success" THEN queue
              ELSE Append(queue, Msg(J, Head(todo).status))
  /\ owed' = IF Head(todo).status = "Success" /\ owed = J THEN NoJob ELSE owed
  /\ NextStep
  /\ UNCHANGED <<up, version, kv, disk, file, map, sent, handed, messages, restarts>>

\* iot_ota_report_progress, iot_ota_report_version, iot_ota_request_ota_job_info
DoReport ==
  /\ Now("report")
  /\ queue' = Append(queue, Msg(J, Head(todo).status))
  /\ owed' = IF Head(todo).status = "Success" /\ owed = J THEN NoJob ELSE owed
  /\ NextStep
  /\ UNCHANGED <<up, version, kv, disk, file, map, sent, handed, messages, restarts>>

\* _iot_write_file after a change of kv_json_data: fopen with "wb" ...
Writes(new) ==
  /\ kv' = new /\ disk' = EmptyKv
  /\ Instead(<<Op("flush", NoJob)>>)
  /\ UNCHANGED <<up, version, file, map, queue, sent, handed, owed, messages, restarts>>

\* iot_add_kv_string and iot_remove_key_str of the two keys.
PutJob     == Now("put_job")     /\ Writes([kv EXCEPT !.job = J])
DeleteJob  == Now("delete_job")  /\ Writes([kv EXCEPT !.job = NoJob])
PutTask    == Now("put_task")    /\ Writes([kv EXCEPT !.tasks = @ \cup {J}])
DeleteTask == Now("delete_task") /\ Writes([kv EXCEPT !.tasks = @ \ {J}])

\* ... and fwrite, fflush, fclose.
Flush ==
  /\ Now("flush")
  /\ disk' = kv
  /\ NextStep
  /\ UNCHANGED <<up, version, kv, file, map, queue, sent, handed, owed, messages, restarts>>

DeleteFile ==
  /\ Now("delete_file")
  /\ file' = [file EXCEPT ![J] = "none"]
  /\ NextStep
  /\ UNCHANGED <<up, version, kv, disk, map, queue, sent, handed, owed, messages, restarts>>

MapRemove ==
  /\ Now("map_remove")
  /\ map' = map \ {J}
  /\ NextStep
  /\ UNCHANGED <<up, version, kv, disk, file, queue, sent, handed, owed, messages, restarts>>

-----------------------------------------------------------------------------
(* The handlers.                                                           *)

\* Mutant: the keys are removed before the report.
RecoveredRemovesFirst(j) ==
  <<Op("delete_job", j), Op("delete_task", j), Report(j, "Success")>>
\* The saved job has become the running version.
Recovered(j) ==
  <<Report(j, "Success"), Op("delete_job", j), Op("delete_task", j)>>

\* iot_ota_set_device_module_info
ModuleInfo ==
  /\ Now("module_info")
  /\ LET j == kv.job
         done == j # NoJob /\ VersionOf[j] = version
     IN /\ map' = IF j \in kv.tasks /\ ~done THEN map \cup {j} ELSE map
        /\ Instead((IF done THEN Recovered(j) ELSE <<>>) \o <<Report(NoJob, "Version")>>)
  /\ UNCHANGED <<up, version, kv, disk, file, queue, sent, handed, owed, messages, restarts>>

\* _ota_rev_ota_notify_info of an Upgrade of this module.
Notify(j) ==
  /\ up /\ todo = <<>> /\ messages < MaxMessages
  /\ messages' = messages + 1
  /\ todo' = <<Report(j, "Request")>>
  /\ UNCHANGED <<up, version, kv, disk, file, map, queue, sent, handed, owed, restarts>>

\* _ota_rev_ota_upgrade_post_reply, with _ota_get_job_info_cb; the reply to a
\* request, perhaps delivered again.
Reply(j) ==
  /\ up /\ todo = <<>> /\ messages < MaxMessages
  /\ Msg(j, "Request") \in sent
  /\ messages' = messages + 1
  /\ todo' = <<Op("put_job", j), Op("start_download", j)>>
  /\ UNCHANGED <<up, version, kv, disk, file, map, queue, sent, handed, owed, restarts>>

\* Mutant: a saved task is taken for a finished download.
ReuseUnchecked == J \in map
\* The file of a task that was saved before a restart has the md5 of the job.
ReuseFile == J \in map /\ J \in Signed /\ file[J] = "good"

\* iot_ota_start_download.  The task of the map refers to a job_info that
\* iot_ota_set_device_module_info has released: what is read as its sign may
\* still be the sign, or not (a download), or crash (Crash).
StartDownload ==
  /\ Now("start_download")
  /\ \/ ReuseFile /\ Instead(<<Op("callback", J)>>)
     \/ Instead(<<Op("download", J)>>)
  /\ UNCHANGED <<up, version, kv, disk, file, map, queue, sent, handed, owed, messages, restarts>>

\* on_download_error, and the end of on_download_complete
Dropped(j) == <<Op("delete_task", j), Op("map_remove", j)>>
DownloadError(j) == <<Op("delete_file", j), Report(j, "Failed")>> \o Dropped(j)

\* Mutant: the task is not deleted.
DownloadCompleteKeepsTask(j, content) ==
  (IF j \notin Signed THEN <<>>
   ELSE IF content = "good"
        THEN <<Report(j, "Downloaded"), Op("put_task", j), Op("callback", j)>>
        ELSE <<Op("delete_file", j), Report(j, "Failed")>>)
  \o <<Op("map_remove", j)>>
\* on_download_complete: a job without a sign is neither reported nor handed on.
DownloadComplete(j, content) ==
  (IF j \notin Signed THEN <<>>
   ELSE IF content = "good"
        THEN <<Report(j, "Downloaded"), Op("put_task", j), Op("callback", j)>>
        ELSE <<Op("delete_file", j), Report(j, "Failed")>>)
  \o Dropped(j)

\* http_request_async fails without a callback; or the connection fails; or the
\* body is empty, and an older file is checked (without one, fopen returns NULL:
\* Crash); or the first data opens the file with "wb+".  The percentage divides
\* by download_file_size, which is never set: where that traps, it is a Crash.
Download ==
  /\ Now("download")
  /\ \/ NextStep /\ UNCHANGED file
     \/ Instead(DownloadError(J)) /\ UNCHANGED file
     \/ /\ file[J] # "none" \/ J \notin Signed
        /\ Instead(DownloadComplete(J, file[J])) /\ UNCHANGED file
     \/ Instead(<<Op("receive", J)>>) /\ file' = [file EXCEPT ![J] = "bad"]
  /\ UNCHANGED <<up, version, kv, disk, map, queue, sent, handed, owed, messages, restarts>>

\* http_wait_complete until COMPLETED, an error answer, or a close before the
\* end, which calls none of the callbacks.
Receive ==
  /\ Now("receive")
  /\ \/ \E content \in {"good", "bad"} :
          file' = [file EXCEPT ![J] = content] /\ Instead(DownloadComplete(J, content))
     \/ Instead(DownloadError(J)) /\ UNCHANGED file
     \/ NextStep /\ UNCHANGED file
  /\ UNCHANGED <<up, version, kv, disk, map, queue, sent, handed, owed, messages, restarts>>

\* The application's download callback, when it does not reboot: it keeps the
\* file; or installs it in place and says so, as the example of docs/apidocs.md
\* does; or reports that it could not.
Callback ==
  /\ Now("callback")
  /\ handed' = handed \cup {J}
  /\ \/ NextStep /\ UNCHANGED version
     \/ /\ version' = VersionOf[J]
        /\ Instead(<<Op("module_info", NoJob), Report(J, "Installed")>>)
     \/ Instead(<<Report(J, "Failed")>>) /\ UNCHANGED version
  /\ UNCHANGED <<up, kv, disk, file, map, queue, sent, owed, messages, restarts>>

\* The MQTT client sends what it has accepted, in order.
Send ==
  /\ up /\ queue # <<>>
  /\ queue' = Tail(queue)
  /\ sent' = sent \cup {Head(queue)}
  /\ UNCHANGED <<up, version, kv, disk, file, map, todo, handed, owed, messages, restarts>>

-----------------------------------------------------------------------------
Handle ==
  \/ DoReport \/ PutJob \/ DeleteJob \/ PutTask \/ DeleteTask \/ Flush \/ DeleteFile
  \/ MapRemove \/ ModuleInfo \/ StartDownload \/ Download \/ Receive \/ Callback

Next ==
  \/ Boot \/ Crash \/ (\E j \in Jobs : Install(j) \/ Notify(j) \/ Reply(j))
  \/ Handle \/ Send

Spec == Init /\ [][Next]_vars

\* The device is started again after a crash, a handler runs to its end, and
\* the MQTT client sends what it holds (MqttClient, PendingEventuallySent).
Fairness == WF_vars(Boot) /\ WF_vars(Handle) /\ WF_vars(Send)
FairSpec == Spec /\ Fairness

-----------------------------------------------------------------------------
(* What must hold.                                                         *)

\* The state has its types, and the file is kv_json_data, except inside a write.
TypeOK ==
  /\ up \in BOOLEAN /\ kv \in Kv /\ disk \in Kv
  /\ version \in {FirstVersion} \cup {VersionOf[j] : j \in Jobs}
  /\ file \in [Jobs -> {"none", "bad", "good"}]
  /\ map \subseteq Jobs /\ handed \subseteq Jobs /\ owed \in Jobs \cup {NoJob}
  /\ queue \in Seq(Message) /\ sent \subseteq Message
  /\ todo \in Seq([op : Ops, job : Jobs \cup {NoJob}, status : Status])
  /\ messages \in 0 .. MaxMessages /\ restarts \in 0 .. MaxRestarts
  /\ up /\ disk # kv => Now("flush")

\* The application is only given a file with the md5 of its job, also when the
\* download was finished before a restart and the file was overwritten since.
VerifiedHandover == Now("callback") => J \in Signed /\ file[J] = "good"

\* A device that rebooted into the version of the saved job still has the job
\* saved, until it has reported Success: whatever crashes in between.  (The
\* state keeps its types, and the file lags behind only inside a write.)
JobRemembered ==
  /\ TypeOK
  /\ owed # NoJob => disk.job = owed /\ version = VersionOf[owed]

\* As long as the process has not been interrupted, no task stays saved after
\* its download: iot_ota_save_job_task_info is undone on every path.
TaskKeysCleaned == restarts = 0 /\ todo = <<>> => kv.tasks = {}

\* The success of an installed job reaches the server, unless the device
\* restarts again before.
SuccessReported ==
  \A j \in Jobs :
    owed = j /\ restarts = MaxRestarts ~> Msg(j, "Success") \in sent
=============================================================================
