---------------------------------- MODULE Log ----------------------------------
(* The log: iot_log.c, and its upload, iot_log_report.c.  Threads print lines;   *)
(* a line goes through pending_log_lines, under logCtx->sync, to the function    *)
(* that saves it, which publishes it under log_handler->lock.  The MQTT service  *)
(* thread prints as well, also while it handles a configuration of the server.   *)
EXTENDS Integers, Sequences, SequencesExt, FiniteSets

CONSTANTS
  LogThreads,    \* threads of the application that print
  MaxLines,      \* bound: lines
  MaxConfigs,    \* bound: configurations of the server
  MaxPrefix      \* MAX_LOG_LINE_PREFIX_SIZE

\* What the theorems assume of them.
LogConstants == "nobody" \notin LogThreads /\ MaxLines \in Nat /\ MaxConfigs \in Nat /\ MaxPrefix \in Nat
ASSUME LogAssumption == LogConstants

VARIABLES
  log,       \* g_logCtx: finished, the save function and pending_log_lines
  handler,   \* log_handler_t: log_report_switch, lowest_level, the mutex
  sync,      \* who has logCtx->sync
  at,        \* per thread: where it is, its line or lines, and what comes after
  nline, nconf,
  published, \* lines published, in that order
  raced      \* were two threads at the list at once?
logVars == <<log, handler, sync, at, nline, nconf, published, raced>>

LogService == "service"
Nobody == "nobody"
AllThreads == LogThreads \cup {LogService}

\* onesdk_log_level_t; _log_string_to_level takes an unknown name for DEBUG.
ERROR == 2
INFO == 4
DEBUG == 5
LevelNames == {"error", "info", "unknown"}
_log_string_to_level(name) == CASE name = "error" -> ERROR [] name = "info" -> INFO [] OTHER -> DEBUG

\* _log_format: what remains of the prefix, of length p, the text and the newline
\* in a buffer for a text of length n.
_log_format(p, n) ==
  LET room == (n + 10 + MaxPrefix) - 1
      cut(k, max) == IF k > max THEN max ELSE k
      prefix == cut(p, room)
      text == cut(n, room - prefix)
  IN  [prefix |-> prefix, text |-> text, newline |-> cut(1, room - prefix - text)]

\* aws_array_list_init_dynamic(&pending_log_lines), in iot_log_init_with_option
LogInit ==
  /\ log = [finished |-> FALSE, save |-> "none", lines |-> <<>>]
  /\ handler = [exists |-> FALSE, on |-> FALSE, lowest |-> DEBUG, owner |-> Nobody]
  /\ sync = Nobody /\ nline = 0 /\ nconf = 0 /\ published = <<>> /\ raced = FALSE
  /\ at = [t \in AllThreads |-> [pc |-> "idle", batch |-> <<>>, then |-> "idle", config |-> <<>>]]

Goes(t, pc) == at' = [at EXCEPT ![t].pc = pc]

-----------------------------------------------------------------------------
\* sdk_log_print: the line is formatted; nothing is printed once finished is set.
Formats(t, level, then) ==
  /\ nline < MaxLines
  /\ IF log.finished
     THEN at' = [at EXCEPT ![t].pc = then] /\ UNCHANGED nline
     ELSE /\ nline' = nline + 1
          /\ at' = [at EXCEPT ![t].pc = "formatted", ![t].then = then,
                              ![t].batch = <<[id |-> nline + 1, level |-> level, by |-> t]>>]

sdk_log_print(t, level) == /\ t # LogService /\ at[t].pc = "idle" /\ Formats(t, level, "idle")
                   /\ UNCHANGED <<log, handler, sync, nconf, published, raced>>

\* _s_background_channel_send
Lock(t) ==
  /\ at[t].pc = "formatted" /\ sync = Nobody
  /\ sync' = t /\ Goes(t, "locked")
  /\ raced' = \E u \in AllThreads \ {t} : at[u].pc = "locked"
  /\ UNCHANGED <<log, handler, nline, nconf, published>>

\* Mutant: the lines stay in pending_log_lines.
WriteLogCopies(t) ==
  /\ at[t].pc = "locked"
  /\ at' = [at EXCEPT ![t].pc = "swapped", ![t].batch = log.lines \o @]
  /\ log' = [log EXCEPT !.lines = @ \o at[t].batch]
  /\ sync' = Nobody
  /\ UNCHANGED <<handler, nline, nconf, published, raced>>
\* The line is pushed, and _write_log takes the whole list and releases the mutex.
WriteLog(t) ==
  /\ at[t].pc = "locked"
  /\ at' = [at EXCEPT ![t].pc = "swapped", ![t].batch = log.lines \o @]
  /\ log' = [log EXCEPT !.lines = <<>>]
  /\ sync' = Nobody
  /\ UNCHANGED <<handler, nline, nconf, published, raced>>

\* s_common_log_report: the lines up to the lowest level, when the switch is on;
\* the publish may be refused.
LinesToReport(batch) ==
  LET kept[i \in 0 .. Len(batch)] ==
        IF i = 0 THEN <<>>
        ELSE IF batch[i].level <= handler.lowest THEN Append(kept[i - 1], batch[i])
        ELSE kept[i - 1]
  IN  IF handler.on THEN kept[Len(batch)] ELSE <<>>
\* on_log_save_fn: none, one of the application, or s_log_report_on_log_save_fn,
\* which waits for the handler's mutex; the lines are destroyed.
Save(t) ==
  /\ at[t].pc = "swapped"
  /\ log.save = "report" => handler.owner = Nobody
  /\ \/ published' = IF log.save = "report" THEN published \o LinesToReport(at[t].batch) ELSE published
     \/ UNCHANGED published
  /\ at' = [at EXCEPT ![t].pc = "saved", ![t].batch = <<>>]
  /\ UNCHANGED <<log, handler, sync, nline, nconf, raced>>

\* The second unlock, of whoever has the mutex by now.
UnlockAgain(t) ==
  /\ at[t].pc = "saved" /\ sync' = Nobody /\ Goes(t, at[t].then)
  /\ UNCHANGED <<log, handler, nline, nconf, published, raced>>

-----------------------------------------------------------------------------
(* s_log_rev_log_report_config, on the service thread.                         *)

ConfigArrives(c) ==
  /\ handler.exists /\ at[LogService].pc = "idle" /\ nconf < MaxConfigs /\ nline < MaxLines
  /\ nconf' = nconf + 1 /\ nline' = nline + 1
  /\ at' = [at EXCEPT ![LogService] = [pc |-> "formatted", then |-> "config", config |-> c,
                                       batch |-> <<[id |-> nline + 1, level |-> DEBUG, by |-> LogService]>>]]
  /\ UNCHANGED <<log, handler, sync, published, raced>>
\* The mutex is taken and the second line printed.
ConfigLocks ==
  /\ at[LogService].pc = "config" /\ handler.owner = Nobody
  /\ handler' = [handler EXCEPT !.owner = LogService]
  /\ Formats(LogService, DEBUG, "apply")
  /\ UNCHANGED <<log, sync, nconf, published, raced>>
ConfigApplied ==
  /\ at[LogService].pc = "apply"
  /\ handler' = [handler EXCEPT !.owner = Nobody, !.on = at[LogService].config[1],
                                !.lowest = _log_string_to_level(at[LogService].config[2])]
  /\ Goes(LogService, "idle")
  /\ UNCHANGED <<log, sync, nline, nconf, published, raced>>

\* The application: aiot_log_init and aiot_log_set_mqtt_handler,
\* iot_log_set_on_log_save_fn, aiot_log_set_report_switch (without the mutex, the
\* level first), iot_log_deinit, when nobody is inside a call.  iot_log_init after
\* it does nothing: g_logCtx is still set, and so is finished.
aiot_log_init ==
  /\ ~handler.exists
  /\ handler' = [handler EXCEPT !.exists = TRUE] /\ log' = [log EXCEPT !.save = "report"]
  /\ UNCHANGED <<sync, at, nline, nconf, published, raced>>
iot_log_set_on_log_save_fn ==
  /\ log.save # "other" /\ log' = [log EXCEPT !.save = "other"]
  /\ UNCHANGED <<handler, sync, at, nline, nconf, published, raced>>
SetLevel(level) ==
  /\ handler.exists /\ handler.lowest # level /\ handler' = [handler EXCEPT !.lowest = level]
  /\ UNCHANGED <<log, sync, at, nline, nconf, published, raced>>
SetSwitch ==
  /\ handler.exists /\ ~handler.on /\ handler' = [handler EXCEPT !.on = TRUE]
  /\ UNCHANGED <<log, sync, at, nline, nconf, published, raced>>
iot_log_deinit ==
  /\ ~log.finished /\ \A t \in LogThreads : at[t].pc = "idle"
  /\ at[LogService].pc \in {"idle", "config"}
  /\ log' = [log EXCEPT !.finished = TRUE, !.lines = <<>>]
  /\ UNCHANGED <<handler, sync, at, nline, nconf, published, raced>>

\* What happens after a race on the list is undefined.
LogNext ==
  /\ ~raced
  /\ \/ \E t \in AllThreads :
          Lock(t) \/ WriteLog(t) \/ Save(t) \/ UnlockAgain(t) \/ \E l \in {ERROR, INFO} : sdk_log_print(t, l)
     \/ \E on \in BOOLEAN, name \in LevelNames : ConfigArrives(<<on, name>>)
     \/ ConfigLocks \/ ConfigApplied
     \/ aiot_log_init \/ iot_log_set_on_log_save_fn \/ SetSwitch \/ (\E l \in {ERROR, DEBUG} : SetLevel(l))
     \/ iot_log_deinit

LogSpec == LogInit /\ [][LogNext]_logVars

-----------------------------------------------------------------------------
(* What must hold.                                                           *)

\* iot_log.c:251 and :276.  Until two threads are at the list at once, a line is
\* published at most once and after the lines its thread printed before it, none
\* waits in pending_log_lines, and the line is whole unless its prefix is longer
\* than the code reckons with.  Threads wait for the handler's mutex for ever only
\* behind a configuration of the server.
LinesReported ==
  LET stuck == {t \in AllThreads : at[t].pc = "swapped" /\ handler.owner = t}
  IN  /\ ~raced => /\ \A i, j \in DOMAIN published :
                        i < j /\ published[i].by = published[j].by => published[i].id < published[j].id
                   /\ log.lines = <<>>
      /\ stuck \subseteq {LogService} /\ (stuck # {} => nconf > 0)
      /\ \A p \in 0 .. MaxPrefix + 8, n \in 0 .. 3 :
           _log_format(p, n) = [prefix |-> p, text |-> n, newline |-> 1]
================================================================================
