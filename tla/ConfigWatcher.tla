---------------------------- MODULE ConfigWatcher ----------------------------
(***************************************************************************)
(* ConfigWatcher and ConfigReloadService of src/src/config/watcher.rs.     *)
(* The file is written by the world: fs::write truncates the file (an     *)
(* empty file does not parse) and then fills it, and a file can be         *)
(* removed.  Each change queues one notify event.  notify runs the         *)
(* watcher's callback on one thread, one event at a time; reload() runs on *)
(* the callers' tasks.  Both load the file, write the RwLock'd current     *)
(* config and broadcast it, as three steps: the lock is released before   *)
(* the send, and the load happens before the lock is taken.  A             *)
(* ConfigReloadService copies the current config, subscribes, spawns the  *)
(* task that applies events, and returns, dropping its watcher (notify     *)
(* stops, the channel's senders go away).  The broadcast capacity of 100  *)
(* is never reached by the few sends of a model, so no receiver lags.      *)
(***************************************************************************)
EXTENDS Naturals, Sequences

CONSTANTS Configs,      \* the valid configuration files
          Bad,          \* a file that does not parse or does not validate
          Empty,        \* the file between fs::write's truncation and its write
          Absent,       \* no file at the path
          DefaultCfg,   \* Config::default()
          Callers,      \* tasks that call reload()
          MaxFileOps    \* bound on the world's writes and removals

VARIABLES file,     \* what the path holds
          events,   \* notify events not yet handled, oldest first
          writing,  \* the content fs::write is about to put after truncating, or Absent
          fileOps,  \* writes and removals so far
          cur,      \* ConfigWatcher.current_config
          cb,       \* the notify callback: [pc, cfg]
          rl,       \* reload() per caller: [pc, cfg]
          svc,      \* ConfigReloadService: [pc, cfg (its own cell), rx (next event)]
          dropped,  \* the watcher was dropped at the end of start()
          sent      \* configs broadcast while a receiver existed

cwVars == <<file, events, writing, fileOps, cur, cb, rl, svc, dropped, sent>>
worldVars == <<file, events, writing, fileOps>>

Contents == Configs \cup {Bad}

\* ConfigManager::load_from_file: an absent file gives Config::default();
\* a file that does not parse or validate is an error.
LoadFromFile(f) ==
    CASE f \in Configs -> [ok |-> TRUE, cfg |-> f]
      [] f = Absent    -> [ok |-> TRUE, cfg |-> DefaultCfg]
      [] OTHER         -> [ok |-> FALSE]

\* Sending to the broadcast channel: with no receiver the event is dropped.
Broadcast(c) == sent' = IF svc.pc = "running" THEN Append(sent, c) ELSE sent

\* A change the watcher sees queues one event; a dropped watcher sees none.
Notify(e) == events' = IF dropped THEN events ELSE Append(events, e)

-----------------------------------------------------------------------------
(* The world *)

\* fs::write(path, v): opening with truncation (a Create event if the file
\* was absent) ...
WriteBegin(v) ==
    /\ writing = Absent /\ fileOps < MaxFileOps
    /\ file' = Empty
    /\ writing' = v
    /\ fileOps' = fileOps + 1
    /\ Notify(IF file = Absent THEN "create" ELSE "modify")

\* ... then writing the content.
WriteEnd ==
    /\ writing # Absent
    /\ file' = writing
    /\ writing' = Absent
    /\ Notify("modify")
    /\ UNCHANGED fileOps

RemoveFile ==
    /\ writing = Absent /\ file # Absent /\ fileOps < MaxFileOps
    /\ file' = Absent
    /\ fileOps' = fileOps + 1
    /\ Notify("remove")
    /\ UNCHANGED writing

-----------------------------------------------------------------------------
(* The notify callback: handle_file_event *)

\* The next event: a Modify or Create sleeps 100 ms and loads the file; a
\* failed load keeps the current config.  Remove and other events are
\* only logged.
HandleFileEvent ==
    /\ ~dropped /\ cb.pc = "idle" /\ events # <<>>
    /\ events' = Tail(events)
    /\ LET r == LoadFromFile(file)
       IN cb' = IF Head(events) \in {"modify", "create"} /\ r.ok
                  THEN [pc |-> "write", cfg |-> r.cfg] ELSE cb
    /\ UNCHANGED <<file, writing, fileOps, cur, rl, svc, dropped, sent>>

\* block_in_place: the write lock, *current = new config.
CallbackWrite ==
    /\ cb.pc = "write"
    /\ cur' = cb.cfg
    /\ cb' = [cb EXCEPT !.pc = "send"]
    /\ UNCHANGED <<worldVars, rl, svc, dropped, sent>>

\* sender.send(ConfigChangeEvent { config, .. }).
CallbackSend ==
    /\ cb.pc = "send"
    /\ Broadcast(cb.cfg)
    /\ cb' = [pc |-> "idle", cfg |-> cb.cfg]
    /\ UNCHANGED <<worldVars, cur, rl, svc, dropped>>

-----------------------------------------------------------------------------
(* reload() *)

\* load_from_file; an error is returned to the caller.
ReloadLoad(c) ==
    /\ ~dropped /\ rl[c].pc = "idle"
    /\ LET r == LoadFromFile(file)
       IN rl' = [rl EXCEPT ![c] = IF r.ok THEN [pc |-> "write", cfg |-> r.cfg]
                                          ELSE [pc |-> "done", cfg |-> @.cfg]]
    /\ UNCHANGED <<worldVars, cur, cb, svc, dropped, sent>>

\* self.current_config.write().await; *current = new config.
ReloadWrite(c) ==
    /\ rl[c].pc = "write"
    /\ cur' = rl[c].cfg
    /\ rl' = [rl EXCEPT ![c].pc = "send"]
    /\ UNCHANGED <<worldVars, cb, svc, dropped, sent>>

\* self.change_sender.send(event); Ok(()).
ReloadSend(c) ==
    /\ rl[c].pc = "send"
    /\ Broadcast(rl[c].cfg)
    /\ rl' = [rl EXCEPT ![c].pc = "done"]
    /\ UNCHANGED <<worldVars, cur, cb, svc, dropped>>

-----------------------------------------------------------------------------
(* ConfigReloadService::start and its task *)

\* start(self) takes the watcher by value, so no reload() is in progress:
\* it copies get_config() into a cell of its own ...
StartCopy ==
    /\ svc.pc = "none" /\ \A c \in Callers : rl[c].pc \in {"idle", "done"}
    /\ svc' = [svc EXCEPT !.pc = "copied", !.cfg = cur]
    /\ UNCHANGED <<worldVars, cur, cb, rl, dropped, sent>>

\* ... then subscribes (twice: the task's stream and the receiver it
\* returns) and spawns the task ...
StartSubscribe ==
    /\ svc.pc = "copied"
    /\ svc' = [svc EXCEPT !.pc = "running", !.rx = Len(sent) + 1]
    /\ UNCHANGED <<worldVars, cur, cb, rl, dropped, sent>>

\* ... and returns, dropping self and with it the watcher.
StartReturn ==
    /\ svc.pc = "running" /\ ~dropped
    /\ dropped' = TRUE
    /\ UNCHANGED <<worldVars, cur, cb, rl, svc, sent>>

\* The task: the next event's config replaces the service's cell.
ServiceApply ==
    /\ svc.pc = "running" /\ svc.rx <= Len(sent)
    /\ svc' = [svc EXCEPT !.cfg = sent[svc.rx], !.rx = @ + 1]
    /\ UNCHANGED <<worldVars, cur, cb, rl, dropped, sent>>

-----------------------------------------------------------------------------

\* ConfigWatcher::new: the initial load must succeed.
CwInit ==
    /\ file \in Configs \cup {Absent}
    /\ events = <<>>
    /\ writing = Absent
    /\ fileOps = 0
    /\ cur = LoadFromFile(file).cfg
    /\ cb = [pc |-> "idle", cfg |-> cur]
    /\ rl = [c \in Callers |-> [pc |-> "idle", cfg |-> cur]]
    /\ svc = [pc |-> "none", cfg |-> cur, rx |-> 1]
    /\ dropped = FALSE
    /\ sent = <<>>

WorldNext ==
    \/ \E v \in Contents : WriteBegin(v) /\ UNCHANGED <<cur, cb, rl, svc, dropped, sent>>
    \/ WriteEnd /\ UNCHANGED <<cur, cb, rl, svc, dropped, sent>>
    \/ RemoveFile /\ UNCHANGED <<cur, cb, rl, svc, dropped, sent>>

CwNext ==
    \/ WorldNext
    \/ HandleFileEvent \/ CallbackWrite \/ CallbackSend
    \/ \E c \in Callers : ReloadLoad(c) \/ ReloadWrite(c) \/ ReloadSend(c)
    \/ StartCopy \/ StartSubscribe \/ StartReturn \/ ServiceApply

\* notify's thread handles every queued event and a callback runs to its
\* end; a reload() once called is awaited to its end; the spawned task is
\* polled.  Nothing is assumed of the world or of whether anyone calls
\* reload() or starts a service.
CwFairness ==
    /\ WF_cwVars(HandleFileEvent) /\ WF_cwVars(CallbackWrite) /\ WF_cwVars(CallbackSend)
    /\ \A c \in Callers : WF_cwVars(ReloadWrite(c)) /\ WF_cwVars(ReloadSend(c))
    /\ WF_cwVars(StartSubscribe) /\ WF_cwVars(StartReturn) /\ WF_cwVars(ServiceApply)

CwSpec == CwInit /\ [][CwNext]_cwVars /\ CwFairness

-----------------------------------------------------------------------------
(* Properties *)

\* Hot reload converges: while the watcher lives, once the world stops
\* changing a valid file, the current config is the file's (what
\* test_config_hot_reload expects after a change), whoever else called
\* reload() meanwhile.
WatcherConverges ==
    <>[](~dropped /\ file \in Configs => cur = file)
=============================================================================
