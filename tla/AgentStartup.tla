----------------------------- MODULE AgentStartup -----------------------------
(***************************************************************************)
(* A start of the agent: its data directory (DataMigration), runtime       *)
(* Host.Start and Host.Close with their lock regions, and the local web UI *)
(* of shareme-agent.  In the desktop application Shutdown may call Close   *)
(* while Startup is still in Start; in shareme-agent Close comes after     *)
(* Start.                                                                  *)
(***************************************************************************)
EXTENDS DataMigration, Sequences

VARIABLES
    shell,       \* "agent" or "desktop"
    open,        \* what is open: store, listeners, the heartbeat loop
    host,        \* Host: started, the handles it holds in the order Close shuts
                 \* them down, whether runCtx is cancelled
    closer,      \* the call of Close: "idle", "closing", "done"
    cleanup,     \* what a failed Start or Close has taken and closes next, in order
    raced        \* history: Close ran between the lock regions of Start

hostVars == <<shell, open, host, closer, cleanup, raced>>
vars == <<dataVars, hostVars>>

\* What the cancelled context ends, sooner or later.
EndsWithContext == {"accelerated", "discovery", "heartbeat"}
\* The fields Start sets in its second lock region: the peer server stops
\* first, the store is closed last.
Handles == <<"peerServer", "accelerated", "discovery", "store">>
Members(queue) == {queue[i] : i \in DOMAIN queue}

NoHost == [started |-> FALSE, handles |-> << >>, cancelled |-> FALSE]
Off == open' = {} /\ host' = NoHost /\ closer' = "idle" /\ cleanup' = << >> /\ raced' = FALSE

Init ==
    /\ DataInit
    /\ shell \in {"agent", "desktop"} /\ open = {}
    /\ host = NoHost /\ closer = "idle" /\ cleanup = << >> /\ raced = FALSE

---------------------------------------------------------------------------
(* Host.Start.                                                             *)

\* The first lock region.
StartHost ==
    /\ step = "start" /\ Then("open")
    /\ host' = [NoHost EXCEPT !.started = TRUE]
    /\ UNCHANGED <<root, progress, migrated, source, faults, shell, open, closer, cleanup, raced>>

Opens(resources) == open' = open \cup resources

OpenDatabase ==
    /\ step = "open" /\ Then("ensure") /\ OpenStore
    /\ Opens({"store"}) /\ UNCHANGED <<shell, host, closer, cleanup, raced>>

EnsureIdentity == (ReadIdentity \/ WriteIdentity) /\ UNCHANGED hostVars

\* SaveLocalDevice replaces the row of the device.
SaveDevice ==
    /\ step = "save" /\ step' = "listen" /\ used' = root.identity
    /\ UNCHANGED <<files, source, torn, faults, hostVars>>

\* The accelerated port, if it is enabled, discovery, the peer port and the
\* heartbeat.
Listen(from, to, resources) ==
    /\ step = from /\ Then(to) /\ Opens(resources)
    /\ UNCHANGED <<root, progress, migrated, source, faults>>
    /\ UNCHANGED <<shell, host, closer, cleanup, raced>>

OpenPorts ==
    \/ Listen("listen", "discover", {"accelerated"}) \/ Listen("listen", "discover", {})
    \/ Listen("discover", "serve", {"discovery"})
    \/ Listen("serve", "store", {"peerServer", "heartbeat"})

\* Mutant: the branch of the peer port forgets the listener before it.
CleanupOfLeaky(failed) ==
    CASE failed \in {"ensure", "ensureWrite", "save", "listen"} -> <<"store">>
      [] failed = "discover" -> <<"accelerated", "store">>
      [] failed = "serve" -> <<"discovery", "store">>
      [] OTHER -> << >>

\* Mutant: the branch of discovery closes the store before the listener.
CleanupOfStoreFirst(failed) ==
    CASE failed \in {"ensure", "ensureWrite", "save", "listen"} -> <<"store">>
      [] failed = "discover" -> <<"store", "accelerated">>
      [] failed = "serve" -> <<"discovery", "accelerated", "store">>
      [] OTHER -> << >>

\* What the error branch of each step closes, in its order; the listener of
\* the accelerated port only if there is one.
CleanupOf(failed) ==
    CASE failed \in {"ensure", "ensureWrite", "save", "listen"} -> <<"store">>
      [] failed = "discover" -> <<"accelerated", "store">>
      [] failed = "serve" -> <<"discovery", "accelerated", "store">>
      [] OTHER -> << >>

\* An error, a port in use or an invalid identity.
StartFails ==
    /\ \/ step = "ensure" /\ root.identity = "broken" /\ UNCHANGED faults
       \/ step \in {"open", "ensure", "ensureWrite", "save", "listen", "discover", "serve"} /\ Fault
    /\ step' = "failing" /\ torn' = torn \cup HalfWritten
    /\ cleanup' = CleanupOf(step)
    /\ UNCHANGED <<files, source, used, shell, open, host, closer, raced>>

CloseNext ==
    /\ cleanup # << >>
    /\ open' = open \ {Head(cleanup)} /\ cleanup' = Tail(cleanup)
    /\ UNCHANGED <<dataVars, shell, host, closer, raced>>

\* The deferred Close has no handles to take and cancels the context.
DeferredClose ==
    /\ step = "failing" /\ cleanup = << >> /\ Then("failed")
    /\ host' = [NoHost EXCEPT !.cancelled = TRUE]
    /\ UNCHANGED <<root, progress, migrated, source, faults, shell, open, closer, cleanup, raced>>

\* The second lock region, and the return of Start.
StoreHandles ==
    /\ step = "store" /\ step' = IF shell = "agent" THEN "webui" ELSE "running"
    /\ host' = [host EXCEPT !.handles = Handles]
    /\ UNCHANGED <<files, source, used, torn, faults, shell, open, closer, cleanup, raced>>

\* localui.Host.Start.  If its port is in use, run closes the host.
StartLocalUI ==
    /\ step = "webui"
    /\ \/ Then("running") /\ Opens({"webui"}) /\ UNCHANGED faults
       \/ Then("closing") /\ Fault /\ UNCHANGED open
    /\ UNCHANGED <<root, progress, migrated, source, shell, host, closer, cleanup, raced>>

---------------------------------------------------------------------------
(* Host.Close.                                                             *)

Starting == {"open", "ensure", "ensureWrite", "save", "listen", "discover", "serve", "store", "failing"}

MayClose == IF shell = "desktop" THEN host.started ELSE step \in {"running", "closing"}

\* The lock region: the handles and the cancel function are taken.  The web
\* UI was closed before.
TakeHandles ==
    /\ closer = "idle" /\ MayClose
    /\ open' = open \ {"webui"}
    /\ IF host.handles = << >>
       THEN closer' = "done" /\ UNCHANGED cleanup
       ELSE closer' = "closing" /\ cleanup' = host.handles
    /\ host' = [NoHost EXCEPT !.cancelled = TRUE]
    /\ raced' = (step \in Starting)
    /\ UNCHANGED <<dataVars, shell>>

\* What was taken is shut down, and Close returns.
CloseReturns ==
    /\ closer = "closing" /\ cleanup = << >> /\ closer' = "done"
    /\ UNCHANGED <<dataVars, shell, open, host, cleanup, raced>>

ContextEnds ==
    /\ host.cancelled /\ open \cap EndsWithContext # {}
    /\ \E r \in open \cap EndsWithContext : open' = open \ {r}
    /\ UNCHANGED <<dataVars, shell, host, closer, cleanup, raced>>

\* main returns.
Exit ==
    /\ step \in {"running", "closing", "failed"} /\ (closer = "done" \/ step = "failed")
    /\ Then("off") /\ Off
    /\ UNCHANGED <<root, progress, migrated, source, faults, shell>>

---------------------------------------------------------------------------
Next ==
    \/ MigrationStep /\ UNCHANGED hostVars
    \/ StartHost \/ OpenDatabase \/ EnsureIdentity \/ SaveDevice \/ OpenPorts
    \/ StartFails \/ DeferredClose \/ StoreHandles \/ StartLocalUI
    \/ TakeHandles \/ CloseNext \/ CloseReturns \/ ContextEnds \/ Exit
    \/ Crash /\ Off /\ UNCHANGED shell
    \/ \E d \in Dirs : LegacyAppears(d) /\ UNCHANGED hostVars

Spec == Init /\ [][Next]_vars

---------------------------------------------------------------------------
(* Properties.                                                             *)

\* A start that failed, at whatever point, has closed all it opened, even if
\* Close ran in between; a Close that returned after Start leaves nothing but
\* the heartbeat, which the cancelled context ends.  What Start opens although
\* Close ran between its lock regions is still held, for another Close.
NothingLeftOpen ==
    /\ step = "failed" => open = {} /\ host.cancelled
    /\ closer = "done" /\ ~raced => open \subseteq {"heartbeat"} /\ host.cancelled
    /\ raced /\ step = "running" => open \subseteq Members(host.handles) \cup EndsWithContext

\* No listener takes requests or announcements once the store they need is
\* closed: in the error branches, in Close, and when the two overlap.
StoreOutlivesServers == open \cap {"accelerated", "discovery", "peerServer"} # {} => "store" \in open
=============================================================================
