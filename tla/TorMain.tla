------------------------------- MODULE TorMain -------------------------------
(***************************************************************************)
(* The life of Tor processes that share a data directory                   *)
(* (app/startup/main.c): start-up, the lock file, signals and reloading,   *)
(* shutdown.  The operating system keeps the lock and drops it when its    *)
(* process dies.  A process can call tor_run_main again after it returned; *)
(* the static variables keep their values.                                 *)
(***************************************************************************)
EXTENDS Naturals, FiniteSets

CONSTANTS Procs, None

ASSUME ProcsAssumption == None \notin Procs

VARIABLES
    pc,          \* where tor_run_main is
    runs,        \* the command is CMD_RUN_TOR
    lockOwner,   \* the process that has the lock of the data directory
    lockfile,    \* the static variable lockfile is not NULL
    server,      \* server_mode(get_options())
    allowBroken, \* ServerDNSAllowBrokenConfig
    dnsFailed,   \* dns_init has failed
    pending,     \* signals caught or activated, not yet processed
    slow,        \* hibernate_begin_shutdown was called
    exitCode,    \* the code the event loop was told to exit with
    told         \* the last state reported to the service manager

vars == <<pc, runs, lockOwner, lockfile, server, allowBroken, dnsFailed, pending,
          slow, exitCode, told>>

\* The signals that end or reload the process; the others only call out.
Signals == {"TERM", "INT", "HUP", "DORMANT"}

Init ==
    /\ pc = [p \in Procs |-> "off"] /\ runs = [p \in Procs |-> FALSE]
    /\ lockOwner = None /\ lockfile = [p \in Procs |-> FALSE]
    /\ server = [p \in Procs |-> FALSE]
    /\ allowBroken = [p \in Procs |-> FALSE]
    /\ dnsFailed = [p \in Procs |-> FALSE]
    /\ pending = [p \in Procs |-> {}]
    /\ slow = [p \in Procs |-> FALSE]
    /\ exitCode = [p \in Procs |-> None]
    /\ told = [p \in Procs |-> "nothing"]

ReleaseLockfile(p) ==
    /\ lockfile' = [lockfile EXCEPT ![p] = FALSE]
    /\ lockOwner' = IF lockfile[p] THEN None ELSE lockOwner

\* tor_cleanup and tor_free_all, of another file, reset everything and call
\* release_lockfile, which this one only offers.
TorFreeAll(p) ==
    /\ ReleaseLockfile(p)
    /\ pending' = [pending EXCEPT ![p] = {}]
    /\ slow' = [slow EXCEPT ![p] = FALSE]
    /\ exitCode' = [exitCode EXCEPT ![p] = None]
    /\ dnsFailed' = [dnsFailed EXCEPT ![p] = FALSE]
    /\ told' = [told EXCEPT ![p] = "nothing"]

\* The ways out of tor_run_main once tor_init was called: where it fails, where
\* the sandbox does, and at the end of the switch over the commands.
Leave(p) == TorFreeAll(p) /\ pc' = [pc EXCEPT ![p] = "off"]

\* tor_init reads the configuration: it is bad or asks for nothing more, or
\* gives a command; only a process that is to run takes the lock.
TorInit(p) ==
    /\ pc[p] = "off"
    /\ \E run, srv, allow \in BOOLEAN :
          /\ runs' = [runs EXCEPT ![p] = run]
          /\ server' = [server EXCEPT ![p] = srv]
          /\ allowBroken' = [allowBroken EXCEPT ![p] = allow]
          /\ pc' = [pc EXCEPT ![p] = IF run THEN "locking" ELSE "command"]
    /\ UNCHANGED <<lockOwner, lockfile, dnsFailed, pending, slow, exitCode, told>>

\* try_locking; retry is the value of err_if_locked.  A lock file that cannot be
\* opened or locked for another reason than another process's lock is not tried
\* again, and tor_init fails.
TryLocking(p, retry) ==
    \/ /\ lockfile[p] \/ lockOwner = None
       /\ pc' = [pc EXCEPT ![p] = "sandbox"]
       /\ lockfile' = [lockfile EXCEPT ![p] = TRUE]
       /\ lockOwner' = p
       /\ UNCHANGED <<pending, slow, exitCode, dnsFailed, told>>
    \/ /\ ~lockfile[p] /\ lockOwner # None /\ retry
       /\ pc' = [pc EXCEPT ![p] = "waiting"]
       /\ UNCHANGED <<lockfile, lockOwner, pending, slow, exitCode, dnsFailed, told>>
    \/ /\ ~lockfile[p]
       /\ Leave(p)

Lock(p) ==
    /\ pc[p] = "locking"
    /\ TryLocking(p, TRUE)
    /\ UNCHANGED <<runs, server, allowBroken>>

\* Five seconds later.
LockAgain(p) ==
    /\ pc[p] = "waiting"
    /\ TryLocking(p, FALSE)
    /\ UNCHANGED <<runs, server, allowBroken>>

\* Mutant: tor_run_main returns without tor_free_all when the sandbox fails.
SandboxUncleaned(p) ==
    /\ pc[p] = "sandbox"
    /\ \E next \in {"starting", "off"} : pc' = [pc EXCEPT ![p] = next]
    /\ UNCHANGED <<lockfile, lockOwner, pending, slow, exitCode, dnsFailed, told>>
    /\ UNCHANGED <<runs, server, allowBroken>>

\* The rest of tor_init, and sandbox_init_filter and sandbox_init if the
\* sandbox is wanted: a failure ends the process.
Sandbox(p) ==
    /\ pc[p] = "sandbox"
    /\ \/ /\ pc' = [pc EXCEPT ![p] = "starting"]
          /\ UNCHANGED <<lockfile, lockOwner, pending, slow, exitCode, dnsFailed, told>>
       \/ Leave(p)
    /\ UNCHANGED <<runs, server, allowBroken>>

\* A command other than CMD_RUN_TOR: keys, fingerprints, the configuration.
Command(p) ==
    /\ pc[p] = "command"
    /\ Leave(p)
    /\ UNCHANGED <<runs, server, allowBroken>>

\* run_tor_main_loop before the loop.  Keys, journals, the cached consensus
\* and router list, the workers or the shared random state can fail it; the
\* result of dns_init only decides what is logged.
RunTorMainLoop(p) ==
    /\ pc[p] = "starting"
    /\ \/ /\ pc' = [pc EXCEPT ![p] = "loop"]
          /\ told' = [told EXCEPT ![p] = "READY"]
          /\ \E failed \in BOOLEAN : dnsFailed' = [dnsFailed EXCEPT ![p] = failed]
          /\ UNCHANGED <<lockfile, lockOwner, pending, slow, exitCode>>
       \/ Leave(p)
    /\ UNCHANGED <<runs, server, allowBroken>>

\* A signal is caught once handle_signals has run; activate_signal does the
\* same for the controller.
Raise(p, sig) ==
    /\ pc[p] = "loop"
    /\ pending' = [pending EXCEPT ![p] = @ \cup {sig}]
    /\ UNCHANGED <<pc, runs, lockOwner, lockfile, server, allowBroken, dnsFailed,
                   slow, exitCode, told>>

\* tor_shutdown_event_loop_and_exit: the first call decides.
ShutdownEventLoop(p, code) ==
    exitCode' = [exitCode EXCEPT ![p] = IF @ = None THEN code ELSE @]

\* Mutant: every TERM of a relay is a slow shutdown, without a deadline.
ProcessTermIgnored(p) ==
    UNCHANGED <<exitCode, slow, told, server, allowBroken>>

ProcessTerm(p) ==
    /\ ShutdownEventLoop(p, 0)
    /\ UNCHANGED <<slow, told, server, allowBroken>>

\* A client exits at once, a relay stops accepting connections first.
ProcessInt(p) ==
    /\ IF server[p]
       THEN /\ slow' = [slow EXCEPT ![p] = TRUE]
            /\ told' = [told EXCEPT ![p] = "STOPPING"]
            /\ UNCHANGED exitCode
       ELSE /\ ShutdownEventLoop(p, 0)
            /\ UNCHANGED <<slow, told>>
    /\ UNCHANGED <<server, allowBroken>>

\* Mutant: a reload that failed is taken back and forgotten.
ProcessHupSilent(p) ==
    /\ told' = [told EXCEPT ![p] = "RELOADING"]
    /\ UNCHANGED <<exitCode, slow, server, allowBroken>>

\* do_hup: the new configuration is used from then on, or cannot be read.
ProcessHup(p) ==
    /\ \/ /\ told' = [told EXCEPT ![p] = "RELOADING"]
          /\ ShutdownEventLoop(p, 1)
          /\ UNCHANGED <<server, allowBroken>>
       \/ /\ told' = [told EXCEPT ![p] = "READY"]
          /\ \E srv, allow \in BOOLEAN :
                /\ server' = [server EXCEPT ![p] = srv]
                /\ allowBroken' = [allowBroken EXCEPT ![p] = allow]
          /\ UNCHANGED exitCode
    /\ UNCHANGED slow

\* process_signal, from the event loop.
ProcessSignal(p, sig) ==
    /\ pc[p] = "loop" /\ sig \in pending[p]
    /\ pending' = [pending EXCEPT ![p] = @ \ {sig}]
    /\ \/ sig = "TERM" /\ ProcessTerm(p)
       \/ sig = "INT" /\ ProcessInt(p)
       \/ sig = "HUP" /\ ProcessHup(p)
       \/ sig = "DORMANT" /\ UNCHANGED <<exitCode, slow, told, server, allowBroken>>
    /\ UNCHANGED <<pc, runs, lockOwner, lockfile, dnsFailed>>

\* The slow shutdown is over.
HibernateEnds(p) ==
    /\ pc[p] = "loop" /\ slow[p]
    /\ ShutdownEventLoop(p, 0)
    /\ slow' = [slow EXCEPT ![p] = FALSE]
    /\ UNCHANGED <<pc, runs, lockOwner, lockfile, server, allowBroken, dnsFailed,
                   pending, told>>

\* The loop ends; tor_cleanup.
LeaveLoop(p) ==
    /\ pc[p] = "loop" /\ exitCode[p] # None
    /\ Leave(p)
    /\ UNCHANGED <<runs, server, allowBroken>>

\* The process is killed: nothing is cleaned up, its memory is gone, and the
\* system drops the lock.
Killed(p) ==
    /\ pc[p] # "off"
    /\ pc' = [pc EXCEPT ![p] = "off"]
    /\ lockOwner' = IF lockOwner = p THEN None ELSE lockOwner
    /\ lockfile' = [lockfile EXCEPT ![p] = FALSE]
    /\ pending' = [pending EXCEPT ![p] = {}]
    /\ slow' = [slow EXCEPT ![p] = FALSE]
    /\ exitCode' = [exitCode EXCEPT ![p] = None]
    /\ dnsFailed' = [dnsFailed EXCEPT ![p] = FALSE]
    /\ told' = [told EXCEPT ![p] = "nothing"]
    /\ UNCHANGED <<runs, server, allowBroken>>

Process(p) ==
    \/ Lock(p) \/ LockAgain(p) \/ Sandbox(p) \/ Command(p) \/ RunTorMainLoop(p)
    \/ HibernateEnds(p) \/ LeaveLoop(p)

Next ==
    \E p \in Procs :
        \/ TorInit(p) \/ Process(p) \/ Killed(p)
        \/ \E sig \in Signals : Raise(p, sig) \/ ProcessSignal(p, sig)

\* A process keeps running, and its event loop gets to every signal.
Fairness ==
    \A p \in Procs :
        /\ WF_vars(Process(p))
        /\ \A sig \in Signals : WF_vars(ProcessSignal(p, sig))
        /\ WF_vars(LeaveLoop(p))

Spec == Init /\ [][Next]_vars /\ Fairness

-----------------------------------------------------------------------------
(* Properties. *)

TypeOK ==
    /\ pc \in [Procs -> {"off", "locking", "waiting", "sandbox", "command",
                         "starting", "loop"}]
    /\ runs \in [Procs -> BOOLEAN] /\ lockOwner \in Procs \cup {None}
    /\ lockfile \in [Procs -> BOOLEAN] /\ server \in [Procs -> BOOLEAN]
    /\ allowBroken \in [Procs -> BOOLEAN] /\ dnsFailed \in [Procs -> BOOLEAN]
    /\ pending \in [Procs -> SUBSET Signals] /\ slow \in [Procs -> BOOLEAN]
    /\ exitCode \in [Procs -> {0, 1, None}]
    /\ told \in [Procs -> {"nothing", "READY", "RELOADING", "STOPPING"}]

\* At most one process at a time works on the data directory: from try_locking
\* to the end of tor_run_main, through any number of reloads, it has the lock,
\* and have_lockfile tells the truth.  No way out of tor_run_main, an error
\* return included, leaves the data directory locked.
OneTorAtATime ==
    \A p \in Procs :
        /\ lockfile[p] <=> lockOwner = p
        /\ lockfile[p] <=> pc[p] \in {"sandbox", "starting", "loop"}

\* The lock is exclusive, and the variables keep their types.
LockInv == TypeOK /\ OneTorAtATime

\* A relay or a client that is told to terminate does, whatever other signals
\* it gets, reloads and a slow shutdown in progress included.
TermTerminates == \A p \in Procs : "TERM" \in pending[p] ~> pc[p] = "off"

\* The service manager is not left waiting for the end of a reload: it is told
\* that the process is ready again, or the process exits.
ReloadReported ==
    \A p \in Procs : told[p] = "RELOADING" ~> told[p] \in {"READY", "nothing"}

\* What line 988 of main.c logs: when dns_init fails and the option to carry
\* on is not set, the process is "exiting" and does not get to the main loop.
DnsFailureExits ==
    [][\A p \in Procs : pc'[p] = "loop" /\ dnsFailed'[p] => allowBroken'[p] \/ pc[p] = "loop"]_vars
=============================================================================
