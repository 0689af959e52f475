---------------------------- MODULE CartConnection ----------------------------
(***************************************************************************)
(* The connection of the cart service to Valkey: EnsureRedisConnected and  *)
(* the calls that need it (ValkeyCartStore.cs).  Calls run in parallel;    *)
(* the flag _isRedisConnectionOpened is read without and with the lock,    *)
(* and set by events a multiplexer raises on threads of its own.  A        *)
(* multiplexer is never disposed: one that was replaced goes on to connect *)
(* again by itself, and to raise its events.                               *)
(***************************************************************************)
EXTENDS Integers

CONSTANTS
  Threads,       \* the threads that serve calls
  MaxFailures,   \* bound: failures of connections that were made
  MaxMisses,     \* bound: attempts to connect that fail
  NoThread

ASSUME ConnectionBoundsAssumption == MaxFailures \in Nat /\ MaxMisses \in Nat
ASSUME NoThreadAssumption == NoThread \notin Threads

VARIABLES
  redis,      \* _redis: the number of a multiplexer, 0 is null
  opened,     \* _isRedisConnectionOpened
  locker,     \* who holds _locker
  thread,     \* of each thread, where its call stands
  created,    \* multiplexers created so far
  connected,  \* those that are connected
  heard,      \* those whose events are subscribed to
  raised,     \* events on their way: of a multiplexer, restored or failed
  failures,   \* failures so far
  misses,     \* history: attempts to connect that failed
  lost        \* history: failures the service heard of

connVars ==
  <<redis, opened, locker, thread, created, connected, heard, raised, failures, misses, lost>>

\* No attempt is one too many for this, see OneConnectionPerLoss.
Multiplexers == 1..(1 + MaxFailures + MaxMisses)

ConnInit ==
  /\ redis = 0
  /\ opened = FALSE
  /\ locker = NoThread
  /\ thread = [t \in Threads |-> "idle"]
  /\ created = 0
  /\ connected = {}
  /\ heard = {}
  /\ raised = {}
  /\ failures = 0
  /\ misses = 0
  /\ lost = 0

Stands(t, step) == thread[t] = step
GoTo(t, step) == thread' = [thread EXCEPT ![t] = step]

-----------------------------------------------------------------------------
(* EnsureRedisConnected. *)

\* if (_isRedisConnectionOpened), at the start of a call
CallBegins(t) ==
  /\ thread[t] \in {"idle", "failed"}
  /\ GoTo(t, IF opened THEN "use" ELSE "wait")
  /\ UNCHANGED <<redis, opened, locker, created, connected, heard, raised, failures, misses, lost>>

\* Faulty: the flag is not looked at again.
LockAlone(t) ==
  /\ Stands(t, "wait")
  /\ locker = NoThread
  /\ locker' = t
  /\ GoTo(t, "connect")
  /\ UNCHANGED <<redis, opened, created, connected, heard, raised, failures, misses, lost>>

\* lock (_locker) { if (_isRedisConnectionOpened) return;
Lock(t) ==
  /\ Stands(t, "wait")
  /\ locker = NoThread
  /\ IF opened THEN GoTo(t, "use") /\ UNCHANGED locker
               ELSE GoTo(t, "connect") /\ locker' = t
  /\ UNCHANGED <<redis, opened, created, connected, heard, raised, failures, misses, lost>>

\* Faulty: the lock is not released by an exception.
ThrowHolding(t) ==
  /\ misses < MaxMisses
  /\ misses' = misses + 1
  /\ GoTo(t, "failed")
  /\ UNCHANGED locker

\* An exception, which releases the lock.
Throw(t) ==
  /\ misses < MaxMisses
  /\ misses' = misses + 1
  /\ locker' = NoThread
  /\ GoTo(t, "failed")

\* _redis = ConnectionMultiplexer.Connect(...), and _redis.IsConnected: with
\* abortConnect=false there is a multiplexer though it is not connected.
Connect(t) ==
  /\ Stands(t, "connect")
  /\ created' = created + 1
  /\ redis' = created + 1
  /\ \/ /\ connected' = connected \cup {created + 1}
        /\ GoTo(t, "test")
        /\ UNCHANGED <<locker, misses>>
     \/ Throw(t) /\ UNCHANGED connected
  /\ UNCHANGED <<opened, heard, raised, failures, lost>>

\* Connect throws, and _redis stays as it was.
ConnectThrows(t) ==
  /\ Stands(t, "connect")
  /\ Throw(t)
  /\ UNCHANGED <<redis, opened, created, connected, heard, raised, failures, lost>>

\* The small test of the connection.
SmallTest(t) ==
  /\ Stands(t, "test")
  /\ IF redis \in connected THEN GoTo(t, "subscribe") /\ UNCHANGED <<locker, misses>>
                            ELSE Throw(t)
  /\ UNCHANGED <<redis, opened, created, connected, heard, raised, failures, lost>>

\* _redis.ConnectionRestored += ...; _redis.ConnectionFailed += ...
Subscribe(t) ==
  /\ Stands(t, "subscribe")
  /\ heard' = heard \cup {redis}
  /\ GoTo(t, "open")
  /\ UNCHANGED <<redis, opened, locker, created, connected, raised, failures, misses, lost>>

\* _isRedisConnectionOpened = true; }
SetOpened(t) ==
  /\ Stands(t, "open")
  /\ opened' = TRUE
  /\ locker' = NoThread
  /\ GoTo(t, "use")
  /\ UNCHANGED <<redis, created, connected, heard, raised, failures, misses, lost>>

\* The call uses _redis as it is now.
UseRedis(t) ==
  /\ Stands(t, "use")
  /\ GoTo(t, IF redis \in connected THEN "idle" ELSE "failed")
  /\ UNCHANGED <<redis, opened, locker, created, connected, heard, raised, failures, misses, lost>>

-----------------------------------------------------------------------------
(* The multiplexers. *)

Raise(m, event) ==
  raised' = IF m \in heard THEN raised \cup {<<m, event>>} ELSE raised

\* A connection fails; not again before the service has heard of it.
ConnectionFails(m) ==
  /\ m \in connected
  /\ failures < MaxFailures
  /\ <<m, "failed">> \notin raised
  /\ failures' = failures + 1
  /\ connected' = connected \ {m}
  /\ Raise(m, "failed")
  /\ UNCHANGED <<redis, opened, locker, thread, created, heard, misses, lost>>

\* It is made again: ReconnectRetryPolicy.
Reconnects(m) ==
  /\ m \in 1..created
  /\ m \notin connected
  /\ connected' = connected \cup {m}
  /\ Raise(m, "restored")
  /\ UNCHANGED <<redis, opened, locker, thread, created, heard, failures, misses, lost>>

\* The handler of an event runs, in whatever order events were raised.
HandleRestored(m) ==
  /\ <<m, "restored">> \in raised
  /\ raised' = raised \ {<<m, "restored">>}
  /\ opened' = TRUE
  /\ UNCHANGED <<redis, locker, thread, created, connected, heard, failures, misses, lost>>

HandleFailed(m) ==
  /\ <<m, "failed">> \in raised
  /\ raised' = raised \ {<<m, "failed">>}
  /\ opened' = FALSE
  /\ lost' = lost + 1
  /\ UNCHANGED <<redis, locker, thread, created, connected, heard, failures, misses>>

ThreadStep(t) ==
  \/ Lock(t) \/ Connect(t) \/ ConnectThrows(t) \/ SmallTest(t) \/ Subscribe(t)
  \/ SetOpened(t) \/ UseRedis(t)

ConnNext ==
  \/ \E t \in Threads : CallBegins(t) \/ ThreadStep(t)
  \/ \E m \in Multiplexers : \/ ConnectionFails(m) \/ Reconnects(m)
                             \/ HandleRestored(m) \/ HandleFailed(m)

\* A call goes on, and Valkey comes back; nobody has to call, and the events may
\* be late for ever.
ConnFairness ==
  /\ \A t \in Threads : WF_connVars(ThreadStep(t))
  /\ \A m \in Multiplexers : WF_connVars(Reconnects(m))

ConnSpec == ConnInit /\ [][ConnNext]_connVars /\ ConnFairness

-----------------------------------------------------------------------------
(* Properties. *)

\* "open a new one but only at the first thread": however many calls find the
\* connection closed at once, and whatever events of replaced connections come
\* late, there is one connection more only for a failure the service heard of or
\* an attempt that failed.
OneConnectionPerLoss == created <= 1 + lost + misses

\* When connections have failed for the last time, calls are served: none waits
\* for the lock for good, and from some time on none fails - though the flag may
\* still say what an event of another connection made it say.
CallsGetThrough ==
  /\ \A t \in Threads : Stands(t, "wait") ~> ~Stands(t, "wait")
  /\ \A t \in Threads : <>[][Stands(t, "use") => thread'[t] # "failed"]_thread
=============================================================================
