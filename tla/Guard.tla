------------------------------- MODULE Guard --------------------------------
(***************************************************************************)
(* The guard of a static variable (k-hardware.cc): __cxa_guard_acquire()   *)
(* and __cxa_guard_release(), which the compiler calls around its          *)
(* initialization.  Threads are whatever runs kernel code; every access to *)
(* the guard is one step.                                                  *)
(***************************************************************************)
EXTENDS Integers

CONSTANTS Threads

VARIABLES
  guard,  \* 0: not initialized, 1: locked, 2: initialized
  gpc,    \* where each thread is
  inits   \* how often the variable was initialized, up to 2

guardVars == <<guard, gpc, inits>>

GuardInit == guard = 0 /\ gpc = [t \in Threads |-> "load"] /\ inits = 0

To(t, pc) == gpc' = [gpc EXCEPT ![t] = pc]

\* The first look at the guard, without a lock.
Load(t) ==
  /\ gpc[t] = "load"
  /\ To(t, IF guard = 2 THEN "done" ELSE "exchange")
  /\ UNCHANGED <<guard, inits>>

\* guard->exchange(1) in the loop: it also locks a guard that was initialized.
\* Mutant of Exchange: such a guard is thought to be locked by another thread.
ExchangeSpins(t) ==
  /\ gpc[t] = "exchange"
  /\ guard' = 1 /\ UNCHANGED inits
  /\ To(t, IF guard = 0 THEN "initialize" ELSE "exchange")
Exchange(t) ==
  /\ gpc[t] = "exchange"
  /\ guard' = 1 /\ UNCHANGED inits
  /\ \/ guard = 2 /\ To(t, "unlock")
     \/ guard = 1 /\ To(t, "exchange")
     \/ guard = 0 /\ To(t, "initialize")

\* guard->exchange(2) after that.
Unlock(t) ==
  /\ gpc[t] = "unlock"
  /\ guard' = 2 /\ To(t, "done") /\ UNCHANGED inits

\* The code the compiler puts after an acquire that returned 1.
Initialize(t) ==
  /\ gpc[t] = "initialize"
  /\ inits' = IF inits = 0 THEN 1 ELSE 2
  /\ To(t, "release") /\ UNCHANGED guard

\* __cxa_guard_release()
GuardRelease(t) ==
  /\ gpc[t] = "release"
  /\ guard' = 2 /\ To(t, "done") /\ UNCHANGED inits

GuardNext ==
  \E t \in Threads : Load(t) \/ Exchange(t) \/ Unlock(t) \/ Initialize(t) \/ GuardRelease(t)

GuardSpec == GuardInit /\ [][GuardNext]_guardVars

-----------------------------------------------------------------------------
(* Properties.                                                             *)

\* The variable is initialized once, and before any thread goes on to use it; a
\* thread that finds the guard locked waits for one that is going to unlock it,
\* although the waiting thread writes the guard too.
GuardRight ==
  /\ inits \in {0, 1}
  /\ \A t \in Threads : gpc[t] = "done" => inits = 1
  /\ guard = 1 => \E t \in Threads : gpc[t] \in {"initialize", "release", "unlock"}

GuardPCs == {"load", "exchange", "unlock", "initialize", "release", "done"}
\* The strengthening that every step keeps: while one thread holds the guard of an
\* uninitialized variable it is alone past the guard, and the guard is locked.
GuardInv ==
  /\ guard \in {0, 1, 2} /\ gpc \in [Threads -> GuardPCs] /\ inits \in {0, 1}
  /\ guard = 0 => /\ inits = 0
                  /\ \A t \in Threads : gpc[t] \in {"load", "exchange"}
  /\ guard = 2 => inits = 1
  /\ guard = 1 => \E t \in Threads : gpc[t] \in {"initialize", "release", "unlock"}
  /\ \A t \in Threads :
       /\ gpc[t] \in {"unlock", "done"} => inits = 1
       /\ gpc[t] = "release" => inits = 1
       /\ gpc[t] = "initialize" => inits = 0
       /\ gpc[t] \in {"initialize", "release"} =>
            /\ guard = 1
            /\ \A u \in Threads \ {t} : gpc[u] \in {"load", "exchange"}
=============================================================================
