------------------------------ MODULE Startup ------------------------------
(***************************************************************************)
(* What the start-up code promises, without the handshake that implements  *)
(* it: hart 0 releases the other harts in order, every hart runs its own   *)
(* application, the application of hart 0 runs only when all the others    *)
(* are released, and the console UART goes from hart 0 to hart 1.          *)
(***************************************************************************)
EXTENDS Integers

CONSTANT LastHart

Harts  == 0..LastHart
Others == 1..LastHart
NoApp  == -1

VARIABLES
  released,  \* harts that have left the start-up code
  app,       \* app[h]: application hart h runs, or NoApp
  console    \* hart that drives MMUART0, or NoApp

vars == <<released, app, console>>

Init ==
  /\ released = {}
  /\ app = [h \in Harts |-> NoApp]
  /\ console = NoApp

Release(h) ==
  /\ h \notin released
  /\ 1..(h - 1) \subseteq released
  /\ released' = released \cup {h}
  /\ UNCHANGED <<app, console>>

Start(h) ==
  /\ app[h] = NoApp
  /\ h \in released \/ (h = 0 /\ Others \subseteq released)
  /\ app' = [app EXCEPT ![h] = h]
  /\ UNCHANGED <<released, console>>

TakeConsole ==
  /\ console = NoApp
  /\ app[0] = 0
  /\ console' = 0
  /\ UNCHANGED <<released, app>>

PassConsole ==
  /\ console = 0
  /\ app[1] = 1
  /\ console' = 1
  /\ UNCHANGED <<released, app>>

Restart ==
  /\ app[0] = 0
  /\ released' = {}
  /\ app' = [h \in Harts |-> NoApp]
  /\ console' = NoApp

Next ==
  \/ \E h \in Others : Release(h)
  \/ \E h \in Harts : Start(h)
  \/ TakeConsole
  \/ PassConsole
  \/ Restart

Spec == Init /\ [][Next]_vars
=============================================================================
