------------------------------ MODULE MCTuiApp ------------------------------
(***************************************************************************)
(* An instance of TuiApp for TLC.  What the operator is after is drawn at  *)
(* the start: it bounds the keys of a behaviour and their number, and the  *)
(* cycles of the refresh worker.  Everything else is possible in each; the *)
(* topic of logs has two starts and looks at one log while the other opens.*)
(***************************************************************************)
EXTENDS TuiApp

CONSTANTS g1, g2, n1, n2, q1

VARIABLE topic

Topics == {"shell", "panes", "ops", "prompts", "logs", "moving", "refresh"}

\* The keys of a topic and how many of them may be pressed.
Allowed ==
    CASE topic = "shell" -> keys < 6 /\ (ShellKeys \/ (keys < 2 /\ OpKeys) \/ KeyView("GuestList") \/ KeyBack \/ Quit)
      [] topic = "panes" -> keys < 5 /\ (PaneKeys \/ (keys < 2 /\ OpKeys) \/ KeyBack
                                       \/ KeyView("GuestList") \/ KeyView("NodeList"))
      [] topic = "ops" -> keys < 5 /\ (OpKeys \/ KeyBack \/ Quit)
      [] topic = "prompts" -> keys < 6 /\ (PromptKeys \/ ViewKeys \/ KeyBack \/ KeyDownload \/ Quit)
      [] topic = "logs" -> /\ keys < 5 /\ (KeySearch \/ KeySearchEnter \/ KeyRefresh)
                           /\ {tasks'[i].does : i \in DOMAIN tasks} \subseteq {"nothing", "start", "log"}
                           /\ Top(app').name \in {"Dashboard", "TaskLog"}
      [] topic = "moving" -> keys < 2 /\ OpKeys /\ worker.cycle = 0
      [] topic = "refresh" -> FALSE

Cycles == CASE topic = "refresh" -> MaxCycles [] topic = "moving" -> 1 [] OTHER -> 0

MCInit ==
    /\ Init /\ topic \in Topics
    /\ list.guests = <<>> => topic \in {"prompts", "refresh"}
    /\ topic # "refresh" => home = [g \in Guests |-> IF g = g1 THEN n1 ELSE n2]
MCNext ==
    /\ Next /\ UNCHANGED topic
    /\ keys' # keys => Allowed
    /\ IF Cycles = 0 THEN UNCHANGED refreshVars ELSE worker'.cycle <= Cycles

mcVars == <<vars, topic>>
MCSpec == MCInit /\ [][MCNext]_mcVars /\ Fairness
=============================================================================
