------------------------------ MODULE Desktop ------------------------------
(***************************************************************************)
(* FoxDE: the draw loop of the desktop and the programs that own windows.  *)
(* Their IPC calls run the desktop's handler in their own tasks, so that   *)
(* the window list changes at any point of the loop; the key handler is a  *)
(* signal that interrupts it.  A client is a run of window_test, the one   *)
(* program with a window, started from a terminal or by the launcher.      *)
(*                                                                         *)
(* Single operations of the list (libfoxos) are atomic.  Freed memory      *)
(* keeps its contents until it is handed out again; for nodes that can     *)
(* only be seen during a walk and is forgotten afterwards (Forget).        *)
(***************************************************************************)
EXTENDS Naturals, Integers, Sequences

CONSTANTS
    Clients,     \* processes, each with the window it creates
    Nodes,       \* addresses of list nodes
    Nil

ASSUME DesktopAssumption == Nil \notin Nodes \cup Clients

VARIABLES
    desk,      \* the task of the desktop: where it is, and its locals
    list,      \* window_list, from back to front
    node,      \* window_address, whether exit_button_x is set, the old next
    window,    \* exit_button and should_exit
    client,    \* where each client is
    found,     \* what find returned to unregister_window
    slot,      \* cache_signum
    terminal,  \* the terminal of the desktop, or that of its user before
    seen, got, unsent \* history: registered in this walk; who got the click; signals since a send

vars == <<desk, list, node, window, client, found, slot, terminal, seen, got, unsent>>

(* Places on the screen.  Every window_test opens at the same place, with  *)
(* its exit button in the title bar; "corner" is what surrounds (0, 0).    *)
Points == {"button", "inside", "corner", "icon"}

Open == {"tick", "draw", "drawn", "mouse", "click", "clicked", "key", "down", "up", "clear", "destroy", "closing"}
Walking == {"draw", "drawn", "click", "clicked"}
Looping == Open \ {"destroy", "closing"}

Listed == {node[list[i]].win : i \in 1 .. Len(list)}
Registered == {c \in Clients : client[c] \in {"shown", "loop", "leaving", "removing"}}
Head1 == IF list = <<>> THEN Nil ELSE list[1]

(* node->next, read after the callback: a node taken out of the list       *)
(* meanwhile still has the pointer it had.                                 *)
NextOf(a) ==
    IF \E i \in 1 .. Len(list) : list[i] = a
    THEN LET i == CHOOSE i \in 1 .. Len(list) : list[i] = a
         IN  IF i = Len(list) THEN Nil ELSE list[i + 1]
    ELSE node[a].next

Blank == [win |-> Nil, armed |-> FALSE, next |-> Nil]
Forget == [a \in Nodes |-> IF \E i \in 1 .. Len(list) : list[i] = a THEN node[a] ELSE Blank]

Init ==
    /\ desk = [pc |-> "off", walk |-> Nil, at |-> "corner", handled |-> FALSE]
    /\ list = <<>>
    /\ node = [a \in Nodes |-> Blank]
    /\ window = [c \in Clients |-> [exit_button |-> FALSE, should_exit |-> FALSE]]
    /\ client = [c \in Clients |-> "off"]
    /\ found = [c \in Clients |-> Nil]
    /\ slot = "none" /\ terminal = "running"
    /\ seen = {} /\ got = {} /\ unsent = 0

-----------------------------------------------------------------------------
(* The start of main, up to ipc_register.  There is one desktop at a time. *)
Begin ==
    /\ desk.pc \in {"off", "over"} /\ terminal = "running"
    /\ desk' = [desk EXCEPT !.pc = "ipc"]
    /\ slot' = "none" /\ unsent' = 0
    /\ UNCHANGED <<list, node, window, client, found, terminal, seen, got>>

(* Clients reach the handler before there is a list.                       *)
InitWindows ==
    /\ desk.pc = "ipc"
    /\ desk' = [desk EXCEPT !.pc = "tick"]
    /\ UNCHANGED <<list, node, window, client, found, slot, terminal, seen, got, unsent>>

(* The loop goes on, and draw_windows begins.                              *)
Tick ==
    /\ desk.pc = "tick" /\ terminal = "running"
    /\ desk' = [desk EXCEPT !.pc = "draw", !.walk = Head1]
    /\ seen' = Registered
    /\ UNCHANGED <<list, node, window, client, found, slot, terminal, got, unsent>>

Draw ==
    /\ desk.pc = "draw" /\ desk.walk # Nil
    /\ node' = [node EXCEPT ![desk.walk].armed =
                   @ \/ window[node[desk.walk].win].exit_button]
    /\ desk' = [desk EXCEPT !.pc = "drawn"]
    /\ UNCHANGED <<list, window, client, found, slot, terminal, seen, got, unsent>>

DrawNext ==
    /\ desk.pc = "drawn"
    /\ desk' = [desk EXCEPT !.pc = "draw", !.walk = NextOf(desk.walk)]
    /\ UNCHANGED <<list, node, window, client, found, slot, terminal, seen, got, unsent>>

DrawDone ==
    /\ desk.pc = "draw" /\ desk.walk = Nil
    /\ desk' = [desk EXCEPT !.pc = "mouse"]
    /\ seen' = {} /\ node' = Forget
    /\ UNCHANGED <<list, window, client, found, slot, terminal, got, unsent>>

-----------------------------------------------------------------------------
NoButton ==
    /\ desk.pc = "mouse"
    /\ desk' = [desk EXCEPT !.pc = "key"]
    /\ UNCHANGED <<list, node, window, client, found, slot, terminal, seen, got, unsent>>

(* mouse_handle_icons: the click starts a program or is just handled.      *)
ClickIcon ==
    /\ desk.pc = "mouse"
    /\ desk' = [desk EXCEPT !.pc = "key"]
    /\ got' = got \cup {"icon"}
    /\ UNCHANGED <<list, node, window, client, found, slot, terminal, seen, unsent>>

ClickElsewhere ==
    /\ desk.pc = "mouse"
    /\ \E p \in Points \ {"icon"} :
          desk' = [desk EXCEPT !.pc = "click", !.at = p, !.walk = Head1, !.handled = FALSE]
    /\ seen' = Registered
    /\ UNCHANGED <<list, node, window, client, found, slot, terminal, got, unsent>>

(* The exit button is where draw_window last drew it; before, at (0, 0).   *)
OnExitButton(a) ==
    /\ window[node[a].win].exit_button
    /\ desk.at = IF node[a].armed THEN "button" ELSE "corner"

(* Mutant of Click: the check of handled is missing.                       *)
ClickAll ==
    /\ desk.pc = "click" /\ desk.walk # Nil
    /\ LET c == node[desk.walk].win
       IN  IF OnExitButton(desk.walk) \/ desk.at \in {"button", "inside"}
           THEN /\ desk' = [desk EXCEPT !.pc = "clicked", !.handled = TRUE]
                /\ got' = got \cup {c}
                /\ window' = IF OnExitButton(desk.walk)
                             THEN [window EXCEPT ![c] = [exit_button |-> FALSE, should_exit |-> TRUE]]
                             ELSE window
           ELSE desk' = [desk EXCEPT !.pc = "clicked"] /\ UNCHANGED <<got, window>>
    /\ UNCHANGED <<list, node, client, found, slot, terminal, seen, unsent>>

(* The callback of mouse_handle_windows.  send_click is the window's.      *)
Click ==
    /\ desk.pc = "click" /\ desk.walk # Nil
    /\ LET c == node[desk.walk].win
       IN  IF ~desk.handled /\ (OnExitButton(desk.walk) \/ desk.at \in {"button", "inside"})
           THEN /\ desk' = [desk EXCEPT !.pc = "clicked", !.handled = TRUE]
                /\ got' = got \cup {c}
                /\ window' = IF OnExitButton(desk.walk)
                             THEN [window EXCEPT ![c] = [exit_button |-> FALSE, should_exit |-> TRUE]]
                             ELSE window
           ELSE desk' = [desk EXCEPT !.pc = "clicked"] /\ UNCHANGED <<got, window>>
    /\ UNCHANGED <<list, node, client, found, slot, terminal, seen, unsent>>

(* Mutant of ClickNext: a handled click ends the callback, not the walk.   *)
ClickNextStays ==
    /\ desk.pc = "clicked"
    /\ desk' = [desk EXCEPT !.pc = "click",
                            !.walk = IF desk.handled THEN @ ELSE NextOf(desk.walk)]
    /\ UNCHANGED <<list, node, window, client, found, slot, terminal, seen, got, unsent>>

ClickNext ==
    /\ desk.pc = "clicked"
    /\ desk' = [desk EXCEPT !.pc = "click", !.walk = NextOf(desk.walk)]
    /\ UNCHANGED <<list, node, window, client, found, slot, terminal, seen, got, unsent>>

ClickDone ==
    /\ desk.pc = "click" /\ desk.walk = Nil
    /\ desk' = [desk EXCEPT !.pc = "key", !.at = "corner", !.handled = FALSE]
    /\ seen' = {} /\ node' = Forget
    /\ UNCHANGED <<list, window, client, found, slot, terminal, got, unsent>>

-----------------------------------------------------------------------------
(* special_key_sighandler.                                                 *)
Signal(kind) ==
    /\ desk.pc \in Looping
    /\ slot' = kind /\ unsent' = 1
    /\ UNCHANGED <<desk, list, node, window, client, found, terminal, seen, got>>

(* The first read of cache_signum, and get_front_window.                   *)
KeyLook ==
    /\ desk.pc = "key"
    /\ desk' = [desk EXCEPT !.pc = IF slot = "none" THEN "tick" ELSE IF list = <<>> THEN "clear" ELSE "down"]
    /\ got' = {}
    /\ UNCHANGED <<list, node, window, client, found, slot, terminal, seen, unsent>>

(* The second and the third read: send_special_key_down or _up.            *)
KeySend(pc, kind, else) ==
    /\ desk.pc = pc
    /\ desk' = [desk EXCEPT !.pc = IF slot = kind THEN "clear" ELSE else]
    /\ unsent' = IF slot = kind THEN unsent - 1 ELSE unsent
    /\ UNCHANGED <<list, node, window, client, found, slot, terminal, seen, got>>

KeyDown == KeySend("down", "down", "up")
KeyUp == KeySend("up", "up", "clear")

(* Mutant of KeyClear: the slot is not emptied.                            *)
KeyClearKeeps ==
    /\ desk.pc = "clear"
    /\ desk' = [desk EXCEPT !.pc = "tick"]
    /\ unsent' = 0
    /\ UNCHANGED <<slot, list, node, window, client, found, terminal, seen, got>>

(* What was not sent is lost.                                              *)
KeyClear ==
    /\ desk.pc = "clear"
    /\ desk' = [desk EXCEPT !.pc = "tick"]
    /\ slot' = "none" /\ unsent' = 0
    /\ UNCHANGED <<list, node, window, client, found, terminal, seen, got>>

-----------------------------------------------------------------------------
TerminalExit ==
    /\ desk.pc \in Open /\ terminal = "running"
    /\ terminal' = "gone"
    /\ UNCHANGED <<desk, list, node, window, client, found, slot, seen, got, unsent>>

LeaveLoop ==
    /\ desk.pc = "tick" /\ terminal = "gone"
    /\ desk' = [desk EXCEPT !.pc = "destroy"]
    /\ UNCHANGED <<list, node, window, client, found, slot, terminal, seen, got, unsent>>

DestroyAllWindows ==
    /\ desk.pc = "destroy"
    /\ list' = <<>> /\ node' = [a \in Nodes |-> Blank]
    /\ desk' = [desk EXCEPT !.pc = "closing"]
    /\ UNCHANGED <<window, client, found, slot, terminal, seen, got, unsent>>

(* ipc_unregister and the end of the task; its user is back at a terminal. *)
Over ==
    /\ desk.pc = "closing"
    /\ desk' = [desk EXCEPT !.pc = "over"]
    /\ terminal' = "running"
    /\ list' = <<>> /\ node' = [a \in Nodes |-> Blank]
    /\ UNCHANGED <<window, client, found, slot, seen, got, unsent>>

-----------------------------------------------------------------------------
Goes(c, pc) == client' = [client EXCEPT ![c] = pc]

(* A program is started, by a user or the launcher, makes its window and   *)
(* registers it: the find of register_window.  Without a desktop it gives  *)
(* up; without a list the handler faults, or its add goes nowhere.         *)
Register(c) ==
    /\ client[c] = "off"
    /\ window' = [window EXCEPT ![c] = [exit_button |-> FALSE, should_exit |-> FALSE]]
    /\ \/ desk.pc = "ipc" /\ Goes(c, "shown")
       \/ desk.pc \in Open /\ Goes(c, IF c \in Listed THEN "shown" ELSE "adding")
    /\ UNCHANGED <<desk, list, node, found, slot, terminal, seen, got, unsent>>

(* Mutant of Add: with a node that may still be linked.                    *)
AddRelinks(c) ==
    /\ client[c] = "adding" /\ Goes(c, "shown") /\ desk.pc \in Open
    /\ \E a \in Nodes :
          /\ list' = Append(list, a)
          /\ node' = [node EXCEPT ![a] = [win |-> c, armed |-> FALSE, next |-> Nil]]
          /\ seen' = IF desk.pc \in Walking THEN seen \cup {c} ELSE seen
    /\ UNCHANGED <<desk, window, found, slot, terminal, got, unsent>>

(* The add of register_window, with a node of zeros.  When the desktop     *)
(* ended meanwhile there is no list to add to.                             *)
Add(c) ==
    /\ client[c] = "adding" /\ Goes(c, "shown")
    /\ IF desk.pc \in Open
       THEN \E a \in Nodes \ {list[i] : i \in 1 .. Len(list)} :
               /\ list' = Append(list, a)
               /\ node' = [node EXCEPT ![a] = [win |-> c, armed |-> FALSE, next |-> Nil]]
               /\ seen' = IF desk.pc \in Walking THEN seen \cup {c} ELSE seen
       ELSE UNCHANGED <<list, node, seen>>
    /\ UNCHANGED <<desk, window, found, slot, terminal, got, unsent>>

ShowExitButton(c) ==
    /\ client[c] = "shown" /\ Goes(c, "loop")
    /\ window' = [window EXCEPT ![c].exit_button = TRUE]
    /\ UNCHANGED <<desk, list, node, found, slot, terminal, seen, got, unsent>>

SeeExit(c) ==
    /\ client[c] = "loop" /\ window[c].should_exit
    /\ Goes(c, "leaving")
    /\ UNCHANGED <<desk, list, node, window, found, slot, terminal, seen, got, unsent>>

(* Mutant of Unregister: no return when the window is not found.           *)
UnregisterInsists(c) ==
    /\ client[c] = "leaving" /\ desk.pc \in Open
    /\ \E i \in 1 .. Len(list) : node[list[i]].win = c /\ found' = [found EXCEPT ![c] = list[i]]
    /\ Goes(c, "removing")
    /\ UNCHANGED <<desk, list, node, window, slot, terminal, seen, got, unsent>>

(* fox_unregister_window: the find of unregister_window.                   *)
Unregister(c) ==
    /\ client[c] = "leaving"
    /\ IF desk.pc \in Open /\ c \in Listed
       THEN /\ \E i \in 1 .. Len(list) : node[list[i]].win = c /\ found' = [found EXCEPT ![c] = list[i]]
            /\ Goes(c, "removing")
       ELSE Goes(c, "deleting") /\ UNCHANGED found
    /\ UNCHANGED <<desk, list, node, window, slot, terminal, seen, got, unsent>>

(* Mutant of Remove: takes out another node than the one it found.         *)
RemoveOther(c) ==
    /\ client[c] = "removing" /\ Goes(c, "deleting") /\ found' = [found EXCEPT ![c] = Nil]
    /\ IF \E i \in 1 .. Len(list) : list[i] = found[c]
       THEN \E i \in 1 .. Len(list) :
               /\ list' = SubSeq(list, 1, i - 1) \o SubSeq(list, i + 1, Len(list))
               /\ node' = [node EXCEPT ![list[i]] = Blank]
       ELSE UNCHANGED <<list, node>>
    /\ UNCHANGED <<desk, window, slot, terminal, seen, got, unsent>>

(* Mutant of Remove: only marks.                                           *)
RemoveNothing(c) ==
    /\ client[c] = "removing" /\ Goes(c, "deleting")
    /\ UNCHANGED <<list, node, desk, window, found, slot, terminal, seen, got, unsent>>

Remove(c) ==
    /\ client[c] = "removing" /\ Goes(c, "deleting") /\ found' = [found EXCEPT ![c] = Nil]
    /\ IF \E i \in 1 .. Len(list) : list[i] = found[c]
       THEN \E i \in 1 .. Len(list) :
               /\ list[i] = found[c]
               /\ list' = SubSeq(list, 1, i - 1) \o SubSeq(list, i + 1, Len(list))
               /\ node' = [node EXCEPT ![list[i]] =
                     IF desk.pc \in Walking THEN [@ EXCEPT !.next = NextOf(list[i])] ELSE Blank]
       ELSE UNCHANGED <<list, node>>
    /\ UNCHANGED <<desk, window, slot, terminal, seen, got, unsent>>

(* delete window, and main returns.                                        *)
Delete(c) ==
    /\ client[c] = "deleting" /\ Goes(c, "off")
    /\ UNCHANGED <<desk, list, node, window, found, slot, terminal, seen, got, unsent>>

-----------------------------------------------------------------------------
Desk ==
    \/ InitWindows \/ Tick \/ Draw \/ DrawNext \/ DrawDone
    \/ NoButton \/ ClickIcon \/ ClickElsewhere \/ Click \/ ClickNext \/ ClickDone
    \/ KeyLook \/ KeyDown \/ KeyUp \/ KeyClear
    \/ LeaveLoop \/ DestroyAllWindows \/ Over

Client(c) ==
    \/ Add(c) \/ ShowExitButton(c) \/ SeeExit(c)
    \/ Unregister(c) \/ Remove(c) \/ Delete(c)

Next ==
    \/ Begin \/ Desk \/ TerminalExit
    \/ \E kind \in {"down", "up"} : Signal(kind)
    \/ \E c \in Clients : Register(c) \/ Client(c)

Spec == Init /\ [][Next]_vars

(* Tasks are scheduled; nothing is assumed of users.                       *)
FairSpec == Spec /\ WF_vars(Desk) /\ \A c \in Clients : WF_vars(Client(c))

-----------------------------------------------------------------------------
TypeOK ==
    /\ desk \in [pc : Open \cup {"off", "ipc", "over"}, walk : Nodes \cup {Nil}, at : Points,
                 handled : BOOLEAN]
    /\ list \in Seq(Nodes) /\ \A i, j \in 1 .. Len(list) : list[i] = list[j] => i = j
    /\ node \in [Nodes -> [win : Clients \cup {Nil}, armed : BOOLEAN, next : Nodes \cup {Nil}]]
    /\ window \in [Clients -> [exit_button : BOOLEAN, should_exit : BOOLEAN]]
    /\ client \in [Clients -> {"off", "adding", "shown", "loop", "leaving", "removing", "deleting"}]
    /\ found \in [Clients -> Nodes \cup {Nil}]
    /\ slot \in {"none", "down", "up"} /\ terminal \in {"running", "gone"}
    /\ seen \subseteq Clients /\ got \subseteq Clients \cup {"icon"} /\ unsent \in {-1, 0, 1}

(* Every node of the list belongs to a window that is registered and not   *)
(* yet being deleted, and no window has two: whatever the handlers do in   *)
(* their clients' tasks (register_window against unregister_window,        *)
(* destroy_all_windows and a new desktop).                                 *)
ListedLive ==
    /\ \A i \in 1 .. Len(list) : node[list[i]].win \in Registered
    /\ \A i, j \in 1 .. Len(list) : node[list[i]].win = node[list[j]].win => i = j

(* A walk over the list may reach a window whose node was removed, and     *)
(* even deleted, under its feet, but only one whose program had registered *)
(* it at some time during this walk: nothing stale outlives a frame.       *)
TouchesRegistered ==
    desk.pc \in Walking /\ desk.walk # Nil => node[desk.walk].win \in seen

(* One click goes to one receiver, also when the list changes during the   *)
(* walk (handled, in main and mouse_handle_windows).                       *)
OneReceiver == \A r, s \in got : r = s

(* No key event is sent twice: between two of them, and before the first,  *)
(* a key has changed, although three reads and the clearing of             *)
(* cache_signum race with the signal.                                      *)
KeysAtMostOnce == unsent >= 0

(* A program whose exit button was pressed ends, even if the desktop ends  *)
(* or is started again meanwhile.                                          *)
CloseHonoured == \A c \in Clients : client[c] = "loop" /\ window[c].should_exit ~> client[c] = "off"

(* The desktop ends after its terminal, whatever clients and keys do.      *)
DesktopEnds == terminal = "gone" ~> desk.pc = "over"

(* window_renderer.cpp: "check if exit button is pressed": a window is     *)
(* told to exit only by a press of its exit button.                        *)
ExitNeedsButton ==
    [][\A c \in Clients : ~window[c].should_exit /\ window'[c].should_exit => desk.at = "button"]_vars
=============================================================================
