------------------------------- MODULE Desktop -------------------------------
(* Control of the desktop: the OS tools (os/tools), the managers under them, *)
(* OSSecurityManager and WindowsOSProvider.  A tool runs to its end on the   *)
(* event loop, but the user's hand and other programs act meanwhile: between *)
(* the effect of a tool and its verification, too.  One axis stands for both.*)
(* A refused call changes nothing and is not a step.  An approval is not     *)
(* modelled: ToolExecutionContext has no user_approved, so a tool has it.    *)
EXTENDS Integers, Sequences, SequencesExt

CONSTANTS
  Windows,     \* handles
  Matches,     \* window -> the title patterns it matches
  Place,       \* window -> its frame when it is neither small nor large
  Iconic,      \* where Windows puts a minimized window
  Desks,       \* the virtual desktop, by the monitors that are plugged in
  Points,      \* the coordinates that are tried
  KeyNames,    \* SUPPORTED_KEYS
  Resolvable,  \* those with a virtual key code
  Texts, Empty, NoWindow

Frame == [x : Int, w : Nat \ {0}]

ASSUME DesktopAssumption ==
  /\ Desks \subseteq Frame /\ Place \in [Windows -> Frame] /\ Iconic \in Frame
  /\ Resolvable \subseteq KeyNames /\ NoWindow \notin Windows
  /\ Points \subseteq Int /\ Desks # {} /\ \A d \in Desks : d.x \in Points

VARIABLES
  desk,     \* the virtual desktop
  show,     \* window -> how it is shown
  front,    \* the foreground window
  pointer,  \* where the cursor is
  held,     \* keys under the user's fingers
  down,     \* keys the system takes for pressed
  clip,     \* the clipboard
  report    \* what the last tool said, until something else happens

desktopVars == <<desk, show, front, pointer, held, down, clip, report>>

Silence == [of |-> "nothing", at |-> 0, verified |-> FALSE]

(* folded: minimized when it was maximized, which Windows remembers.         *)
ShowStates == {"normal", "maximized", "minimized", "folded", "closed"}

Inside(x, f) == f.x <= x /\ x < f.x + f.w
OnTop == {w \in Windows : show[w] \in {"normal", "maximized"}} \cup {NoWindow}

DesktopTypeOK ==
  /\ desk \in Desks /\ Inside(pointer, desk) /\ front \in OnTop
  /\ show \in [Windows -> ShowStates]
  /\ held \subseteq KeyNames /\ down \subseteq KeyNames
  /\ clip \in Texts \cup {Empty}

(* With any of the desktops: the others come by plugging.                    *)
DesktopInit ==
  /\ desk = CHOOSE d \in Desks : TRUE
  /\ pointer = desk.x
  /\ show = [w \in Windows |-> "normal"] /\ front = NoWindow
  /\ held = {} /\ down = {} /\ clip = Empty /\ report = Silence

Said(tool, at, ok) == report' = [of |-> tool, at |-> at, verified |-> ok]

-----------------------------------------------------------------------------
FrameOf(w) ==
  CASE show[w] \in {"minimized", "folded"} -> Iconic
    [] show[w] = "maximized" -> desk
    [] OTHER -> Place[w]

(* The last column is taken to be one further out.                           *)
Mutant_Validated(space, x, w) ==
  LET f == IF space = "window" THEN FrameOf(w) ELSE desk IN
    IF space = "screen" THEN IF f.x <= x /\ x <= f.x + f.w THEN {x} ELSE {}
    ELSE IF 0 <= x /\ x < f.w THEN {f.x + x} ELSE {}

(* validate_coordinates: the point on the screen, or none.  The provider     *)
(* lists one monitor, the virtual desktop, and any other id means that one.  *)
Validated(space, x, w) ==
  LET f == IF space = "window" THEN FrameOf(w) ELSE desk IN
    IF space = "screen" THEN IF Inside(x, f) THEN {x} ELSE {}
    ELSE IF 0 <= x /\ x < f.w THEN {f.x + x} ELSE {}

(* SetCursorPos keeps the cursor on the desktop.                             *)
Clamped(x) ==
  IF x < desk.x THEN desk.x
  ELSE IF Inside(x, desk) THEN x ELSE desk.x + desk.w - 1

Hand == {x \in Points : Inside(x, desk)}

(* Where a call may aim that names no window, and one that names a window.   *)
Aims == UNION {Validated(space, x, NoWindow) : space \in {"screen", "monitor"}, x \in Points}
AimsInWindows ==
  UNION {Validated("window", x, w) : x \in Points, w \in {v \in Windows : show[v] # "closed"}}

Move(at) ==
  /\ pointer' \in {Clamped(at)} \cup Hand
  /\ Said("move", at, pointer' = at)
  /\ UNCHANGED <<desk, show, front, held, down, clip>>

(* The click goes to the place, or to where the cursor is; what it hits may  *)
(* come to the front.                                                        *)
Click(at) ==
  /\ pointer' \in {Clamped(at)} \cup Hand /\ Said("click", at, TRUE)
  /\ front' \in OnTop \cup {front}
  /\ UNCHANGED <<desk, show, held, down, clip>>

Scroll(x) ==
  /\ \E at \in Validated("screen", x, NoWindow) : pointer' = Clamped(at)
  /\ report' = Silence
  /\ UNCHANGED <<desk, show, front, held, down, clip>>

(* Each key is resolved when its turn comes, and the first that cannot be    *)
(* ends the call.                                                            *)
Mutant_Hotkey(ks) ==
  /\ down' = IF ToSet(ks) \subseteq Resolvable THEN down \ ToSet(ks)
             ELSE down \cup {ks[i] : i \in {j \in DOMAIN ks :
                                     \A k \in 1 .. j : ks[k] \in Resolvable}}
  /\ report' = Silence
  /\ UNCHANGED <<desk, show, front, pointer, held, clip>>

(* send_hotkey and press_key: all keys are resolved, then pressed in order,  *)
(* then released, those the user holds as well.                              *)
Hotkey(ks) ==
  /\ ToSet(ks) \subseteq Resolvable
  /\ down' = down \ ToSet(ks)
  /\ report' = Silence
  /\ UNCHANGED <<desk, show, front, pointer, held, clip>>

(* ShowWindow, of a window that is not closed: SW_RESTORE brings one that    *)
(* was minimized back as it was before.                                      *)
Shown(command, s) ==
  CASE command = "maximize" -> "maximized"
    [] command = "minimize" -> IF s \in {"maximized", "folded"} THEN "folded" ELSE "minimized"
    [] command = "restore" -> IF s = "folded" THEN "maximized" ELSE "normal"

ShowCommands == {"restore", "minimize", "maximize"}

(* What the hand may make of a window in an instant.                         *)
Handled(s) == {s, "closed"} \cup {Shown(c, s) : c \in ShowCommands}

(* A window is focused by its handle, or by a pattern that one window of     *)
(* those listed matches.  It is restored; Windows may refuse to bring it to  *)
(* the front, and the hand may act before verify_window_focus looks which    *)
(* window is there.                                                          *)
Found(p) == {w \in Windows : show[w] # "closed" /\ p \in Matches[w]}

Focus(w) ==
  /\ \/ show[w] = "closed" /\ UNCHANGED show
     \/ /\ show[w] # "closed"
        /\ \E s \in Handled(Shown("restore", show[w])) : show' = [show EXCEPT ![w] = s]
  /\ front' \in OnTop'
  /\ Said("focus", w, front' = w)
  /\ UNCHANGED <<desk, pointer, held, down, clip>>

FocusByTitle(p) == \E w \in Found(p) : Found(p) = {w} /\ Focus(w)

(* set_state, and the same by the user's hand.                               *)
SetState(w, command) ==
  /\ show[w] # "closed"
  /\ show' = [show EXCEPT ![w] = Shown(command, @)]
  /\ front' \in OnTop' /\ report' = Silence
  /\ UNCHANGED <<desk, pointer, held, down, clip>>

(* Written and read again; another program may write in between.  Without    *)
(* memory, or when it cannot be opened again to be read, the call fails with *)
(* the old content gone.                                                     *)
ClipboardWrite(t) ==
  /\ \/ clip' \in {Empty, t} /\ report' = Silence
     \/ clip' \in Texts \cup {Empty} /\ Said("write", t, clip' = t)
  /\ UNCHANGED <<desk, show, front, pointer, held, down>>

ClipboardClear ==
  /\ clip' = Empty /\ report' = Silence
  /\ UNCHANGED <<desk, show, front, pointer, held, down>>

-----------------------------------------------------------------------------
(* The user and other programs: windows come and go, monitors are plugged.   *)
PlugMonitor(d) ==
  /\ d # desk /\ desk' = d
  /\ pointer' \in {x \in Points : Inside(x, d)}
  /\ report' = Silence
  /\ UNCHANGED <<show, front, held, down, clip>>

WindowOpensOrCloses(w) ==
  /\ show' = [show EXCEPT ![w] = IF show[w] = "closed" THEN "normal" ELSE "closed"]
  /\ front' \in OnTop' /\ report' = Silence
  /\ UNCHANGED <<desk, pointer, held, down, clip>>

(* Of the keys that a tool can press.                                        *)
Finger(k) ==
  /\ held' = IF k \in held THEN held \ {k} ELSE held \cup {k}
  /\ down' = IF k \in held THEN down \ {k} ELSE down \cup {k}
  /\ report' = Silence
  /\ UNCHANGED <<desk, show, front, pointer, clip>>

DesktopNext ==
  \/ \E at \in Aims \cup AimsInWindows : Move(at)
  \/ \E at \in Aims \cup {pointer} : Click(at)
  \/ \E x \in Points : Scroll(x)
  \/ \E j, k \in KeyNames : Hotkey(<<j, k>>)
  \/ \E w \in Windows :
       \/ Focus(w) \/ WindowOpensOrCloses(w)
       \/ \E command \in ShowCommands : SetState(w, command)
  \/ \E p \in UNION {Matches[w] : w \in Windows} : FocusByTitle(p)
  \/ \E t \in Texts : ClipboardWrite(t)
  \/ ClipboardClear
  \/ \E d \in Desks : PlugMonitor(d)
  \/ \E k \in Resolvable : Finger(k)

DesktopSpec == DesktopInit /\ [][DesktopNext]_desktopVars

-----------------------------------------------------------------------------
(* What a tool reports as verified is so (os/verification/verifier.py),      *)
(* whatever hand or program acted in between: the cursor is where it was to  *)
(* go and on a desktop that may begin left of zero, even when the window it  *)
(* was measured from is minimized; the window is the one in front.  A click  *)
(* is never aimed past the desktop.  And no tool leaves a key pressed that   *)
(* no finger holds, not even one that fails halfway.                         *)
ReportsAreTrue ==
  /\ down \subseteq held
  /\ report.of = "click" => Inside(report.at, desk)
  /\ report.verified =>
       CASE report.of = "move" -> pointer = report.at /\ Inside(report.at, desk)
         [] report.of = "focus" -> front = report.at
         [] report.of = "write" -> clip = report.at
         [] OTHER -> TRUE
=============================================================================
