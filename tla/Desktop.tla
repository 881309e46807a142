------------------------------- MODULE Desktop ------------------------------
(***************************************************************************)
(* comment.js: the desktop page, whose icons open windows with a button    *)
(* each on the task bar, and a list of tasks that slides in from the top.  *)
(*                                                                         *)
(* What it moves it moves with the effects of Effects, and goes on in the  *)
(* complete callbacks: the layout of the task bar and the button that      *)
(* brings the list back wait for an animation, while the user clicks on.   *)
(* Sizes, places and dragging are left out, and so is the start menu,      *)
(* whose markup is not in the repository.                                  *)
(***************************************************************************)
EXTENDS Effects

CONSTANTS
  Boxes,       \* elements of the page of Effects alone
  MaxWindows,  \* bound on the windows of a desktop
  Fits,        \* numbers of buttons that a task bar may have room for
  MaxCalls,    \* bound on the calls of the script
  MaxClicks    \* bound on what the user of a desktop does

VARIABLE desk
\* clicks: what the user may still do (a bound); room: buttons the task bar has
\* room for now; opened: the windows so far; vertical: the class listVertical;
\* listButton: dowListBu shows.

deskVars == <<fx, run, calls, threw, meddled, desk>>

List == <<"list", 0>>
Win(n) == <<"window", n>>
Button(n) == <<"button", n>>
Opened == 1..desk.opened

Item(what) == [what |-> what, queued |-> TRUE]

ASSUME DesktopAssumption ==
  /\ List \notin Boxes /\ Fits \subseteq Nat
  /\ MaxWindows \in Nat /\ MaxCalls \in Nat /\ MaxClicks \in Nat

\* The script brings the list down when the page is loaded.
DesktopInit ==
  /\ fx = [el |-> [e \in {List} |-> [NewElement(TRUE) EXCEPT !.at = "up", !.queue = <<Item("down")>>]],
           hooks |-> <<>>, anim |-> <<>>, timers |-> <<>>, ticking |-> FALSE]
  /\ run = Todo(<<DequeueCall(List)>>)
  /\ calls = 0 /\ threw = FALSE /\ meddled = FALSE

-----------------------------------------------------------------------------
(***************************************************************************)
(* What the script does, now or in a complete callback.                    *)
(***************************************************************************)

\* toolBRAuto: too many buttons are laid out one below the other.
ToolBRAuto(d, el) ==
  [d EXCEPT !.vertical = Cardinality({n \in 1..d.opened : el[Button(n)].inDocument}) > d.room]

\* The complete callback of animation a; alerWinNor only sets sizes.
CalledBack(a) ==
  LET an == fx.anim[a]
  IN  CASE an.elem = List -> [desk EXCEPT !.listButton = (an.goal = "up")]
        [] an.elem[1] = "button" -> ToolBRAuto(desk, fx.el)
        [] OTHER -> desk

ReturnToDesktop == Return /\ desk' = CalledBack(Top.a)

\* The window is put into the document, and shown, while its size still moves.
InsertCall(n) == [op |-> "insert", n |-> n]

Insert ==
  /\ CallIs("insert")
  /\ fx' = [fx EXCEPT !.el[Win(Call.n)] = [@ EXCEPT !.inDocument = TRUE, !.visible = TRUE]]
  /\ run' = AfterCall
  /\ UNCHANGED <<calls, threw, meddled, desk>>

-----------------------------------------------------------------------------
(***************************************************************************)
(* What the user does, when no script runs.                                *)
(***************************************************************************)

UserActs == run = <<>> /\ desk.clicks > 0 /\ UNCHANGED <<calls, threw, meddled>>
Spent == [desk EXCEPT !.clicks = @ - 1]
Seen(e) == fx.el[e].inDocument /\ fx.el[e].visible

\* alerBox: the clone of the hidden template is shown before it is inserted.
AlerBox ==
  /\ UserActs /\ desk.opened < MaxWindows
  /\ LET n == desk.opened + 1
         el == [e \in Elem \union {Win(n), Button(n)} |->
                  IF e = Win(n) THEN [NewElement(FALSE) EXCEPT !.inDocument = FALSE, !.queue = <<Item("show")>>]
                  ELSE IF e = Button(n) THEN [NewElement(TRUE) EXCEPT !.queue = <<Item("opaque")>>]
                  ELSE fx.el[e]]
     IN /\ fx' = [fx EXCEPT !.el = el]
        /\ run' = Todo(<<DequeueCall(Win(n)), InsertCall(n), DequeueCall(Button(n))>>)
        /\ desk' = [Spent EXCEPT !.opened = n]

\* titMin: hidden, and the event stopped before movTop of the window hears it.
TitMin(x, n) == [x EXCEPT !.el[Win(n)].visible = FALSE]

Minimise(n) ==
  /\ UserActs /\ Seen(Win(n))
  /\ fx' = TitMin(fx, n)
  /\ desk' = Spent
  /\ UNCHANGED run

\* Mutation of TitClose: the task bar is not laid out again.
TitCloseAlone(x, d, n) == d

\* titClose, the task bar's part.
TitClose(x, d, n) == ToolBRAuto(d, x.el)

Close(n) ==
  /\ UserActs /\ Seen(Win(n))
  /\ fx' = Removed(Removed(fx, Win(n)), Button(n))
  /\ desk' = TitClose(fx', Spent, n)
  /\ UNCHANGED run

\* The task button: movTop.
TaskButton(n) ==
  /\ UserActs /\ Seen(Button(n))
  /\ fx' = [fx EXCEPT !.el[Win(n)].visible = TRUE]
  /\ desk' = Spent
  /\ UNCHANGED run

\* dowListBu, while it shows, and the titClose of the list, while any of it shows.
ListMoves(what) ==
  /\ UserActs
  /\ IF what = "down" THEN desk.listButton ELSE fx.el[List].at # "up"
  /\ Animated(List, what, TRUE, run)
  /\ desk' = Spent

Resize ==
  /\ UserActs
  /\ \E room \in Fits \ {desk.room} : desk' = ToolBRAuto([Spent EXCEPT !.room = room], fx.el)
  /\ UNCHANGED <<fx, run>>

User ==
  \/ AlerBox \/ Resize
  \/ \E n \in Opened : Minimise(n) \/ Close(n) \/ TaskButton(n)
  \/ \E what \in {"down", "up"} : ListMoves(what)

-----------------------------------------------------------------------------
(***************************************************************************)
(* A page whose script animates boxes as it likes, or the desktop.         *)
(***************************************************************************)

Init ==
  /\ \/ /\ \E visible \in [Boxes -> BOOLEAN] :
             fx = [el |-> [b \in Boxes |-> NewElement(visible[b])], hooks |-> <<>>, anim |-> <<>>,
                   timers |-> <<>>, ticking |-> FALSE]
        /\ run = <<>> /\ calls = MaxCalls /\ threw = FALSE /\ meddled = FALSE
     \/ DesktopInit
  /\ desk \in [clicks : {IF calls = 0 THEN MaxClicks ELSE 0}, room : IF calls = 0 THEN Fits ELSE {0},
               opened : {0}, vertical : {FALSE}, listButton : {TRUE}]

OnDesktop == List \in Elem

Next ==
  \/ (FxSteps \/ Tick) /\ UNCHANGED desk
  \/ ~OnDesktop /\ (Return \/ Throw \/ PageCalls) /\ UNCHANGED desk
  \/ OnDesktop /\ (ReturnToDesktop \/ Insert \/ User)

\* The browser goes on: scripts return, and the interval fires.
Spec == Init /\ [][Next]_deskVars /\ WF_deskVars(Next /\ (run # <<>> \/ Tick))

-----------------------------------------------------------------------------
(***************************************************************************)
(* What holds.                                                             *)
(***************************************************************************)

Still(e) == run = <<>> /\ Running(e) = {}

(***************************************************************************)
(* A window that was minimised is shown again by its task button alone:    *)
(* not by the animation it was opened with and minimised in, which goes on *)
(* in its hidden element, nor by its callback or those of other elements.  *)
(***************************************************************************)
MinimisedStays ==
  [][\A n \in Opened :
       fx.el[Win(n)].inDocument /\ ~fx.el[Win(n)].visible /\ fx'.el[Win(n)].visible => TaskButton(n)]_deskVars

(***************************************************************************)
(* Unless a new button is still fading in, the task bar is laid out for    *)
(* the buttons it has, also when a button was closed while it faded in.    *)
(***************************************************************************)
TaskBarFits ==
  (\A n \in Opened : Still(Button(n))) =>
    (desk.vertical <=> Cardinality({n \in Opened : fx.el[Button(n)].inDocument}) > desk.room)
=============================================================================
