------------------------------ MODULE MCEvents ------------------------------
(***************************************************************************)
(* A form with a button and a check box in it.                             *)
(***************************************************************************)
EXTENDS PageEvents

CONSTANTS button, box, form, f1, f2, none, document

MCEventType == {"click", "submit", "change", "focusin"}
MCParent == button :> form @@ box :> form @@ form :> document
MCMethods == {<<button, "click">>, <<box, "click">>}
MCCauses == <<button, "click">> :> <<form, "submit">> @@ <<box, "click">> :> <<box, "change">>

Handler(fn, sel, ns, one) == [fn |-> fn, sel |-> sel, ns |-> ns, one |-> one]
On(e, t, h) == [elem |-> e, type |-> t, h |-> h]

MCBindings ==
  {On(button, "click", Handler(f1, none, "", FALSE)),
   On(form, "click", Handler(f1, button, "", TRUE)),
   On(form, "submit", Handler(f2, none, "", FALSE)),
   On(button, "focusin", Handler(f2, none, "", TRUE)),
   On(form, "focusin", Handler(f1, button, "n", FALSE)),
   On(box, "change", Handler(f1, none, "", FALSE))}
=============================================================================
