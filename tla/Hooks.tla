------------------------------- MODULE Hooks -------------------------------
(***************************************************************************)
(* The hooks of a CPU (models/cpu/hooks.go; Unicorn's behave alike): a     *)
(* list in the order they were added.  The five lists of the code are one  *)
(* here, told apart by the type; a callback is a name.                     *)
(***************************************************************************)
EXTENDS Naturals, SequencesExt

Hook(type, mask, start, end, cb) ==
  [type |-> type, mask |-> mask, start |-> start, end |-> end, cb |-> cb]

\* A range that ends before it begins is everywhere; both ends are inside.
WithinOpen(h, addr) == h.start > h.end \/ (h.start < addr /\ addr <= h.end)   \* mutant: not at the start
Within(h, addr) == h.start > h.end \/ (h.start <= addr /\ addr <= h.end)

\* An instruction hook is refused; the mask is for memory hooks.
HookAdd(hooks, h) ==
  IF h.type \in {"block", "code", "intr", "fault"} \/ (h.type = "mem" /\ h.mask # {})
  THEN Append(hooks, h) ELSE hooks
\* Each hook that was added is an object of its own: one goes.
HookDel(hooks, h) ==
  LET same == {i \in DOMAIN hooks : hooks[i] = h} IN
  IF same = {} THEN hooks ELSE RemoveAt(hooks, CHOOSE i \in same : TRUE)

\* The places of the hooks that are called, in their order.
OnCode(hooks, addr) == {i \in DOMAIN hooks : hooks[i].type = "code" /\ Within(hooks[i], addr)}
OnBlock(hooks, addr) == {i \in DOMAIN hooks : hooks[i].type = "block" /\ Within(hooks[i], addr)}
OnIntr(hooks) == {i \in DOMAIN hooks : hooks[i].type = "intr"}
OnMem(hooks, access, addr) ==
  {i \in DOMAIN hooks : hooks[i].type = "mem" /\ access \in hooks[i].mask /\ Within(hooks[i], addr)}

\* A fault is put to the hooks up to the first that mends it.
OnFault(hooks, addr, menders) ==
  LET asked == {i \in DOMAIN hooks : hooks[i].type = "fault" /\ Within(hooks[i], addr)} IN
  {i \in asked : \A j \in asked : j < i => hooks[j].cb \notin menders}
=============================================================================
