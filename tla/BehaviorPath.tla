----------------------------- MODULE BehaviorPath -----------------------------
(* `behavior` (src/cmd/behavior.go): the rollout from current to desired that the
   rate policies permit, as a walk of evaluations.  A walk remembers every change
   it made, because a policy limits the changes of its own period only.

   A walk is [from, desired, rules, replicas, now, history, path]; path is what the
   user sees, a sequence of [time, replicas].                                  *)
EXTENDS HpaObject

\* Of a direction: no stabilization unless configured, and no default policies.
Described(rules) ==
  IF rules = Unset THEN [window |-> 0, select |-> "Max", policies |-> <<>>]
  ELSE [window   |-> IF rules.window = Unset THEN 0 ELSE rules.window,
        select   |-> IF rules.select = Unset THEN "Max" ELSE rules.select,
        policies |-> IF rules.policies = Unset THEN <<>> ELSE rules.policies]

Rising(w)  == w.desired > w.from
Usable(w)  == SelectSeq(w.rules.policies, LAMBDA p : p.period > 0)
Periods(w) == {p.period : p \in Range(Usable(w))}

Divides(d, n) == n % d = 0
TickOf(w) == Max({d \in 1..Min(Periods(w)) : \A p \in Periods(w) : Divides(d, p)})

Horizon(w) == w.rules.window + 20 * Min(Periods(w))

\* Nothing to walk, or a walk of a single point.
Immediate(w) ==
  \/ w.from <= 0 \/ w.desired <= 0 \/ w.from = w.desired
  \/ w.rules.select = "Disabled" \/ Periods(w) = {}
ImmediatePath(w) ==
  IF w.from <= 0 \/ w.desired <= 0 \/ w.from = w.desired THEN <<>>
  ELSE <<[time |-> 0, replicas |-> IF w.rules.select = "Disabled" THEN w.from ELSE w.desired]>>

\* The first evaluation is one shortest period after the stabilization window.
WalkOf(h) ==
  LET w == [from |-> h.current, desired |-> h.desired, replicas |-> h.current,
            rules |-> Described(IF ~h.behavior THEN Unset
                                ELSE IF h.desired < h.current THEN h.down ELSE h.up),
            now |-> 0, history |-> <<>>, path |-> <<>>]
  IN  IF Immediate(w) THEN [w EXCEPT !.path = ImmediatePath(w)]
      ELSE [w EXCEPT !.now = w.rules.window + Min(Periods(w))]

LimitNow(w) == Limit(w.replicas, Rising(w), w.rules.select, Usable(w), w.now, w.history)

Walking(w) ==
  ~Immediate(w) /\ w.now <= Horizon(w) /\ w.replicas # w.desired /\ LimitNow(w) # {}

\* One evaluation: as far as the policies let it, never past the target.
Evaluate(w) ==
  LET limit == CHOOSE n \in LimitNow(w) : TRUE
      next  == IF Rising(w) THEN Min({w.desired, limit}) ELSE Max({w.desired, limit})
      later == [w EXCEPT !.now = w.now + TickOf(w)]
  IN  IF next = w.replicas THEN later
      ELSE [later EXCEPT !.replicas = next,
                         !.history = Append(w.history, [time |-> w.now, change |-> next - w.replicas]),
                         !.path = Append(w.path, [time |-> w.now, replicas |-> next])]

=============================================================================
