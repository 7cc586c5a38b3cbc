------------------------------- MODULE MCDataPlane -------------------------------
(***************************************************************************)
(* A day of three ticks, two lights and a lock, and five restrictions: a   *)
(* limit on actions, a schedule over midnight, a cooldown with a longer    *)
(* memory than its own limit's window, a PIN and an expiry.                *)
(***************************************************************************)
EXTENDS DataPlane, TLC

CONSTANTS kitchen, hall, door, light, lock, on, open, room, elsewhere, k1, k2, k3

MCEntities == {kitchen, hall, door}
MCDomainOf == [e \in MCEntities |-> IF e = door THEN lock ELSE light]
MCMembersOf == [g \in {room} |-> {hall, door}]
MCManifest ==
  [read_entities    |-> {<<light, Star>>},
   subscriptions    |-> {<<lock, door>>},
   history          |-> {<<light, kitchen>>, <<light, hall>>},
   camera_snapshots |-> {<<Star, Star>>},
   actions          |-> {<<light, Star, Star>>, <<lock, open, door>>, <<Star, Star, hall>>}]

MCRules ==
  << [type |-> "rate", limit |-> 2, window_seconds |-> 3, cooldown_seconds |-> 0,
      applies_to |-> [form |-> "any", ops |-> {"action"}, actions |-> {}]],
     [type |-> "schedule", days |-> {}, start_time |-> 2, end_time |-> 0,
      applies_to |-> [form |-> "any", ops |-> {"subscribe"},
                      actions |-> {<<light, on, kitchen>>, <<light, Star, hall>>}]],
     [type |-> "rate", limit |-> 1, window_seconds |-> 1, cooldown_seconds |-> 2,
      applies_to |-> [form |-> "all", ops |-> {}, actions |-> {},
                      entities |-> {<<light, Star>>}]],
     [type |-> "pin",
      applies_to |-> [form |-> "any", ops |-> {}, actions |-> {<<lock, Star, door>>}]],
     [type |-> "expiry", expires_at |-> 2,
      applies_to |-> [form |-> "any", ops |-> {"read", "history"}, actions |-> {}]] >>

Data(op, wanted) ==
  [op |-> op, wanted |-> wanted, groups |-> {}, domain |-> None, service |-> None, met |-> {}]
Action(d, s, wanted, groups, met) ==
  [op |-> "action", wanted |-> wanted, groups |-> groups, domain |-> d, service |-> s, met |-> met]

MCMessages ==
  {Data("read", {<<light, Star>>}), Data("read", {<<lock, door>>}),
   Data("subscribe", {<<Star, Star>>}), Data("subscribe", {<<light, hall>>, <<lock, door>>}),
   Data("history", {<<light, kitchen>>, <<light, hall>>}),
   Data("history", {<<light, kitchen>>, <<light, hall>>, <<lock, door>>}),
   Data("camera", {<<lock, door>>}), Data("other", {}),
   Action(light, on, {<<light, kitchen>>, <<light, hall>>}, {}, {}),
   Action(light, on, {}, {}, {}), Action(light, on, {}, {elsewhere}, {}),
   Action(lock, open, {}, {room}, {4}), Action(lock, open, {<<lock, door>>}, {}, {}),
   Action(lock, open, {<<lock, door>>, <<light, hall>>}, {}, {4})}

MCSettings == {1..4, 2..4, {1, 2, 4, 5}, {1, 3}}

MCSymmetry == Permutations(Calls)
=============================================================================
