---------------------------- MODULE ChainConfig ----------------------------
(***************************************************************************)
(* The fork schedule of evm/params/config.go: which rules hold at a block, *)
(* the order of the forks, and whether a stored chain can go on under a    *)
(* new schedule or has to be rewound first.                                *)
(***************************************************************************)
EXTENDS Integers, Sequences

CONSTANT Nil      \* a fork that is not scheduled, or an unknown chain id

VARIABLE g

\* The fields of ChainConfig in the order CheckConfigForkOrder lists them.
Forks ==
  <<"homestead", "dao", "eip150", "eip155", "eip158", "byzantium", "constantinople",
    "petersburg", "istanbul", "muirGlacier", "yoloV2">>
optional == {"dao", "muirGlacier"}
Names == {Forks[i] : i \in DOMAIN Forks}

config(block, chainID, support) == [block |-> block, ChainID |-> chainID, DAOForkSupport |-> support]

\* GetChainConfig, MainnetChainConfig and the test configurations.
GetChainConfig(chainId) ==
  config([f \in Names |-> IF f \in {"dao", "yoloV2"} THEN Nil ELSE 0], chainId, TRUE)

isForked(s, head) == s # Nil /\ s <= head

configNumEqual(x, y) == x = y

isForkIncompatible(s1, s2, head) ==
  (isForked(s1, head) \/ isForked(s2, head)) /\ ~configNumEqual(s1, s2)

\* The Is... methods.
Is(c, fork, num) ==
  \/ isForked(c.block[fork], num)
  \/ /\ fork = "petersburg" /\ c.block[fork] = Nil
     /\ isForked(c.block["constantinople"], num)

Rules(c, num) ==
  [ChainID |-> IF c.ChainID = Nil THEN 0 ELSE c.ChainID,
   is |-> [f \in Names \ {"dao", "muirGlacier"} |-> Is(c, f, num)]]

\* CheckConfigForkOrder walks the list with the last fork that counts: an
\* optional fork that is not scheduled is passed over.
CheckConfigForkOrder(c) ==
  LET counts(i) == Forks[i] \notin optional \/ c.block[Forks[i]] # Nil
      lastFork(i) == CHOOSE j \in 1..i - 1 : counts(j) /\ \A k \in j + 1..i - 1 : ~counts(k)
  IN \A i \in 2..Len(Forks) :
       LET last == c.block[Forks[lastFork(i)]]
           cur == c.block[Forks[i]]
       IN /\ last = Nil => cur = Nil
          /\ last # Nil /\ cur # Nil => last <= cur

\* newCompatError: the block before the earlier of the two.
newCompatError(stored, new) ==
  LET rew == CASE stored = Nil -> new
               [] stored # Nil /\ (new = Nil \/ stored < new) -> stored
               [] OTHER -> new
  IN [RewindTo |-> IF rew # Nil /\ rew > 0 THEN rew - 1 ELSE 0]

NoError == [RewindTo |-> Nil]

\* checkCompatible, with what is compared at each fork.
conflicts(c, new, fork, head) ==
  LET at == c.block[fork]
      other == new.block[fork]
  IN \/ /\ isForkIncompatible(at, other, head)
        /\ fork = "petersburg" => isForkIncompatible(c.block["constantinople"], other, head)
     \/ fork = "dao" /\ isForked(at, head) /\ c.DAOForkSupport # new.DAOForkSupport
     \/ fork = "eip158" /\ isForked(at, head) /\ ~configNumEqual(c.ChainID, new.ChainID)

checkCompatible(c, new, head) ==
  LET bad == {i \in DOMAIN Forks : conflicts(c, new, Forks[i], head)}
      first == Forks[CHOOSE i \in bad : \A j \in bad : i <= j]
  IN IF bad = {} THEN NoError ELSE newCompatError(c.block[first], new.block[first])

\* mutant: the first conflict is returned.
CheckCompatible_FirstOnly(c, new, height) == checkCompatible(c, new, height)

\* CheckCompatible goes back until a check passes or finds nothing lower.
CheckCompatible(c, new, height) ==
  LET last[head \in 0..height] ==
        LET err == checkCompatible(c, new, head)
        IN IF err = NoError \/ err.RewindTo = head THEN err
           ELSE LET lower == last[err.RewindTo] IN IF lower = NoError THEN err ELSE lower
  IN last[height]

-----------------------------------------------------------------------------
\* A node starts on a stored chain with a new configuration; when the check
\* fails it rewinds the chain as told and checks again.
InitConfig(configs, heights) ==
  \E c \in configs, new \in configs, h \in heights :
    g = [stored |-> c, new |-> new, height |-> h, err |-> NoError, step |-> "start"]

Check ==
  /\ g.step \in {"start", "rewound"}
  /\ g' = [g EXCEPT !.err = CheckCompatible(g.stored, g.new, g.height),
                    !.step = IF @ = "start" THEN "checked" ELSE "rechecked"]

Rewind ==
  /\ g.step = "checked" /\ g.err # NoError
  /\ g' = [g EXCEPT !.height = g.err.RewindTo, !.step = "rewound"]

NextConfig == Check \/ Rewind

-----------------------------------------------------------------------------
\* The height that CheckCompatible asks for is enough: the check passes on
\* the rewound chain, unless only the genesis block is left.
RewindSuffices == g.step = "rechecked" => g.err = NoError \/ g.height = 0

\* A stored chain accepted under a new schedule, both with their forks in
\* order, keeps the rules of every block it has.  Petersburg is excepted when
\* one schedule leaves it out, which makes it start with Constantinople
\* without checkCompatible seeing it, or the new one moves it there.
PastRulesKept ==
  /\ g.step \in {"checked", "rechecked"} /\ g.err = NoError
  /\ CheckConfigForkOrder(g.stored) /\ CheckConfigForkOrder(g.new)
  => LET old == g.stored.block["petersburg"]
         new == g.new.block["petersburg"]
         excepted == old # new /\ (Nil \in {old, new} \/ new = g.stored.block["constantinople"])
         was(n) == Rules(g.stored, n).is
         is(n) == Rules(g.new, n).is
     IN \A n \in 0..g.height :
          /\ \A f \in DOMAIN was(n) : was(n)[f] = is(n)[f] \/ (f = "petersburg" /\ excepted)
          /\ was(n)["eip158"] => g.stored.ChainID = g.new.ChainID

\* Under an order that CheckConfigForkOrder accepts a block never has the
\* rules of a fork without those of the forks before it.
RulesCumulative ==
  CheckConfigForkOrder(g.stored) =>
    \A i, j \in DOMAIN Forks :
      i < j /\ Forks[i] \notin optional /\ Is(g.stored, Forks[j], g.height) =>
        Is(g.stored, Forks[i], g.height)
=============================================================================
