---------------------------- MODULE PlatformProofs ----------------------------
(***************************************************************************)
(* What is proved of accounts, sessions and roles, of numbers, of cold     *)
(* starts and of access grids, beside everything else that runs.  A task   *)
(* is a list of steps; TaskInv says which lists there are, and that an     *)
(* import is alone with tasks that write grids.  The other invariants say  *)
(* what a request or a task in flight counts on, by the steps it has left: *)
(* RuleInv of the rule numbers are taken from, AccountInv of accounts,     *)
(* SeedInv of what a cold start has made, GridInv of the rows a grid will  *)
(* have once those under way are written.                                  *)
(***************************************************************************)
EXTENDS Platform, FiniteSetTheorems, TLAPS

GridDo ==
  {"migrate", "ensure", "redefine", "put", "edit", "note", "save", "clear", "remember",
   "drop grid", "drop role"}
SeedDo == {"seed role", "seed rule", "seed settings", "seed admin", "ensure all"}
ServeDo == {"ensure", "put", "ready"}
ImportDo ==
  {"wipe accounts", "wipe roles", "wipe lists", "bring role", "bring user", "bring hold",
   "bring grid", "bring lookup", "bring row", "know users", "bring log", "bring settings",
   "bring rule", "reconcile"}

\* Only system roles are seeded, and they are not dropped; what is put in a row is a
\* grant.
Good(x) ==
  /\ x.do \in {"drop grid", "drop role"} => x.role \notin System
  /\ x.do = "seed role" => x.role \in System
  /\ x.do \in {"put", "edit"} => x.grant # Nothing
  /\ x.do \in {"redefine", "bring grid"} => x.role \in RoleIds

List(s, D) ==
  /\ s \in Seq({s[k] : k \in DOMAIN s})
  /\ \A k \in DOMAIN s : s[k].do \in D /\ Good(s[k])

EndsWith(s, step) == s # <<>> /\ \A k \in DOMAIN s : s[k].do = step <=> k = Len(s)
Steps(s) == {s[k] : k \in DOMAIN s}
Carries(s, step) == \E x \in Steps(s) : x.do = step

OnRule(x) == x.do = "bring rule"
OnLists(x) == x.do = "wipe lists"

\* The lists of steps there are: those of requests and scripts about grids, a cold
\* start before and after it asks for the roles' grids, a number, an import.
GridList(s)   == List(s, GridDo)
SeedList(s)   == List(s, SeedDo) /\ EndsWith(s, "ensure all")
ServeList(s)  == List(s, ServeDo) /\ EndsWith(s, "ready")
NumberList(s) == List(s, {"number"}) /\ EndsWith(s, "number")
ImportList(s) ==
  /\ List(s, ImportDo \cup {"put"}) /\ EndsWith(s, "reconcile")
  /\ \A j, k \in DOMAIN s : j < k /\ OnRule(s[j]) => ~OnRule(s[k]) /\ ~OnLists(s[k])

LEMMA ListFrom ==
  ASSUME NEW D, NEW S, NEW s \in Seq(S), \A x \in S : x.do \in D /\ Good(x)
  PROVE  List(s, D)
<1>1. s \in Seq({s[k] : k \in DOMAIN s})
  OBVIOUS
<1>2. \A k \in DOMAIN s : s[k] \in S
  OBVIOUS
<1>. QED
  BY <1>1, <1>2 DEF List

LEMMA ListIs ==
  ASSUME NEW D, NEW s, List(s, D)
  PROVE  /\ Len(s) \in Nat /\ DOMAIN s = 1..Len(s) /\ (s = <<>> <=> Len(s) = 0)
         /\ s # <<>> => /\ Len(s) > 0 /\ Head(s) = s[1] /\ Head(s).do \in D /\ Good(Head(s))
                        /\ Len(s) \in DOMAIN s /\ 1 \in DOMAIN s
<1>. PICK S : S = {s[k] : k \in DOMAIN s}
  OBVIOUS
<1>1. s \in Seq(S)
  BY DEF List
<1>2. Len(s) \in Nat /\ DOMAIN s = 1..Len(s) /\ (s = <<>> <=> Len(s) = 0)
  BY <1>1
<1>3. s # <<>> => Len(s) > 0 /\ Head(s) = s[1] /\ Len(s) \in DOMAIN s /\ 1 \in DOMAIN s
  BY <1>1
<1>. QED
  BY <1>2, <1>3 DEF List

\* What is left of s when its head is done and the steps of m come first.
Splice(t, m, s) ==
  /\ Len(t) = Len(m) + Len(s) - 1
  /\ \A k \in 1..Len(m) : k \in DOMAIN t /\ t[k] = m[k]
  /\ \A k \in DOMAIN s : k > 1 => Len(m) + k - 1 \in DOMAIN t /\ t[Len(m) + k - 1] = s[k]
  /\ \A k \in DOMAIN t :
       k <= Len(m) \/ (k - Len(m) + 1 \in DOMAIN s /\ k - Len(m) + 1 > 1
                        /\ t[k] = s[k - Len(m) + 1])

LEMMA Spliced ==
  ASSUME NEW D, NEW E, NEW s, List(s, D), s # <<>>, NEW m, List(m, E),
         NEW t, t = m \o Tail(s)
  PROVE  List(t, D \cup E) /\ Splice(t, m, s)
<1>. PICK S : S = {s[k] : k \in DOMAIN s} \cup {m[k] : k \in DOMAIN m}
  OBVIOUS
<1>1. s \in Seq(S) /\ m \in Seq(S)
  BY DEF List
<1>2. t \in Seq(S) /\ Tail(s) \in Seq(S) /\ Len(Tail(s)) = Len(s) - 1 /\ Len(s) > 0
  BY <1>1
<1>3. \A k \in 1..(Len(s) - 1) : Tail(s)[k] = s[k + 1]
  BY <1>1
<1>4. \A x \in S : x.do \in D \cup E /\ Good(x)
  BY DEF List
<1>5. List(t, D \cup E)
  BY <1>2, <1>4, ListFrom
<1>6. Len(t) = Len(m) + Len(s) - 1
  BY <1>1, <1>2
<1>7. \A k \in 1..Len(m) : k \in DOMAIN t /\ t[k] = m[k]
  BY <1>1, <1>2
<1>8. \A k \in 1..(Len(s) - 1) : t[Len(m) + k] = s[k + 1]
  <2>. TAKE k \in 1..(Len(s) - 1)
  <2>1. t[Len(m) + k] = Tail(s)[k]
    BY <1>1, <1>2
  <2>. QED
    BY <1>3, <2>1
<1>9. DOMAIN t = 1..(Len(m) + Len(s) - 1) /\ DOMAIN s = 1..Len(s) /\ Len(m) \in Nat /\ Len(s) \in Nat
  BY <1>1, <1>2, <1>6
<1>10. \A k \in DOMAIN s : k > 1 => Len(m) + k - 1 \in DOMAIN t /\ t[Len(m) + k - 1] = s[k]
  <2>. SUFFICES ASSUME NEW k \in DOMAIN s, k > 1
                PROVE  Len(m) + k - 1 \in DOMAIN t /\ t[Len(m) + k - 1] = s[k]
    OBVIOUS
  <2>1. k - 1 \in 1..(Len(s) - 1) /\ Len(m) + (k - 1) = Len(m) + k - 1 /\ (k - 1) + 1 = k
    BY <1>9
  <2>2. t[Len(m) + (k - 1)] = s[(k - 1) + 1]
    BY <1>8, <2>1
  <2>. QED
    BY <1>9, <2>1, <2>2
<1>11. ASSUME NEW k \in DOMAIN t, k > Len(m)
       PROVE  k - Len(m) + 1 \in DOMAIN s /\ k - Len(m) + 1 > 1 /\ t[k] = s[k - Len(m) + 1]
  <2>1. k - Len(m) \in 1..(Len(s) - 1) /\ Len(m) + (k - Len(m)) = k
    BY <1>9, <1>11
  <2>2. t[Len(m) + (k - Len(m))] = s[(k - Len(m)) + 1]
    BY <1>8, <2>1
  <2>. QED
    BY <1>9, <2>1, <2>2
<1>12. \A k \in DOMAIN t : k <= Len(m) \/ k > Len(m)
  BY <1>9
<1>. QED
  BY <1>5, <1>6, <1>7, <1>10, <1>11, <1>12 DEF Splice

LEMMA ListJoin ==
  ASSUME NEW D, NEW s, NEW t, List(s, D), List(t, D)
  PROVE  List(s \o t, D)
<1>. PICK S : S = {s[k] : k \in DOMAIN s} \cup {t[k] : k \in DOMAIN t}
  OBVIOUS
<1>1. s \in Seq(S) /\ t \in Seq(S)
  BY DEF List
<1>2. s \o t \in Seq(S)
  BY <1>1
<1>3. \A x \in S : x.do \in D /\ Good(x)
  BY DEF List
<1>. QED
  BY <1>2, <1>3, ListFrom

LEMMA ListWider ==
  ASSUME NEW D, NEW E, D \subseteq E, NEW s, List(s, D)
  PROVE  List(s, E)
BY DEF List

LEMMA ListShort ==
  ASSUME NEW D
  PROVE  /\ List(<<>>, D)
         /\ \A a : a.do \in D /\ Good(a) => List(<<a>>, D)
         /\ \A a, b : a.do \in D /\ Good(a) /\ b.do \in D /\ Good(b) => List(<<a, b>>, D)
<1>1. List(<<>>, D)
  BY DEF List
<1>2. ASSUME NEW a, a.do \in D /\ Good(a) PROVE List(<<a>>, D)
  BY <1>2 DEF List
<1>3. ASSUME NEW a, NEW b, a.do \in D /\ Good(a) /\ b.do \in D /\ Good(b) PROVE List(<<a, b>>, D)
  BY <1>3 DEF List
<1>. QED
  BY <1>1, <1>2, <1>3

LEMMA ListOf ==
  ASSUME NEW S, IsFiniteSet(S)
  PROVE  /\ SetToSeq(S) \in Seq(S)
         /\ \A x \in S : \E k \in DOMAIN SetToSeq(S) : SetToSeq(S)[k] = x
<1>. PICK n : n = Cardinality(S)
  OBVIOUS
<1>1. PICK f \in [1..n -> S] : IsInjective(f)
  <2>1. PICK k \in Nat : ExistsBijection(1..k, S)
    BY FS_NatBijection
  <2>2. k = n
    BY <2>1, FS_CountingElements
  <2>. QED
    BY <2>1, <2>2 DEF ExistsBijection, Bijection, Injection, IsInjective
<1>2. PICK q : q = SetToSeq(S)
  OBVIOUS
<1>3. q \in [1..n -> S] /\ IsInjective(q)
  BY <1>1, <1>2 DEF SetToSeq
<1>4. n \in Nat
  BY FS_CardinalityType
<1>5. q \in Injection(1..n, S)
  BY <1>3 DEF Injection, IsInjective
<1>6. Cardinality(1..n) = n
  BY <1>4, FS_Interval
<1>7. q \in Surjection(1..n, S)
  BY <1>5, <1>6, FS_Injection
<1>. QED
  BY <1>2, <1>3, <1>4, <1>7 DEF Surjection

LEMMA StepsJoined ==
  ASSUME NEW S, NEW s \in Seq(S), NEW t \in Seq(S)
  PROVE  Steps(s \o t) = Steps(s) \cup Steps(t)
<1>1. \A k \in DOMAIN s : k \in DOMAIN (s \o t) /\ (s \o t)[k] = s[k]
  OBVIOUS
<1>2. \A k \in DOMAIN t : Len(s) + k \in DOMAIN (s \o t) /\ (s \o t)[Len(s) + k] = t[k]
  OBVIOUS
<1>3. \A k \in DOMAIN (s \o t) :
        (k \in DOMAIN s /\ (s \o t)[k] = s[k])
        \/ (k - Len(s) \in DOMAIN t /\ (s \o t)[k] = t[k - Len(s)])
  OBVIOUS
<1>4. Steps(s \o t) \subseteq Steps(s) \cup Steps(t)
  <2>. SUFFICES ASSUME NEW k \in DOMAIN (s \o t) PROVE (s \o t)[k] \in Steps(s) \cup Steps(t)
    BY DEF Steps
  <2>. QED
    BY <1>3 DEF Steps
<1>5. Steps(s) \subseteq Steps(s \o t)
  <2>. SUFFICES ASSUME NEW k \in DOMAIN s PROVE s[k] \in Steps(s \o t)
    BY DEF Steps
  <2>. QED
    BY <1>1 DEF Steps
<1>6. Steps(t) \subseteq Steps(s \o t)
  <2>. SUFFICES ASSUME NEW k \in DOMAIN t PROVE t[k] \in Steps(s \o t)
    BY DEF Steps
  <2>. QED
    BY <1>2 DEF Steps
<1>. QED
  BY <1>4, <1>5, <1>6

Mixed(t, m, s) ==
  /\ \A x : x \in Steps(t) <=> x \in Steps(m) \/ x \in Steps(Tail(s))
  /\ \A x : x \in Steps(s) <=> x = Head(s) \/ x \in Steps(Tail(s))

LEMMA StepsSpliced ==
  ASSUME NEW D, NEW E, NEW s, List(s, D), s # <<>>, NEW m, List(m, E),
         NEW t, t = m \o Tail(s)
  PROVE  Mixed(t, m, s)
<1>. PICK S : S = {s[k] : k \in DOMAIN s} \cup {m[k] : k \in DOMAIN m}
  OBVIOUS
<1>1. s \in Seq(S) /\ m \in Seq(S)
  BY DEF List
<1>2. /\ Tail(s) \in Seq(S) /\ Len(Tail(s)) = Len(s) - 1 /\ Len(s) > 0
      /\ \A k \in 1..(Len(s) - 1) : Tail(s)[k] = s[k + 1]
  BY <1>1
<1>3. Steps(s) = {Head(s)} \cup Steps(Tail(s))
  <2>1. \A k \in DOMAIN s : k = 1 \/ (k - 1 \in DOMAIN Tail(s) /\ s[k] = Tail(s)[k - 1])
    BY <1>1, <1>2
  <2>2. \A k \in DOMAIN Tail(s) : k + 1 \in DOMAIN s /\ s[k + 1] = Tail(s)[k]
    BY <1>1, <1>2
  <2>3. 1 \in DOMAIN s /\ Head(s) = s[1]
    BY <1>1
  <2>4. Steps(s) \subseteq {Head(s)} \cup Steps(Tail(s))
    <3>. SUFFICES ASSUME NEW k \in DOMAIN s PROVE s[k] \in {Head(s)} \cup Steps(Tail(s))
      BY DEF Steps
    <3>. QED
      BY <2>1, <2>3 DEF Steps
  <2>5. Steps(Tail(s)) \subseteq Steps(s)
    <3>. SUFFICES ASSUME NEW k \in DOMAIN Tail(s) PROVE Tail(s)[k] \in Steps(s)
      BY DEF Steps
    <3>. QED
      BY <2>2 DEF Steps
  <2>6. Head(s) \in Steps(s)
    BY <2>3 DEF Steps
  <2>. QED
    BY <2>4, <2>5, <2>6
<1>4. Steps(m \o Tail(s)) = Steps(m) \cup Steps(Tail(s))
  BY ZenonT(40), <1>1, <1>2, StepsJoined
<1>. QED
  BY <1>3, <1>4 DEF Mixed

LEMMA KindKept ==
  ASSUME NEW D, NEW E, E \subseteq D, NEW last, last \notin E,
         NEW s, List(s, D), EndsWith(s, last), Head(s).do # last, NEW m, List(m, E),
         NEW t, t = m \o Tail(s)
  PROVE  List(t, D) /\ EndsWith(t, last)
<1>0. s # <<>>
  BY DEF EndsWith
<1>1. List(t, D \cup E) /\ Splice(t, m, s)
  BY <1>0, Spliced
<1>2. D \cup E = D
  OBVIOUS
<1>3. /\ Len(m) \in Nat /\ DOMAIN m = 1..Len(m) /\ Len(s) \in Nat /\ DOMAIN s = 1..Len(s)
      /\ Len(t) \in Nat /\ DOMAIN t = 1..Len(t)
      /\ 1 \in DOMAIN s /\ Head(s) = s[1] /\ Len(s) \in DOMAIN s
  BY <1>1, ListIs DEF EndsWith
<1>4. Len(s) > 1 /\ s[Len(s)].do = last
  <2>1. s[1].do # last /\ s[Len(s)].do = last
    BY <1>3 DEF EndsWith
  <2>. QED
    BY <1>3, <2>1
<1>5. t # <<>>
  BY <1>1, <1>3, <1>4, ListIs DEF Splice
<1>6. ASSUME NEW k \in DOMAIN t PROVE t[k].do = last <=> k = Len(t)
  <2>1. CASE k <= Len(m)
    <3>1. t[k] = m[k] /\ m[k].do \in E /\ k # Len(t)
      BY <1>1, <1>3, <1>4, <2>1 DEF List, Splice
    <3>. QED
      BY <3>1
  <2>2. CASE k - Len(m) + 1 \in DOMAIN s /\ t[k] = s[k - Len(m) + 1]
    <3>1. s[k - Len(m) + 1].do = last <=> k - Len(m) + 1 = Len(s)
      BY <2>2 DEF EndsWith
    <3>2. k - Len(m) + 1 = Len(s) <=> k = Len(t)
      BY <1>1, <1>3 DEF Splice
    <3>. QED
      BY <2>2, <3>1, <3>2
  <2>. QED
    BY <1>1, <2>1, <2>2 DEF Splice
<1>. QED
  BY <1>1, <1>2, <1>5, <1>6 DEF EndsWith

LEMMA KindOver ==
  ASSUME NEW D, NEW last, NEW s, List(s, D), EndsWith(s, last), Head(s).do = last
  PROVE  Tail(s) = <<>>
<1>. PICK S : S = {s[k] : k \in DOMAIN s}
  OBVIOUS
<1>1. s \in Seq(S)
  BY DEF List
<1>2. Len(s) = 1
  <2>1. s # <<>> /\ \A k \in DOMAIN s : s[k].do = last <=> k = Len(s)
    BY DEF EndsWith
  <2>2. 1 \in DOMAIN s /\ s[1].do = last
    BY <2>1, ListIs
  <2>. QED
    BY <2>1, <2>2
<1>3. s # <<>>
  BY DEF EndsWith
<1>. PICK t : t = Tail(s)
  OBVIOUS
<1>4. t \in Seq(S) /\ Len(t) = 0
  BY <1>1, <1>2, <1>3
<1>. QED
  BY <1>4

---- \* The lists tasks are made of

Plainly == {"drop grid", "drop role", "seed role", "put", "edit", "redefine", "bring grid"}

LEMMA SeedStepIs ==
  ASSUME NEW r \in System
  PROVE  Do("seed role", r).do = "seed role" /\ Good(Do("seed role", r))
<1>. PICK t : t = Do("seed role", r)
  OBVIOUS
<1>1. t.do = "seed role" /\ t.role = r
  BY DEF Do
<1>2. Good(t)
  BY <1>1 DEF Good
<1>. QED
  BY <1>1, <1>2

LEMMA DropStepIs ==
  ASSUME NEW x \in {"drop grid", "drop role"}, NEW r, r \notin System
  PROVE  Do(x, r).do = x /\ Good(Do(x, r))
<1>. PICK t : t = Do(x, r)
  OBVIOUS
<1>1. t.do = x /\ t.role = r
  BY DEF Do
<1>2. Good(t)
  BY <1>1 DEF Good
<1>. QED
  BY <1>1, <1>2

LEMMA GridStepIs ==
  ASSUME NEW x \in {"redefine", "bring grid"}, NEW r \in RoleIds
  PROVE  Do(x, r).do = x /\ Good(Do(x, r))
<1>. PICK t : t = Do(x, r)
  OBVIOUS
<1>1. t.do = x /\ t.role = r
  BY DEF Do
<1>2. Good(t)
  BY <1>1 DEF Good
<1>. QED
  BY <1>1, <1>2

LEMMA PlainDo ==
  ASSUME NEW x, x \notin Plainly, NEW r
  PROVE  Do(x, r).do = x /\ Do(x, r).role = r /\ Good(Do(x, r))
<1>. PICK t : t = Do(x, r)
  OBVIOUS
<1>1. t.do = x /\ t.role = r
  BY DEF Do
<1>2. Good(t)
  BY <1>1 DEF Good, Plainly
<1>. QED
  BY <1>1, <1>2

LEMMA GrantIs ==
  ASSUME NEW x, x \notin Plainly, NEW r, NEW g, NEW t, t = [Do(x, r) EXCEPT !.grant = g]
  PROVE  t.do = x /\ t.role = r /\ t.grant = g /\ Good(t)
<1>1. t.do = x /\ t.role = r /\ t.grant = g
  BY DEF Do
<1>. QED
  BY <1>1 DEF Good, Plainly

LEMMA ListEach ==
  ASSUME NEW D, NEW S, NEW things \in Seq(S), NEW step \in D, \A x \in S : Good(Do(step, x))
  PROVE  List(Each(step, things), D)
<1>. PICK T : T = {Do(step, x) : x \in S}
  OBVIOUS
<1>1. Each(step, things) \in Seq(T)
  BY DEF Each
<1>2. ASSUME NEW x \in S PROVE Do(step, x).do \in D /\ Good(Do(step, x))
  BY DEF Do
<1>3. \A x \in T : x.do \in D /\ Good(x)
  BY <1>2
<1>. QED
  BY <1>1, <1>3, ListFrom

LEMMA ListAll ==
  ASSUME NEW D, NEW S, IsFiniteSet(S), NEW step \in D, \A x \in S : Good(Do(step, x))
  PROVE  /\ List(All(step, S), D)
         /\ \A x \in S : Do(step, x) \in Steps(All(step, S))
<1>. PICK q : q = SetToSeq(S)
  OBVIOUS
<1>1. q \in Seq(S) /\ \A x \in S : \E k \in DOMAIN q : q[k] = x
  BY ListOf
<1>2. List(Each(step, q), D)
  BY <1>1, ListEach
<1>3. ASSUME NEW x \in S PROVE Do(step, x) \in Steps(Each(step, q))
  <2>1. PICK k \in DOMAIN q : q[k] = x
    BY <1>1
  <2>2. k \in DOMAIN Each(step, q) /\ Each(step, q)[k] = Do(step, x)
    BY <2>1 DEF Each
  <2>. QED
    BY <2>2 DEF Steps
<1>. QED
  BY <1>2, <1>3 DEF All

LEMMA ListPuts ==
  ASSUME NEW M, IsFiniteSet(M), NEW r, NEW g, \A m \in M : g[m] # Nothing
  PROVE  /\ List(Puts(r, M, g), {"put"}) /\ List(Edits(r, M, g), {"edit"})
         /\ \A m \in M : Put(r, m, g[m]) \in Steps(Puts(r, M, g))
<1>. PICK order : order = SetToSeq(M)
  OBVIOUS
<1>. PICK T : T = {Put(r, m, g[m]) : m \in M}
  OBVIOUS
<1>. PICK puts : puts = Puts(r, M, g)
  OBVIOUS
<1>1. order \in Seq(M) /\ \A m \in M : \E k \in DOMAIN order : order[k] = m
  BY ListOf
<1>2. puts = [k \in DOMAIN order |-> Put(r, order[k], g[order[k]])]
  BY DEF Puts
<1>3. puts \in Seq(T)
  BY <1>1, <1>2
<1>4. \A x \in T : x.do = "put" /\ Good(x)
  <2>. SUFFICES ASSUME NEW m \in M PROVE Put(r, m, g[m]).do = "put" /\ Good(Put(r, m, g[m]))
    OBVIOUS
  <2>1. Put(r, m, g[m]).do = "put" /\ Put(r, m, g[m]).grant = g[m]
    BY DEF Put
  <2>. QED
    BY <2>1 DEF Good
<1>. PICK U : U = {[x EXCEPT !.do = "edit"] : x \in T}
  OBVIOUS
<1>5. [k \in DOMAIN puts |-> [puts[k] EXCEPT !.do = "edit"]] \in Seq(U)
  BY <1>3
<1>6. \A x \in U : x.do = "edit" /\ Good(x)
  <2>. SUFFICES ASSUME NEW m \in M, NEW x, x = [Put(r, m, g[m]) EXCEPT !.do = "edit"]
                PROVE  x.do = "edit" /\ Good(x)
    OBVIOUS
  <2>1. x.do = "edit" /\ x.grant = g[m]
    BY DEF Put
  <2>. QED
    BY <2>1 DEF Good
<1>7. List([k \in DOMAIN puts |-> [puts[k] EXCEPT !.do = "edit"]], {"edit"})
  BY <1>5, <1>6, ListFrom
<1>8. List(puts, {"put"})
  BY <1>3, <1>4, ListFrom
<1>9. ASSUME NEW m \in M PROVE Put(r, m, g[m]) \in Steps(puts)
  <2>1. PICK k \in DOMAIN order : order[k] = m
    BY <1>1
  <2>2. k \in DOMAIN puts /\ puts[k] = Put(r, m, g[m])
    BY <1>2, <2>1
  <2>. QED
    BY <2>2 DEF Steps
<1>. QED
  BY <1>7, <1>8, <1>9 DEF Edits

Kind(s) == GridList(s) \/ SeedList(s) \/ ServeList(s) \/ NumberList(s) \/ ImportList(s)

LEMMA Kinds ==
  ASSUME NEW s
  PROVE  /\ ~(GridList(s) /\ (SeedList(s) \/ ServeList(s) \/ NumberList(s) \/ ImportList(s)))
         /\ ~(SeedList(s) /\ (ServeList(s) \/ NumberList(s) \/ ImportList(s)))
         /\ ~(ServeList(s) /\ (NumberList(s) \/ ImportList(s)))
         /\ ~(NumberList(s) /\ ImportList(s))
<1>1. \A D, last : List(s, D) /\ EndsWith(s, last) => last \in D /\ \E k \in DOMAIN s : s[k].do = last
  <2>. SUFFICES ASSUME NEW D, NEW last, List(s, D), EndsWith(s, last)
                PROVE  last \in D /\ \E k \in DOMAIN s : s[k].do = last
    OBVIOUS
  <2>1. s # <<>> /\ \A k \in DOMAIN s : s[k].do = last <=> k = Len(s)
    BY DEF EndsWith
  <2>2. Len(s) \in DOMAIN s
    BY <2>1, ListIs
  <2>. QED
    BY <2>1, <2>2 DEF List
<1>2. \A D, E, last : List(s, D) /\ EndsWith(s, last) /\ List(s, E) => last \in E
  BY <1>1 DEF List
<1>. QED
  BY <1>2 DEF GridList, SeedList, ServeList, NumberList, ImportList, GridDo, SeedDo, ServeDo, ImportDo

LEMMA NoSteps == GridList(<<>>) /\ Steps(<<>>) = {}
BY ListShort DEF GridList, Steps

---- \* What tasks are, and how they move

Tasks == Desks \cup Scripts
IsTask(t) == \E s, m : t = [todo |-> s, marks |-> m]

TaskForm ==
  /\ task = [w \in Tasks |-> task[w]] /\ DOMAIN task = Tasks
  /\ \A w \in Tasks : IsTask(task[w])

Todo(w) == task[w].todo

\* Task w goes on with the steps s; the others are not touched.
Turns(w, s) ==
  /\ TaskForm' /\ Todo(w)' = s
  /\ \A v \in Tasks \ {w} : task'[v] = task[v]

LEMMA PutIs ==
  ASSUME TaskForm, NEW w \in Tasks, NEW t, IsTask(t), task' = [task EXCEPT ![w] = t]
  PROVE  Turns(w, t.todo)
<1>1. /\ task'[w] = t /\ \A v \in Tasks \ {w} : task'[v] = task[v]
      /\ DOMAIN task' = Tasks /\ task' = [v \in Tasks |-> task'[v]]
  BY DEF TaskForm
<1>. QED
  BY <1>1 DEF TaskForm, Turns, Todo

LEMMA ChangeIs ==
  ASSUME TaskForm, NEW w \in Tasks, NEW s, NEW m,
         task' = [task EXCEPT ![w].todo = s, ![w].marks = m]
  PROVE  Turns(w, s)
<1>. PICK g : g = [task EXCEPT ![w].todo = s]
  OBVIOUS
<1>1. task' = [g EXCEPT ![w].marks = m]
  OBVIOUS
<1>2. PICK a, b : task[w] = [todo |-> a, marks |-> b]
  BY DEF TaskForm, IsTask
<1>3. /\ \A v \in Tasks \ {w} : g[v] = task[v]
      /\ DOMAIN g = Tasks /\ g[w] = [task[w] EXCEPT !.todo = s]
      /\ g = [v \in Tasks |-> g[v]]
  BY DEF TaskForm
<1>4. g[w] = [todo |-> s, marks |-> b]
  BY <1>2, <1>3
<1>5. task'[w] = [g[w] EXCEPT !.marks = m]
  BY <1>1, <1>3
<1>6. task'[w] = [todo |-> s, marks |-> m]
  BY <1>4, <1>5
<1>7. /\ \A v \in Tasks \ {w} : task'[v] = task[v]
      /\ DOMAIN task' = Tasks /\ task' = [v \in Tasks |-> task'[v]]
  BY <1>1, <1>3
<1>. PICK t : t = [todo |-> s, marks |-> m]
  OBVIOUS
<1>8. IsTask(t) /\ t.todo = s
  BY DEF IsTask
<1>. QED
  BY <1>6, <1>7, <1>8 DEF TaskForm, Turns, Todo

LEMMA FreeIs == IsTask(Free) /\ Free.todo = <<>>
BY DEF IsTask, Free

LEMMA StartIs ==
  ASSUME TaskForm, NEW w \in Tasks, NEW s, Start(w, s)
  PROVE  Turns(w, s) /\ Todo(w) = <<>>
BY ChangeIs, FreeIs DEF Start, Todo

LEMMA DiesIs ==
  ASSUME TaskForm, NEW w \in Tasks, task' = [task EXCEPT ![w] = Free]
  PROVE  Turns(w, <<>>)
BY PutIs, FreeIs

LEMMA NewTodo ==
  ASSUME NEW t, IsTask(t), NEW s
  PROVE  IsTask([t EXCEPT !.todo = s]) /\ [t EXCEPT !.todo = s].todo = s
<1>1. PICK a, b : t = [todo |-> a, marks |-> b]
  BY DEF IsTask
<1>2. [t EXCEPT !.todo = s] = [todo |-> s, marks |-> b]
  BY <1>1
<1>. PICK u : u = [todo |-> s, marks |-> b]
  OBVIOUS
<1>3. IsTask(u) /\ u.todo = s
  BY DEF IsTask
<1>. QED
  BY <1>2, <1>3

LEMMA GoesIs ==
  ASSUME TaskForm, NEW w \in Tasks, NEW m, Goes(w, m)
  PROVE  Turns(w, m \o Tail(Todo(w)))
<1>. PICK left : left = m \o Tail(task[w].todo)
  OBVIOUS
<1>. PICK t : t = [task[w] EXCEPT !.todo = left]
  OBVIOUS
<1>1. IsTask(t) /\ t.todo = left
  BY NewTodo DEF TaskForm
<1>2. task' = [task EXCEPT ![w] = IF left = <<>> THEN Free ELSE t]
  BY DEF Goes
<1>4. CASE left = <<>>
  BY <1>2, <1>4, DiesIs DEF Todo
<1>5. CASE left # <<>>
  <2>1. task' = [task EXCEPT ![w] = t]
    BY <1>2, <1>5
  <2>. QED
    BY <1>1, <2>1, PutIs DEF Todo
<1>. QED
  BY <1>4, <1>5

\* Lists belong to the parts at work, and an import is alone with tasks about grids.
Owned(w, s) ==
  /\ Kind(s)
  /\ ~GridList(s) => "setup" \in open.parts
  /\ ImportList(s) => w \in Scripts \cap open.staff

TaskInv ==
  /\ TaskForm
  /\ \A w \in Tasks : Owned(w, Todo(w))
  /\ \A w, v \in Tasks : ImportList(Todo(w)) => v = w \/ GridList(Todo(v))

\* A list goes on as one of its kind, or the kind it leads to, or ends.
Follows(s, t) ==
  \/ GridList(t)
  \/ ImportList(s) /\ ImportList(t)
  \/ (SeedList(s) \/ ServeList(s)) /\ (SeedList(t) \/ ServeList(t))

LEMMA OthersSame ==
  ASSUME NEW w \in Tasks, NEW s, Turns(w, s), NEW v \in Tasks \ {w}
  PROVE  Todo(v)' = Todo(v)
BY DEF Turns, Todo

LEMMA GoesOn ==
  ASSUME TaskInv, UNCHANGED open, NEW w \in Tasks, NEW t, Turns(w, t), Follows(Todo(w), t)
  PROVE  TaskInv'
<1>1. TaskForm' /\ Todo(w)' = t
  BY DEF Turns
<1>2. \A v \in Tasks \ {w} : Todo(v)' = Todo(v)
  BY OthersSame
<1>3. Owned(w, t)
  BY Kinds DEF TaskInv, Owned, Kind, Follows
<1>4. \A v \in Tasks : Owned(v, Todo(v))'
  BY <1>1, <1>2, <1>3 DEF TaskInv, Owned
<1>5. ImportList(t) => ImportList(Todo(w))
  BY Kinds DEF Follows
<1>6. (\E v \in Tasks \ {w} : ImportList(Todo(v))) => GridList(t)
  <2>. SUFFICES ASSUME NEW v \in Tasks \ {w}, ImportList(Todo(v)) PROVE GridList(t)
    OBVIOUS
  <2>1. GridList(Todo(w))
    BY DEF TaskInv
  <2>. QED
    BY <2>1, Kinds DEF Follows
<1>7. \A v, x \in Tasks : ImportList(Todo(v)') => x = v \/ GridList(Todo(x)')
  <2>. SUFFICES ASSUME NEW v \in Tasks, NEW x \in Tasks, ImportList(Todo(v)'), x # v
                PROVE  GridList(Todo(x)')
    OBVIOUS
  <2>1. CASE v = w
    BY <1>1, <1>2, <1>5, <2>1 DEF TaskInv
  <2>2. CASE v # w /\ x = w
    BY <1>1, <1>2, <1>6, <2>2 DEF TaskInv
  <2>3. CASE v # w /\ x # w
    BY <1>2, <2>3 DEF TaskInv
  <2>. QED
    BY <2>1, <2>2, <2>3
<1>. QED
  BY <1>1, <1>4, <1>7 DEF TaskInv

LEMMA Begins ==
  ASSUME TaskInv, UNCHANGED open, NEW w \in Tasks, NEW t, Turns(w, t),
         \/ GridList(t)
         \/ /\ SeedList(t) \/ NumberList(t) \/ (ImportList(t) /\ w \in Scripts \cap open.staff)
            /\ "setup" \in open.parts /\ \A v \in Tasks : ~ImportList(Todo(v))
            /\ ImportList(t) => \A v \in Tasks : GridList(Todo(v))
  PROVE  TaskInv'
<1>1. TaskForm' /\ Todo(w)' = t
  BY DEF Turns
<1>2. \A v \in Tasks \ {w} : Todo(v)' = Todo(v)
  BY OthersSame
<1>3. Owned(w, t)
  BY Kinds DEF Owned, Kind
<1>4. \A v \in Tasks : Owned(v, Todo(v))'
  BY <1>1, <1>2, <1>3 DEF TaskInv, Owned
<1>7. \A v, x \in Tasks : ImportList(Todo(v)') => x = v \/ GridList(Todo(x)')
  <2>. SUFFICES ASSUME NEW v \in Tasks, NEW x \in Tasks, ImportList(Todo(v)'), x # v
                PROVE  GridList(Todo(x)')
    OBVIOUS
  <2>1. CASE v = w
    BY <1>1, <1>2, <2>1, Kinds DEF TaskInv
  <2>2. CASE v # w /\ x = w
    BY <1>1, <1>2, <2>2 DEF TaskInv
  <2>3. CASE v # w /\ x # w
    BY <1>2, <2>3 DEF TaskInv
  <2>. QED
    BY <2>1, <2>2, <2>3
<1>. QED
  BY <1>1, <1>4, <1>7 DEF TaskInv

---- \* What a step makes of a list

LEMMA OrderKept ==
  ASSUME NEW s, ImportList(s), NEW m, \A k \in DOMAIN m : ~OnRule(m[k]),
         NEW t, Splice(t, m, s),
         DOMAIN t = 1..Len(t) /\ Len(t) \in Nat /\ DOMAIN m = 1..Len(m) /\ Len(m) \in Nat
  PROVE  \A j, k \in DOMAIN t : j < k /\ OnRule(t[j]) => ~OnRule(t[k]) /\ ~OnLists(t[k])
<1>. SUFFICES ASSUME NEW j \in DOMAIN t, NEW k \in DOMAIN t, j < k, OnRule(t[j])
              PROVE  ~OnRule(t[k]) /\ ~OnLists(t[k])
  OBVIOUS
<1>3. j > Len(m)
  <2>1. j <= Len(m) => t[j] = m[j] /\ ~OnRule(m[j])
    BY DEF Splice
  <2>. QED
    BY <2>1
<1>4. k > Len(m)
  BY <1>3
<1>5. /\ j - Len(m) + 1 \in DOMAIN s /\ t[j] = s[j - Len(m) + 1]
      /\ k - Len(m) + 1 \in DOMAIN s /\ t[k] = s[k - Len(m) + 1]
  BY <1>3, <1>4 DEF Splice
<1>6. j - Len(m) + 1 < k - Len(m) + 1
  OBVIOUS
<1>. QED
  BY <1>5, <1>6 DEF ImportList

LEMMA ImportGoesOn ==
  ASSUME NEW s, ImportList(s), Head(s).do # "reconcile", NEW m, NEW E, List(m, E),
         E \subseteq {"put", "bring log"}, NEW t, t = m \o Tail(s)
  PROVE  ImportList(t)
<1>1. E \subseteq ImportDo \cup {"put"} /\ "reconcile" \notin E
  BY DEF ImportDo
<1>2. List(s, ImportDo \cup {"put"}) /\ EndsWith(s, "reconcile")
  BY DEF ImportList
<1>3. List(t, ImportDo \cup {"put"}) /\ EndsWith(t, "reconcile")
  BY <1>1, <1>2, KindKept
<1>4. s # <<>>
  BY <1>2 DEF EndsWith
<1>5. Splice(t, m, s)
  BY <1>2, <1>4, Spliced
<1>. QED
  <2>1. DOMAIN t = 1..Len(t) /\ Len(t) \in Nat /\ DOMAIN m = 1..Len(m) /\ Len(m) \in Nat
    BY <1>3, ListIs
  <2>2. \A k \in DOMAIN m : ~OnRule(m[k])
    BY DEF List, OnRule
  <2>3. \A j, k \in DOMAIN t : j < k /\ OnRule(t[j]) => ~OnRule(t[k]) /\ ~OnLists(t[k])
    BY <1>5, <2>1, <2>2, OrderKept
  <2>. QED
    BY <1>3, <2>3 DEF ImportList

\* What comes after the rule in an import does not touch it.
LEMMA RuleComesLast ==
  ASSUME NEW s, ImportList(s), OnRule(Head(s))
  PROVE  \A x \in Steps(Tail(s)) : ~OnRule(x) /\ ~OnLists(x)
<1>. PICK S : S = {s[k] : k \in DOMAIN s}
  OBVIOUS
<1>1. s \in Seq(S) /\ s # <<>> /\ List(s, ImportDo \cup {"put"})
  BY DEF ImportList, List, EndsWith
<1>2. 1 \in DOMAIN s /\ OnRule(s[1])
  BY <1>1, ListIs
<1>3. DOMAIN Tail(s) = 1..(Len(s) - 1) /\ \A k \in 1..(Len(s) - 1) : Tail(s)[k] = s[k + 1]
  BY <1>1
<1>4. Len(s) \in Nat /\ DOMAIN s = 1..Len(s)
  BY <1>1
<1>5. ASSUME NEW k \in 1..(Len(s) - 1) PROVE ~OnRule(s[k + 1]) /\ ~OnLists(s[k + 1])
  <2>1. k + 1 \in DOMAIN s /\ 1 < k + 1
    BY <1>4
  <2>. QED
    BY <1>2, <2>1 DEF ImportList
<1>. QED
  BY <1>3, <1>5 DEF Steps

LEMMA Done ==
  ASSUME NEW s, Kind(s), s # <<>>
  PROVE  Follows(s, <<>> \o Tail(s))
<1>. PICK t : t = <<>> \o Tail(s)
  OBVIOUS
<1>0. \A D : List(<<>>, D)
  BY ListShort
<1>1. \A D, last : List(s, D) /\ EndsWith(s, last) /\ Head(s).do # last => List(t, D) /\ EndsWith(t, last)
  <2>. SUFFICES ASSUME NEW D, NEW last, List(s, D), EndsWith(s, last), Head(s).do # last
                PROVE  List(t, D) /\ EndsWith(t, last)
    OBVIOUS
  <2>1. List(<<>>, {})
    BY <1>0
  <2>. QED
    BY <2>1, KindKept
<1>2. \A D, last : List(s, D) /\ EndsWith(s, last) /\ Head(s).do = last => t = <<>>
  BY KindOver
<1>3. CASE GridList(s)
  <2>1. List(t, GridDo \cup {})
    BY <1>0, <1>3, Spliced DEF GridList
  <2>. QED
    BY <2>1 DEF GridList, Follows
<1>4. CASE SeedList(s)
  BY <1>1, <1>2, <1>4, NoSteps DEF SeedList, Follows
<1>5. CASE ServeList(s)
  BY <1>1, <1>2, <1>5, NoSteps DEF ServeList, Follows
<1>6. CASE NumberList(s)
  <2>1. Head(s).do = "number"
    BY <1>6, ListIs DEF NumberList
  <2>. QED
    BY <1>2, <1>6, <2>1, NoSteps DEF NumberList, Follows
<1>7. CASE ImportList(s)
  <2>1. CASE Head(s).do = "reconcile"
    BY <1>2, <1>7, <2>1, NoSteps DEF ImportList, Follows
  <2>2. CASE Head(s).do # "reconcile"
    <3>1. List(<<>>, {})
      BY <1>0
    <3>. QED
      BY <1>7, <2>2, <3>1, ImportGoesOn DEF Follows
  <2>. QED
    BY <2>1, <2>2
<1>. QED
  BY <1>3, <1>4, <1>5, <1>6, <1>7 DEF Kind

\* A grid is read, and rows of it are written next.
LEMMA RowsNext ==
  ASSUME NEW s, s # <<>>, NEW m, List(m, {"put"}),
         \/ GridList(s)
         \/ ServeList(s) /\ Head(s).do # "ready"
         \/ ImportList(s) /\ Head(s).do # "reconcile"
  PROVE  Follows(s, m \o Tail(s))
<1>. PICK t : t = m \o Tail(s)
  OBVIOUS
<1>1. CASE GridList(s)
  <2>1. List(t, GridDo \cup {"put"})
    BY <1>1, Spliced DEF GridList
  <2>2. GridDo \cup {"put"} = GridDo
    BY DEF GridDo
  <2>. QED
    BY <2>1, <2>2 DEF GridList, Follows
<1>2. CASE ServeList(s) /\ Head(s).do # "ready"
  <2>1. {"put"} \subseteq ServeDo /\ "ready" \notin {"put"}
    BY DEF ServeDo
  <2>2. List(t, ServeDo) /\ EndsWith(t, "ready")
    BY <1>2, <2>1, KindKept DEF ServeList
  <2>. QED
    BY <1>2, <2>2 DEF ServeList, Follows
<1>3. CASE ImportList(s) /\ Head(s).do # "reconcile"
  <2>1. ImportList(t)
    BY <1>3, ImportGoesOn
  <2>. QED
    BY <1>3, <2>1 DEF Follows
<1>. QED
  BY <1>1, <1>2, <1>3

LEMMA WhichList ==
  ASSUME TaskInv, NEW w \in Tasks, NEW x, Has(w, x)
  PROVE  /\ Kind(Todo(w)) /\ Todo(w) # <<>> /\ Head(Todo(w)).do = x
         /\ Head(Todo(w)) \in Steps(Todo(w)) /\ Good(Head(Todo(w)))
         /\ x \in GridDo \ {"put", "ensure"} => GridList(Todo(w))
         /\ x = "ensure" => GridList(Todo(w)) \/ ServeList(Todo(w))
         /\ x = "put" => GridList(Todo(w)) \/ ServeList(Todo(w)) \/ ImportList(Todo(w))
         /\ x \in SeedDo => SeedList(Todo(w))
         /\ x = "ready" => ServeList(Todo(w))
         /\ x = "number" => NumberList(Todo(w))
         /\ x \in ImportDo => ImportList(Todo(w))
<1>. PICK s : s = Todo(w)
  OBVIOUS
<1>1. Kind(s) /\ s # <<>> /\ Head(s).do = x
  BY DEF TaskInv, Owned, Has, Todo
<1>2. \A D : List(s, D) => x \in D /\ Head(s) = s[1] /\ 1 \in DOMAIN s /\ Good(Head(s))
  BY <1>1, ListIs
<1>3. /\ GridList(s) => x \in GridDo
      /\ SeedList(s) => x \in SeedDo
      /\ ServeList(s) => x \in ServeDo
      /\ NumberList(s) => x = "number"
      /\ ImportList(s) => x \in ImportDo \cup {"put"}
  <2>1. List(s, {"number"}) => x = "number"
    BY <1>2
  <2>. QED
    BY <1>2, <2>1 DEF GridList, SeedList, ServeList, NumberList, ImportList
<1>4. Head(s) \in Steps(s) /\ Good(Head(s))
  BY <1>1, <1>2 DEF Kind, GridList, SeedList, ServeList, NumberList, ImportList, Steps
<1>. QED
  BY <1>1, <1>3, <1>4 DEF Kind, GridDo, SeedDo, ServeDo, ImportDo

---- \* The tables, and steps that write grids

Tables ==
  /\ role = [r \in RoleIds |-> role[r]]
  /\ grid = [r \in RoleIds |-> grid[r]]
  /\ \A r \in RoleIds : grid[r] = [m \in Modules |-> grid[r][m]]
  /\ account = [u \in People |-> account[u]]
  /\ release \in Releases

LEMMA Grants ==
  ASSUME NEW perms, NEW m \in Modules
  PROVE  LegacyOf(perms)[m] # Nothing
<1>2. ASSUME NEW a \in SUBSET Actions PROVE Grant(a) # Nothing
  <2>. PICK b \in BOOLEAN : b = (a # {})
    OBVIOUS
  <2>1. Grant(a) = [visible |-> b, actions |-> a]
    BY DEF Grant
  <2>2. Grant(a) \in [visible : BOOLEAN, actions : SUBSET Actions]
    BY <2>1
  <2>. QED
    BY <2>2, NothingAssumption
<1>. PICK meant : meant = UNION {ModuleActions(p) : p \in perms}
  OBVIOUS
<1>3. LegacyOf(perms)[m] \in {Grant(Actions), Grant({a \in Actions : <<m, a>> \in meant})}
  BY DEF LegacyOf
<1>4. {a \in Actions : <<m, a>> \in meant} \in SUBSET Actions /\ Actions \in SUBSET Actions
  OBVIOUS
<1>. QED
  BY <1>2, <1>3, <1>4

LEMMA Finite ==
  /\ IsFiniteSet(Shown) /\ IsFiniteSet(System)
  /\ \A M \in SUBSET Modules : IsFiniteSet(M)
  /\ \A R \in SUBSET RoleIds : IsFiniteSet(R)
BY PlatformAssumption, FS_Subset DEF Shown

\* A step that is done, with nothing to do instead.
LEMMA DoneIs ==
  ASSUME TaskInv, UNCHANGED open, NEW w \in Tasks, Todo(w) # <<>>, Goes(w, <<>>)
  PROVE  /\ Turns(w, <<>> \o Tail(Todo(w))) /\ Follows(Todo(w), <<>> \o Tail(Todo(w))) /\ TaskInv'
<1>1. Turns(w, <<>> \o Tail(Todo(w)))
  BY GoesIs DEF TaskInv
<1>2. Kind(Todo(w))
  BY DEF TaskInv, Owned
<1>3. Follows(Todo(w), <<>> \o Tail(Todo(w)))
  BY <1>2, Done
<1>. QED
  BY <1>1, <1>3, GoesOn

LEMMA DeathIs ==
  ASSUME TaskInv, UNCHANGED open, NEW w \in Tasks, task' = [task EXCEPT ![w] = Free]
  PROVE  Turns(w, <<>>) /\ TaskInv'
<1>1. Turns(w, <<>>)
  BY DiesIs DEF TaskInv
<1>2. Follows(Todo(w), <<>>)
  BY NoSteps DEF Follows
<1>. QED
  BY <1>1, <1>2, GoesOn

LEMMA RowsIs ==
  ASSUME TaskInv, UNCHANGED open, NEW w \in Tasks, NEW m, List(m, {"put"}), Todo(w) # <<>>,
         Turns(w, m \o Tail(Todo(w))),
         \/ GridList(Todo(w))
         \/ ServeList(Todo(w)) /\ Head(Todo(w)).do # "ready"
         \/ ImportList(Todo(w)) /\ Head(Todo(w)).do # "reconcile"
  PROVE  TaskInv'
BY RowsNext, GoesOn

LEMMA EnsureIs ==
  ASSUME TaskInv, UNCHANGED open, NEW w \in Tasks, Ensure(w), NEW r, r = Subject(w),
         NEW p, p = role[r]
  PROVE  /\ TaskInv'
         /\ p = Nothing => Turns(w, <<>> \o Tail(Todo(w)))
         /\ p # Nothing => \E m : /\ List(m, {"put"}) /\ Turns(w, m \o Tail(Todo(w)))
                                  /\ \A x \in Modules : grid[r][x] = Nothing =>
                                       \E g : g # Nothing /\ Put(r, x, g) \in Steps(m)
<1>1. Has(w, "ensure") /\ Todo(w) # <<>>
  BY DEF Ensure, Has, Todo
<1>2. /\ GridList(Todo(w)) \/ ServeList(Todo(w))
      /\ Head(Todo(w)).do # "ready"
  BY <1>1, WhichList
<1>. PICK M : M = {x \in Modules : grid[r][x] = Nothing}
  OBVIOUS
<1>3. CASE p = Nothing
  <2>1. Goes(w, <<>>)
    BY <1>3 DEF Ensure
  <2>. QED
    BY <1>1, <1>3, <2>1, DoneIs
<1>4. CASE p # Nothing
  <2>. PICK m : m = Puts(r, M, LegacyOf(p))
    OBVIOUS
  <2>1. Goes(w, m)
    BY <1>4 DEF Ensure
  <2>2. IsFiniteSet(M) /\ \A x \in M : LegacyOf(p)[x] # Nothing
    BY Finite, Grants
  <2>3. List(m, {"put"}) /\ \A x \in M : Put(r, x, LegacyOf(p)[x]) \in Steps(m)
    BY <2>2, ListPuts
  <2>4. Turns(w, m \o Tail(Todo(w)))
    BY <2>1, GoesIs DEF TaskInv
  <2>5. TaskInv'
    BY <1>1, <1>2, <2>3, <2>4, RowsIs
  <2>6. \A x \in Modules : grid[r][x] = Nothing => \E g : g # Nothing /\ Put(r, x, g) \in Steps(m)
    BY <2>2, <2>3
  <2>. QED
    BY <1>4, <2>3, <2>4, <2>5, <2>6
<1>. QED
  BY <1>3, <1>4

LEMMA GridSteps ==
  ASSUME TaskInv, Tables, UNCHANGED open, NEW w \in Tasks, StepOf(w) \/ DropRole(w)
  PROVE  /\ TaskInv'
         /\ \/ Ensure(w) \/ Turns(w, <<>>) \/ Turns(w, <<>> \o Tail(Todo(w)))
            \/ GridList(Todo(w)) /\ \E t : GridList(t) /\ Turns(w, t)
<1>. PICK r : r = Subject(w)
  OBVIOUS
<1>. PICK tail : tail = Tail(Todo(w))
  OBVIOUS
<1>0. \A t : GridList(Todo(w)) /\ Follows(Todo(w), t) => GridList(t)
  BY Kinds DEF Follows
<1>a. ASSUME NEW m, List(m, {"put"}), Todo(w) # <<>>, GridList(Todo(w)), Turns(w, m \o tail)
      PROVE  TaskInv' /\ \E t : GridList(t) /\ Turns(w, t)
  <2>1. Follows(Todo(w), m \o tail)
    BY <1>a, RowsNext
  <2>2. GridList(m \o tail)
    BY <1>0, <1>a, <2>1
  <2>3. TaskInv'
    BY <1>a, RowsIs
  <2>. QED
    BY <1>a, <2>2, <2>3
<1>1. CASE Migrate(w)
  <2>0. "migrate" \in GridDo \ {"put", "ensure"}
    BY DEF GridDo
  <2>1. Has(w, "migrate") /\ Todo(w) # <<>>
    BY <1>1 DEF Migrate, Has, Todo
  <2>2. GridList(Todo(w))
    BY <2>0, <2>1, WhichList
  <2>3. CASE role[r] = Nothing
    <3>1. Goes(w, <<>>)
      BY <1>1, <2>3 DEF Migrate
    <3>. QED
      BY <2>1, <3>1, DoneIs
  <2>4. CASE role[r] # Nothing
    <3>. PICK m : m = Puts(r, Modules, LegacyOf(role[r]))
      OBVIOUS
    <3>1. Goes(w, m)
      BY <1>1, <2>4 DEF Migrate
    <3>2. Turns(w, m \o tail)
      BY <3>1, GoesIs DEF TaskInv
    <3>3. List(m, {"put"})
      BY Finite, Grants, ListPuts
    <3>. QED
      BY <1>a, <2>1, <2>2, <3>2, <3>3
  <2>. QED
    BY <2>3, <2>4
<1>2. CASE Ensure(w)
  BY <1>2, EnsureIs
<1>3. CASE Redefine(w)
  <2>0. "redefine" \in GridDo \ {"put", "ensure"}
    BY DEF GridDo
  <2>1. Has(w, "redefine") /\ Todo(w) # <<>>
    BY <1>3 DEF Redefine, Has, Todo
  <2>2. GridList(Todo(w)) /\ Good(Head(Todo(w))) /\ Head(Todo(w)).do = "redefine"
    BY <2>0, <2>1, WhichList
  <2>3. CASE Goes(w, <<>>)
    BY <2>1, <2>3, DoneIs
  <2>4. CASE ~Goes(w, <<>>)
    <3>. PICK matrix : matrix = MatrixOf[release][r]
      OBVIOUS
    <3>. PICK m : m = Puts(r, Shown, matrix)
      OBVIOUS
    <3>1. r \in RoleIds
      BY <2>2 DEF Good, Subject, Todo
    <3>2. List(m, {"put"})
      BY <3>1, Finite, NothingAssumption, ListPuts DEF Tables
    <3>3. task' = [task EXCEPT ![w].todo = m \o Tail(@), ![w].marks[r] = matrix]
      BY <1>3, <2>4 DEF Redefine
    <3>4. task' = [task EXCEPT ![w].todo = m \o tail,
                               ![w].marks = [task[w].marks EXCEPT ![r] = matrix]]
      BY <3>3 DEF TaskInv, TaskForm, Todo
    <3>5. Turns(w, m \o tail)
      BY <3>4, ChangeIs DEF TaskInv
    <3>. QED
      BY <1>a, <2>1, <2>2, <3>2, <3>5
  <2>. QED
    BY <2>3, <2>4
<1>4. CASE PutRow(w)
  <2>1. Todo(w) # <<>> /\ (Goes(w, <<>>) \/ task' = [task EXCEPT ![w] = Free])
    BY <1>4 DEF PutRow, Has, Todo
  <2>. QED
    BY <2>1, DoneIs, DeathIs
<1>5. CASE NoteMark(w)
  <2>0. "note" \in GridDo \ {"put", "ensure"}
    BY DEF GridDo
  <2>1. Has(w, "note") /\ Todo(w) # <<>>
    BY <1>5 DEF NoteMark, Has, Todo
  <2>2. GridList(Todo(w))
    BY <2>0, <2>1, WhichList
  <2>3. PICK noted : task' = [task EXCEPT ![w].todo = tail, ![w].marks = noted]
    BY <1>5 DEF NoteMark, TaskInv, TaskForm, Todo
  <2>4. Turns(w, tail)
    BY <2>3, ChangeIs DEF TaskInv
  <2>5. tail = <<>> \o tail
    <3>. PICK S : S = {Todo(w)[k] : k \in DOMAIN Todo(w)}
      OBVIOUS
    <3>1. Todo(w) \in Seq(S)
      BY <2>2 DEF GridList, List
    <3>. QED
      BY <2>1, <3>1
  <2>6. List(<<>>, {"put"})
    BY ListShort
  <2>. QED
    BY <1>a, <2>1, <2>2, <2>4, <2>5, <2>6
<1>6. CASE SaveMarks(w) \/ ClearCache(w) \/ DropGrid(w) \/ DropRole(w) \/ Remember(w)
  <2>1. Goes(w, <<>>) /\ Todo(w) # <<>>
    BY <1>6 DEF SaveMarks, ClearCache, DropGrid, DropRole, Remember, Has, Todo
  <2>. QED
    BY <2>1, DoneIs
<1>7. CASE TaskDies(w)
  BY <1>7, DeathIs DEF TaskDies
<1>. QED
  BY <1>1, <1>2, <1>3, <1>4, <1>5, <1>6, <1>7 DEF StepOf

---- \* Cold starts, numbers and imports

Joint(u, s, t) ==
  /\ Len(u) = Len(s) + Len(t)
  /\ \A k \in 1..Len(s) : u[k] = s[k]
  /\ \A k \in 1..Len(t) : u[Len(s) + k] = t[k]

LEMMA Ended ==
  ASSUME NEW D, NEW E, NEW last, last \notin D, NEW s, List(s, D), NEW t, List(t, E),
         EndsWith(t, last), NEW u, u = s \o t
  PROVE  /\ List(u, D \cup E) /\ EndsWith(u, last)
         /\ \A x : x \in Steps(s) \/ x \in Steps(t) => x \in Steps(u)
         /\ Joint(u, s, t)
<1>. PICK S : S = {s[k] : k \in DOMAIN s} \cup {t[k] : k \in DOMAIN t}
  OBVIOUS
<1>1. s \in Seq(S) /\ t \in Seq(S)
  BY DEF List
<1>2. \A x \in S : x.do \in D \cup E /\ Good(x)
  BY DEF List
<1>3. List(u, D \cup E)
  <2>1. u \in Seq(S)
    BY <1>1
  <2>. QED
    BY <1>2, <2>1, ListFrom
<1>4. \A x : x \in Steps(s) \/ x \in Steps(t) => x \in Steps(u)
  <2>1. Steps(u) = Steps(s) \cup Steps(t)
    BY <1>1, StepsJoined
  <2>. QED
    BY <2>1
<1>5. Len(u) = Len(s) + Len(t) /\ Len(s) \in Nat /\ Len(t) \in Nat
  BY <1>1
<1>6. \A k \in 1..Len(s) : u[k] = s[k]
  BY <1>1
<1>7. \A k \in 1..Len(t) : u[Len(s) + k] = t[k]
  BY <1>1
<1>8. /\ Len(t) > 0 /\ DOMAIN t = 1..Len(t) /\ DOMAIN s = 1..Len(s) /\ DOMAIN u = 1..Len(u)
      /\ u # <<>>
  <2>1. t # <<>>
    BY DEF EndsWith
  <2>2. Len(t) > 0 /\ DOMAIN t = 1..Len(t) /\ DOMAIN s = 1..Len(s) /\ DOMAIN u = 1..Len(u)
        /\ (u = <<>> <=> Len(u) = 0)
    BY <1>3, <2>1, ListIs
  <2>. QED
    BY <1>5, <2>2
<1>9. ASSUME NEW k \in DOMAIN u PROVE u[k].do = last <=> k = Len(u)
  <2>1. CASE k <= Len(s)
    <3>1. u[k] = s[k] /\ s[k].do \in D
      BY <1>6, <1>8, <2>1 DEF List
    <3>2. k # Len(u)
      BY <1>5, <1>8, <2>1
    <3>. QED
      BY <3>1, <3>2
  <2>2. CASE k > Len(s)
    <3>1. k - Len(s) \in 1..Len(t) /\ Len(s) + (k - Len(s)) = k
      BY <1>5, <1>8, <2>2
    <3>2. u[k] = t[k - Len(s)]
      BY <1>7, <3>1
    <3>3. t[k - Len(s)].do = last <=> k - Len(s) = Len(t)
      BY <1>8, <3>1 DEF EndsWith
    <3>4. k - Len(s) = Len(t) <=> k = Len(u)
      <4>. PICK n : n = Len(u)
        OBVIOUS
      <4>1. n = Len(s) + Len(t) /\ k \in 1..n /\ n \in Nat
        BY <1>5, <1>8
      <4>2. k - Len(s) = Len(t) <=> k = n
        BY <1>5, <4>1
      <4>. QED
        BY <4>2
    <3>. QED
      BY <3>2, <3>3, <3>4
  <2>. QED
    BY <1>5, <1>8, <2>1, <2>2
<1>. QED
  BY <1>3, <1>4, <1>5, <1>6, <1>7, <1>8, <1>9 DEF EndsWith, Joint

Four(s, a, b, c, d) == s = <<a, b, c, d>>

LEMMA EndsFour ==
  ASSUME NEW D, NEW last, NEW a, NEW b, NEW c, NEW d,
         a.do \in D, b.do \in D, c.do \in D, d.do \in D,
         Good(a), Good(b), Good(c), Good(d),
         a.do # last, b.do # last, c.do # last, d.do = last,
         NEW s, Four(s, a, b, c, d)
  PROVE  List(s, D) /\ EndsWith(s, last) /\ \A x : x = a \/ x = b \/ x = c \/ x = d => x \in Steps(s)
<1>1. s \in Seq({a, b, c, d}) /\ Len(s) = 4 /\ DOMAIN s = 1..4 /\ s # <<>>
      /\ s[1] = a /\ s[2] = b /\ s[3] = c /\ s[4] = d
  BY DEF Four
<1>2. List(s, D)
  <2>1. \A x \in {a, b, c, d} : x.do \in D /\ Good(x)
    OBVIOUS
  <2>. QED
    BY <1>1, <2>1, ListFrom
<1>3. \A k \in 1..4 : k = 1 \/ k = 2 \/ k = 3 \/ k = 4
  OBVIOUS
<1>4. \A x : x = a \/ x = b \/ x = c \/ x = d => x \in Steps(s)
  BY <1>1 DEF Steps
<1>5. \A k \in DOMAIN s : s[k].do = last <=> k = Len(s)
  BY <1>1, <1>3
<1>. QED
  BY <1>1, <1>2, <1>4, <1>5 DEF EndsWith

FirstDo == {"seed role"}

LEMMA SeedLast ==
  ASSUME NEW roles, List(roles, FirstDo), NEW a, NEW b, NEW c, NEW d,
         Good(a), Good(b), Good(c), Good(d),
         a.do = "seed rule", b.do = "seed settings", c.do = "seed admin", d.do = "ensure all",
         NEW s, Four(s, a, b, c, d)
  PROVE  /\ SeedList(roles \o s) /\ \A x \in Steps(roles) : x \in Steps(roles \o s)
         /\ \A x : x = a \/ x = b \/ x = c \/ x = d => x \in Steps(roles \o s)
<1>1. /\ a.do \in SeedDo /\ b.do \in SeedDo /\ c.do \in SeedDo /\ d.do \in SeedDo
      /\ a.do # "ensure all" /\ b.do # "ensure all" /\ c.do # "ensure all"
  BY DEF SeedDo
<1>2. /\ List(s, SeedDo) /\ EndsWith(s, "ensure all")
      /\ \A x : x = a \/ x = b \/ x = c \/ x = d => x \in Steps(s)
  BY <1>1, EndsFour
<1>3. "ensure all" \notin FirstDo
  BY DEF FirstDo
<1>4. /\ List(roles \o s, FirstDo \cup SeedDo) /\ EndsWith(roles \o s, "ensure all")
      /\ \A x : x \in Steps(roles) \/ x \in Steps(s) => x \in Steps(roles \o s)
  BY <1>2, <1>3, Ended
<1>5. FirstDo \cup SeedDo = SeedDo
  BY DEF FirstDo, SeedDo
<1>. QED
  BY <1>2, <1>4, <1>5 DEF SeedList

LEMMA SeedStepsIs ==
  /\ SeedList(SeedSteps)
  /\ \A r \in System : Do("seed role", r) \in Steps(SeedSteps)
  /\ Carries(SeedSteps, "seed rule") /\ Carries(SeedSteps, "seed settings")
  /\ Carries(SeedSteps, "seed admin")
<1>. PICK roles : roles = All("seed role", System)
  OBVIOUS
<1>1. \A x \in {"seed rule", "seed settings", "seed admin", "ensure all"} :
        x \notin Plainly
  BY DEF Plainly
<1>2. \A x \in {"seed rule", "seed settings", "seed admin", "ensure all"} : \A r :
        Do(x, r).do = x /\ Good(Do(x, r))
  BY <1>1, PlainDo
<1>3. \E s, a, b, c, d :
        /\ Four(s, a, b, c, d) /\ SeedSteps = roles \o s
        /\ a.do = "seed rule" /\ b.do = "seed settings" /\ c.do = "seed admin"
        /\ d.do = "ensure all" /\ Good(a) /\ Good(b) /\ Good(c) /\ Good(d)
  BY <1>2, ZenonT(20) DEF SeedSteps, Four
<1>4. List(roles, FirstDo) /\ \A r \in System : Do("seed role", r) \in Steps(roles)
  <2>1. "seed role" \in FirstDo
    BY DEF FirstDo
  <2>2. \A x \in System : Good(Do("seed role", x))
    BY SeedStepIs
  <2>. QED
    BY <2>1, <2>2, Finite, ListAll
<1>. PICK s, a, b, c, d :
        /\ Four(s, a, b, c, d) /\ SeedSteps = roles \o s
        /\ a.do = "seed rule" /\ b.do = "seed settings" /\ c.do = "seed admin"
        /\ d.do = "ensure all" /\ Good(a) /\ Good(b) /\ Good(c) /\ Good(d)
  BY <1>3
<1>6. /\ SeedList(SeedSteps) /\ \A x \in Steps(roles) : x \in Steps(SeedSteps)
      /\ \A x : x = a \/ x = b \/ x = c \/ x = d => x \in Steps(SeedSteps)
  BY <1>4, SeedLast
<1>. QED
  BY <1>4, <1>6 DEF Carries

\* What an import brings before it asks which users are known.
BringDo ==
  {"wipe accounts", "wipe roles", "wipe lists", "bring role", "bring user", "bring hold",
   "bring grid", "bring lookup", "bring row"}

LEMMA ListThree ==
  ASSUME NEW D, NEW a, NEW b, NEW c,
         a.do \in D, Good(a), b.do \in D, Good(b), c.do \in D, Good(c)
  PROVE  List(<<a, b, c>>, D)
<1>. PICK S : S = {a, b, c}
  OBVIOUS
<1>1. <<a, b, c>> \in Seq(S) /\ \A x \in S : x.do \in D /\ Good(x)
  OBVIOUS
<1>. QED
  BY <1>1, ListFrom

LEMMA ListFour ==
  ASSUME NEW D, NEW a, NEW b, NEW c, NEW d,
         a.do \in D, Good(a), b.do \in D, Good(b), c.do \in D, Good(c), d.do \in D, Good(d)
  PROVE  List(<<a, b, c, d>>, D)
<1>. PICK S : S = {a, b, c, d}
  OBVIOUS
<1>1. <<a, b, c, d>> \in Seq(S) /\ \A x \in S : x.do \in D /\ Good(x)
  OBVIOUS
<1>. QED
  BY <1>1, ListFrom

HasLists(s) == \E x \in Steps(s) : OnLists(x)

LEMMA ListsStay ==
  ASSUME NEW D, NEW s, NEW t, List(s, D), List(t, D), HasLists(s)
  PROVE  HasLists(s \o t)
<1>. PICK S : S = {s[k] : k \in DOMAIN s} \cup {t[k] : k \in DOMAIN t}
  OBVIOUS
<1>1. s \in Seq(S) /\ t \in Seq(S)
  BY DEF List
<1>2. Steps(s \o t) = Steps(s) \cup Steps(t)
  BY <1>1, StepsJoined
<1>. QED
  BY <1>2 DEF HasLists

LEMMA ImportFirst ==
  LET first == ((ClearSteps \o IdentitySteps) \o ListSteps) \o RowSteps IN
  List(first, BringDo) /\ HasLists(first)
<1>1. \A x \in BringDo \ {"bring grid"} : x \notin Plainly
  BY DEF BringDo, Plainly
<1>2. \A x \in BringDo \ {"bring grid"} : \A r : Do(x, r).do = x /\ Good(Do(x, r))
  BY <1>1, PlainDo
<1>3. \A r \in RoleIds : Good(Do("bring grid", r))
  BY GridStepIs
<1>4. \A x \in {"wipe accounts", "wipe roles", "wipe lists", "bring role", "bring user",
                "bring hold", "bring lookup", "bring row"} : x \in BringDo \ {"bring grid"}
  BY DEF BringDo
<1>5. List(ClearSteps, BringDo)
  <2>1. \A a, b, c : /\ a.do \in BringDo /\ Good(a) /\ b.do \in BringDo /\ Good(b)
                     /\ c.do \in BringDo /\ Good(c)
                     => List(<<a, b, c>>, BringDo)
    BY ListThree
  <2>2. \A x \in {"wipe accounts", "wipe roles", "wipe lists"} :
          Do(x, Nothing).do \in BringDo /\ Good(Do(x, Nothing))
    <3>. SUFFICES ASSUME NEW x \in {"wipe accounts", "wipe roles", "wipe lists"}
                  PROVE  Do(x, Nothing).do \in BringDo /\ Good(Do(x, Nothing))
      OBVIOUS
    <3>1. x \in BringDo \ {"bring grid"}
      BY <1>4
    <3>2. Do(x, Nothing).do = x /\ Good(Do(x, Nothing))
      BY <1>2, <3>1
    <3>. QED
      BY <3>1, <3>2
  <2>. QED
    BY <2>1, <2>2, Zenon DEF ClearSteps
<1>. PICK roles : roles = {r \in RoleIds : Legacy.role[r] # Nothing}
  OBVIOUS
<1>6. \A x \in BringDo \ {"bring grid"} : \A S : IsFiniteSet(S) => List(All(x, S), BringDo)
  BY <1>2, ListAll
<1>7. List(All("bring grid", roles), BringDo)
  <2>1. "bring grid" \in BringDo /\ IsFiniteSet(roles) /\ \A r \in roles : Good(Do("bring grid", r))
    BY <1>3, Finite DEF BringDo
  <2>. QED
    BY <2>1, ListAll
<1>8. List(Each("bring user", Legacy.users), BringDo)
  <2>1. "bring user" \in BringDo /\ \A u \in People : Good(Do("bring user", u))
    BY <1>2, <1>4
  <2>2. Legacy.users \in Seq(People)
    BY FileAssumption
  <2>. QED
    BY <2>1, <2>2, ListEach
<1>9. List(All("bring role", roles), BringDo) /\ List(All("bring hold", Legacy.holds), BringDo)
  BY <1>4, <1>6, Finite, FileAssumption
<1>10. List(ListSteps, BringDo) /\ List(RowSteps, BringDo)
  <2>1. IsFiniteSet({k \in Carried : Legacy.lookup[k] # Nothing})
    BY FileAssumption, FS_Subset
  <2>2. IsFiniteSet({x \in Rows : Legacy.row[x] # Nothing})
    BY FileAssumption, FS_Subset
  <2>. QED
    BY <1>4, <1>6, <2>1, <2>2 DEF ListSteps, RowSteps
<1>11. List(IdentitySteps, BringDo)
  <2>1. List(All("bring role", roles) \o Each("bring user", Legacy.users), BringDo)
    BY <1>8, <1>9, ListJoin
  <2>2. List((All("bring role", roles) \o Each("bring user", Legacy.users))
               \o All("bring hold", Legacy.holds), BringDo)
    BY <1>9, <2>1, ListJoin
  <2>3. List(((All("bring role", roles) \o Each("bring user", Legacy.users))
               \o All("bring hold", Legacy.holds)) \o All("bring grid", roles), BringDo)
    BY <1>7, <2>2, ListJoin
  <2>. QED
    BY <2>3 DEF IdentitySteps
<1>a. HasLists(ClearSteps)
  <2>1. 3 \in DOMAIN ClearSteps /\ ClearSteps[3] = Do("wipe lists", Nothing)
    BY DEF ClearSteps
  <2>2. OnLists(Do("wipe lists", Nothing))
    BY DEF OnLists, Do
  <2>. QED
    BY <2>1, <2>2 DEF HasLists, Steps
<1>12. List(ClearSteps \o IdentitySteps, BringDo) /\ HasLists(ClearSteps \o IdentitySteps)
  BY <1>5, <1>11, <1>a, ListJoin, ListsStay
<1>13. /\ List((ClearSteps \o IdentitySteps) \o ListSteps, BringDo)
       /\ HasLists((ClearSteps \o IdentitySteps) \o ListSteps)
  BY <1>10, <1>12, ListJoin, ListsStay
<1>. QED
  BY <1>10, <1>13, ListJoin, ListsStay

LEMMA JointFour ==
  ASSUME NEW u, NEW first, NEW s, Joint(u, first, s), Len(s) = 4
  PROVE  /\ Len(u) = Len(first) + 4 /\ \A k \in 1..Len(first) : u[k] = first[k]
         /\ u[Len(first) + 1] = s[1] /\ u[Len(first) + 2] = s[2] /\ u[Len(first) + 4] = s[4]
BY DEF Joint

LEMMA RuleThird ==
  ASSUME NEW n \in Nat, NEW u, DOMAIN u = 1..(n + 4), \A k \in 1..n : ~OnRule(u[k]),
         ~OnRule(u[n + 1]), ~OnRule(u[n + 2]), ~OnRule(u[n + 4]), ~OnLists(u[n + 4])
  PROVE  \A j, k \in DOMAIN u : j < k /\ OnRule(u[j]) => ~OnRule(u[k]) /\ ~OnLists(u[k])
<1>. SUFFICES ASSUME NEW j \in DOMAIN u, NEW k \in DOMAIN u, j < k, OnRule(u[j])
              PROVE  ~OnRule(u[k]) /\ ~OnLists(u[k])
  OBVIOUS
<1>1. j = n + 3
  <2>1. j \in 1..n \/ j = n + 1 \/ j = n + 2 \/ j = n + 3 \/ j = n + 4
    OBVIOUS
  <2>. QED
    BY <2>1
<1>2. k = n + 4
  BY <1>1
<1>. QED
  BY <1>2

LEMMA ImportOrder ==
  ASSUME NEW first, List(first, BringDo), NEW a, NEW b, NEW c, NEW d,
         ~OnRule(a), ~OnRule(b), ~OnRule(d), ~OnLists(d),
         NEW s, Four(s, a, b, c, d), NEW u, Joint(u, first, s), DOMAIN u = 1..Len(u)
  PROVE  \A j, k \in DOMAIN u : j < k /\ OnRule(u[j]) => ~OnRule(u[k]) /\ ~OnLists(u[k])
<1>1. \A x : x.do \in BringDo => ~OnRule(x)
  BY DEF BringDo, OnRule
<1>3. Len(first) \in Nat /\ DOMAIN first = 1..Len(first)
  BY ListIs
<1>4. s[1] = a /\ s[2] = b /\ s[4] = d
  BY DEF Four
<1>5. \A k \in DOMAIN first : ~OnRule(first[k])
  BY <1>1 DEF List
<1>6. /\ Len(u) = Len(first) + 4 /\ \A k \in 1..Len(first) : u[k] = first[k]
      /\ u[Len(first) + 1] = s[1] /\ u[Len(first) + 2] = s[2] /\ u[Len(first) + 4] = s[4]
  <2>1. Len(s) = 4
    BY DEF Four
  <2>. QED
    BY <2>1, JointFour
<1>7. \A k \in 1..Len(first) : ~OnRule(u[k])
  BY <1>3, <1>5, <1>6
<1>8. /\ ~OnRule(u[Len(first) + 1]) /\ ~OnRule(u[Len(first) + 2])
      /\ ~OnRule(u[Len(first) + 4]) /\ ~OnLists(u[Len(first) + 4])
  BY <1>4, <1>6
<1>9. DOMAIN u = 1..(Len(first) + 4)
  BY <1>6
<1>. QED
  BY <1>3, <1>7, <1>8, <1>9, RuleThird

LEMMA ImportLast ==
  ASSUME NEW first, List(first, BringDo), NEW a, NEW b, NEW c, NEW d,
         Good(a), Good(b), Good(c), Good(d),
         a.do = "know users", b.do = "bring settings", c.do = "bring rule", d.do = "reconcile",
         NEW s, Four(s, a, b, c, d)
  PROVE  /\ ImportList(first \o s) /\ List(first \o s, ImportDo)
         /\ HasLists(first) => HasLists(first \o s)
<1>1. /\ a.do \in ImportDo /\ b.do \in ImportDo /\ c.do \in ImportDo /\ d.do \in ImportDo
      /\ a.do # "reconcile" /\ b.do # "reconcile" /\ c.do # "reconcile"
  BY DEF ImportDo
<1>2. List(s, ImportDo) /\ EndsWith(s, "reconcile")
  BY <1>1, EndsFour
<1>3. "reconcile" \notin BringDo
  BY DEF BringDo
<1>4. PICK u : /\ u = first \o s /\ List(u, BringDo \cup ImportDo) /\ EndsWith(u, "reconcile")
               /\ Joint(u, first, s)
  BY <1>2, <1>3, Ended
<1>5. BringDo \cup ImportDo \subseteq ImportDo
  BY DEF BringDo, ImportDo
<1>6. List(u, ImportDo) /\ List(u, ImportDo \cup {"put"})
  BY <1>4, <1>5, ListWider
<1>7. DOMAIN u = 1..Len(u)
  BY <1>6, ListIs
<1>8. \A j, k \in DOMAIN u : j < k /\ OnRule(u[j]) => ~OnRule(u[k]) /\ ~OnLists(u[k])
  <2>1. ~OnRule(a) /\ ~OnRule(b) /\ ~OnRule(d) /\ ~OnLists(d)
    BY DEF OnRule, OnLists
  <2>. QED
    BY <1>4, <1>7, <2>1, ImportOrder
<1>9. HasLists(first) => HasLists(first \o s)
  <2>1. \A x : x \in Steps(first) \/ x \in Steps(s) => x \in Steps(first \o s)
    BY <1>2, <1>3, Ended
  <2>. QED
    BY <2>1 DEF HasLists
<1>. QED
  BY <1>4, <1>6, <1>8, <1>9 DEF ImportList

LEMMA ImportStepsIs ==
  ImportList(ImportSteps) /\ HasLists(ImportSteps) /\ List(ImportSteps, ImportDo)
<1>. PICK first : first = ((ClearSteps \o IdentitySteps) \o ListSteps) \o RowSteps
  OBVIOUS
<1>1. \A x \in {"know users", "bring settings", "bring rule", "reconcile"} : x \notin Plainly
  BY DEF Plainly
<1>2. \A x \in {"know users", "bring settings", "bring rule", "reconcile"} : \A r :
        Do(x, r).do = x /\ Good(Do(x, r))
  BY <1>1, PlainDo
<1>3. \E s, a, b, c, d :
        /\ Four(s, a, b, c, d) /\ ImportSteps = first \o s
        /\ a.do = "know users" /\ b.do = "bring settings" /\ c.do = "bring rule"
        /\ d.do = "reconcile" /\ Good(a) /\ Good(b) /\ Good(c) /\ Good(d)
  BY <1>2, ZenonT(20) DEF ImportSteps, LastSteps, Four
<1>. PICK s, a, b, c, d :
        /\ Four(s, a, b, c, d) /\ ImportSteps = first \o s
        /\ a.do = "know users" /\ b.do = "bring settings" /\ c.do = "bring rule"
        /\ d.do = "reconcile" /\ Good(a) /\ Good(b) /\ Good(c) /\ Good(d)
  BY <1>3
<1>4. List(first, BringDo) /\ HasLists(first)
  BY ImportFirst
<1>. QED
  BY <1>4, ImportLast

---- \* How tasks begin

LEMMA GridBegins ==
  ASSUME TaskInv, UNCHANGED open, NEW w \in Tasks, NEW s, GridList(s), Start(w, s)
  PROVE  TaskInv' /\ Turns(w, s)
<1>1. Turns(w, s)
  BY StartIs DEF TaskInv
<1>. QED
  BY <1>1, Begins

PageDo == {"migrate", "note", "save", "clear", "remember"}

LEMMA GridOf ==
  /\ \A x \in PageDo : \A r : x \in GridDo /\ Do(x, r).do = x /\ Good(Do(x, r))
  /\ \A a, b : a.do \in GridDo /\ Good(a) /\ b.do \in GridDo /\ Good(b) =>
       GridList(<<a>>) /\ GridList(<<a, b>>)
  /\ \A s, t : GridList(s) /\ GridList(t) => GridList(s \o t)
<1>1. \A x \in PageDo : x \in GridDo /\ x \notin Plainly
  BY DEF PageDo, GridDo, Plainly
<1>2. \A x \in PageDo : \A r : Do(x, r).do = x /\ Good(Do(x, r))
  BY <1>1, PlainDo
<1>3. \A a, b : a.do \in GridDo /\ Good(a) /\ b.do \in GridDo /\ Good(b) =>
        GridList(<<a>>) /\ GridList(<<a, b>>)
  BY ListShort DEF GridList
<1>. QED
  BY <1>1, <1>2, <1>3, ListJoin DEF GridList

LEMMA EditsAre ==
  ASSUME NEW r, NEW g, \A m \in Shown : g[m] # Nothing
  PROVE  GridList(Edits(r, Shown, g))
<1>1. {"edit"} \subseteq GridDo
  BY DEF GridDo
<1>2. List(Edits(r, Shown, g), {"edit"})
  BY Finite, ListPuts
<1>. QED
  BY <1>1, <1>2, ListWider DEF GridList

LEMMA RememberIs ==
  ASSUME NEW r, NEW g, NEW step, step = [Do("remember", r) EXCEPT !.grant = g]
  PROVE  step.do = "remember" /\ Good(step)
<1>1. step.do = "remember"
  BY DEF Do
<1>. QED
  BY <1>1 DEF Good

LEMMA RolesStarted ==
  ASSUME TaskInv, Tables, UNCHANGED open, NEW w \in Tasks,
         \/ CreateRole(w) \/ UpdateRole(w) \/ UpdateRoleAccess(w) \/ ResetRoleToDefault(w)
         \/ ReadAccess(w) \/ SeedRedefinition(w) \/ SeedRbac(w)
         \/ \E r \in RoleIds : DeleteRole(w, r)
  PROVE  TaskInv' /\ \E s : GridList(s) /\ Turns(w, s)
<1>0. SUFFICES \E s : GridList(s) /\ Start(w, s)
  BY GridBegins
<1>a. /\ "migrate" \in PageDo /\ "note" \in PageDo /\ "save" \in PageDo
      /\ "clear" \in PageDo /\ "remember" \in PageDo
  BY DEF PageDo
<1>b. \A x \in PageDo : \A r : GridList(<<Do(x, r)>>)
  BY GridOf
<1>c. \A x, y \in PageDo : \A q, r : GridList(<<Do(x, q), Do(y, r)>>)
  BY GridOf
<1>d. \A x, y, z, v \in PageDo : \A o, p, q, r : GridList(<<Do(x, o), Do(y, p), Do(z, q), Do(v, r)>>)
  BY GridOf, ListFour DEF GridList
<1>2. CASE CreateRole(w) \/ UpdateRole(w)
  <2>1. PICK r : Start(w, <<Do("migrate", r)>>)
    BY <1>2 DEF CreateRole, UpdateRole
  <2>. QED
    BY <1>a, <1>b, <2>1
<1>3. CASE ReadAccess(w)
  <2>1. PICK r : Start(w, <<[Do("remember", r) EXCEPT !.grant = Access(r)]>>)
    BY <1>3 DEF ReadAccess
  <2>2. \E step : /\ step = [Do("remember", r) EXCEPT !.grant = Access(r)]
                  /\ step.do \in GridDo /\ Good(step)
    <3>1. "remember" \notin Plainly /\ "remember" \in GridDo
      BY DEF Plainly, GridDo
    <3>2. \A step : step = [Do("remember", r) EXCEPT !.grant = Access(r)] =>
                      step.do = "remember" /\ Good(step)
      BY RememberIs
    <3>. QED
      BY <3>1, <3>2, Zenon
  <2>. PICK step : /\ step = [Do("remember", r) EXCEPT !.grant = Access(r)]
                   /\ step.do \in GridDo /\ Good(step)
    BY <2>2
  <2>3. GridList(<<step>>)
    BY GridOf
  <2>. QED
    BY <2>1, <2>3
<1>4. CASE \E r \in RoleIds : DeleteRole(w, r)
  <2>1. PICK r : r \notin System /\ Start(w, <<Do("drop grid", r), Do("drop role", r)>>)
    BY <1>4 DEF DeleteRole
  <2>2. \A x \in {"drop grid", "drop role"} : Do(x, r).do = x /\ Good(Do(x, r)) /\ x \in GridDo
    <3>1. \A x \in {"drop grid", "drop role"} : x \in GridDo
      BY DEF GridDo
    <3>2. \A x \in {"drop grid", "drop role"} : Do(x, r).do = x /\ Good(Do(x, r))
      BY <2>1, DropStepIs
    <3>. QED
      BY <3>1, <3>2
  <2>3. GridList(<<Do("drop grid", r), Do("drop role", r)>>)
    BY <2>2, GridOf
  <2>. QED
    BY <2>1, <2>3
<1>5. CASE UpdateRoleAccess(w)
  <2>1. PICK r \in RoleIds, g \in Payloads : Start(w, Edits(r, Shown, g) \o <<Do("clear", Nothing)>>)
    BY <1>5 DEF UpdateRoleAccess
  <2>2. \A m \in Shown : g[m] # Nothing
    BY NothingAssumption
  <2>3. GridList(Edits(r, Shown, g)) /\ GridList(<<Do("clear", Nothing)>>)
    BY <1>a, <1>b, <2>2, EditsAre
  <2>. QED
    BY <2>1, <2>3, GridOf
<1>6. CASE ResetRoleToDefault(w)
  <2>1. PICK r \in RoleIds :
          Start(w, Edits(r, Shown, MatrixOf[release][r])
                   \o <<Do("clear", Nothing), Do("note", r), Do("save", r), Do("clear", Nothing)>>)
    BY <1>6 DEF ResetRoleToDefault
  <2>. PICK g : g = MatrixOf[release][r]
    OBVIOUS
  <2>2. \A m \in Shown : g[m] # Nothing
    BY NothingAssumption DEF Tables
  <2>3. GridList(Edits(r, Shown, g))
    BY <2>2, EditsAre
  <2>4. GridList(<<Do("clear", Nothing), Do("note", r), Do("save", r), Do("clear", Nothing)>>)
    BY <1>a, <1>d, Zenon
  <2>. QED
    BY <2>1, <2>3, <2>4, GridOf
<1>r. SetToSeq(RoleIds) \in Seq(RoleIds)
  BY PlatformAssumption, ListOf
<1>7. CASE SeedRedefinition(w)
  <2>. PICK steps : steps = Each("redefine", SetToSeq(RoleIds))
    OBVIOUS
  <2>1. Start(w, steps \o <<Do("save", Nothing), Do("clear", Nothing)>>)
    BY <1>7 DEF SeedRedefinition, Each
  <2>2. GridList(steps)
    <3>1. "redefine" \in GridDo /\ \A r \in RoleIds : Good(Do("redefine", r))
      BY GridStepIs DEF GridDo
    <3>. QED
      BY <1>r, <3>1, ListEach DEF GridList
  <2>3. GridList(<<Do("save", Nothing), Do("clear", Nothing)>>)
    BY <1>a, <1>c
  <2>. QED
    BY <2>1, <2>2, <2>3, GridOf
<1>8. CASE SeedRbac(w)
  <2>1. Start(w, Each("migrate", SetToSeq(RoleIds)))
    BY <1>8 DEF SeedRbac, Each
  <2>2. GridList(Each("migrate", SetToSeq(RoleIds)))
    <3>1. "migrate" \in GridDo /\ \A r \in RoleIds : Good(Do("migrate", r))
      BY <1>a, GridOf
    <3>. QED
      BY <1>r, <3>1, ListEach DEF GridList
  <2>. QED
    BY <2>1, <2>2
<1>. QED
  BY <1>2, <1>3, <1>4, <1>5, <1>6, <1>7, <1>8

LEMMA NumberIs ==
  ASSUME NEW g, NEW step, step = [Do("number", Nothing) EXCEPT !.grant = g]
  PROVE  step.do = "number" /\ step.grant = g /\ Good(step)
<1>1. step.do = "number" /\ step.grant = g
  BY DEF Do
<1>. QED
  BY <1>1 DEF Good

LEMMA NumberListIs ==
  ASSUME NEW a, a.do = "number", Good(a)
  PROVE  NumberList(<<a>>)
<1>1. List(<<a>>, {"number"})
  BY ListShort
<1>2. EndsWith(<<a>>, "number")
  BY DEF EndsWith
<1>. QED
  BY <1>1, <1>2 DEF NumberList

LEMMA NotImporting ==
  ASSUME TaskInv, ~Importing, NEW w \in Tasks
  PROVE  ~ImportList(Todo(w))
<1>. SUFFICES ASSUME ImportList(Todo(w)) PROVE FALSE
  OBVIOUS
<1>. PICK s : s = Todo(w)
  OBVIOUS
<1>1. w \in Scripts
  BY DEF TaskInv, Owned
<1>2. List(s, ImportDo \cup {"put"}) /\ EndsWith(s, "reconcile") /\ s # <<>>
  BY DEF ImportList, EndsWith
<1>3. Len(s) \in DOMAIN s
  BY <1>2, ListIs
<1>4. s[Len(s)].do = "reconcile"
  BY <1>2, <1>3 DEF EndsWith
<1>. QED
  BY <1>1, <1>2, <1>4 DEF Importing, Last, Todo

LEMMA SetupStarted ==
  ASSUME TaskInv, UNCHANGED open, "setup" \in open.parts, NEW w \in Tasks
  PROVE  /\ ~Importing /\ ColdStart(w) => TaskInv' /\ Turns(w, SeedSteps)
         /\ ~Importing /\ TakeNumber(w) =>
              /\ TaskInv'
              /\ \E a : /\ a.grant = rule.sequence + 1 /\ NumberList(<<a>>)
                        /\ Turns(w, <<a>>)
         /\ w \in Scripts \cap open.staff /\ Import(w) =>
              /\ TaskInv' /\ Turns(w, ImportSteps)
              /\ \A v \in Tasks : Todo(v) = <<>>
<1>1. ASSUME ~Importing, ColdStart(w) PROVE TaskInv' /\ Turns(w, SeedSteps)
  <2>1. Turns(w, SeedSteps)
    BY <1>1, StartIs DEF TaskInv, ColdStart, Filling
  <2>2. \A v \in Tasks : ~ImportList(Todo(v))
    BY <1>1, NotImporting
  <2>3. ~ImportList(SeedSteps) /\ SeedList(SeedSteps)
    BY SeedStepsIs, Kinds
  <2>. QED
    BY <2>1, <2>2, <2>3, Begins
<1>2. ASSUME ~Importing, TakeNumber(w)
      PROVE  /\ TaskInv'
             /\ \E a : a.grant = rule.sequence + 1 /\ NumberList(<<a>>) /\ Turns(w, <<a>>)
  <2>0. \A a : a = [Do("number", Nothing) EXCEPT !.grant = rule.sequence + 1] =>
                 a.do = "number" /\ a.grant = rule.sequence + 1 /\ Good(a)
    BY NumberIs
  <2>1. PICK a : /\ a.do = "number" /\ a.grant = rule.sequence + 1 /\ Good(a)
                 /\ Start(w, <<a>>)
    BY <1>2, <2>0, Zenon DEF TakeNumber
  <2>2. Turns(w, <<a>>)
    BY <2>1, StartIs DEF TaskInv
  <2>3. \A v \in Tasks : ~ImportList(Todo(v))
    BY <1>2, NotImporting
  <2>4. NumberList(<<a>>)
    BY <2>1, NumberListIs
  <2>5. ~ImportList(<<a>>)
    BY <2>4, Kinds
  <2>6. TaskInv'
    BY <2>2, <2>3, <2>4, <2>5, Begins
  <2>. QED
    BY <2>1, <2>2, <2>4, <2>6
<1>3. ASSUME w \in Scripts \cap open.staff, Import(w)
      PROVE  /\ TaskInv' /\ Turns(w, ImportSteps)
             /\ \A v \in Tasks : Todo(v) = <<>>
  <2>1. Turns(w, ImportSteps)
    BY <1>3, StartIs DEF TaskInv, Import, Filling
  <2>2. \A v \in Tasks : Todo(v) = <<>>
    BY <1>3, FreeIs DEF Import, TaskInv, TaskForm, Todo
  <2>3. \A v \in Tasks : GridList(Todo(v)) /\ ~ImportList(Todo(v))
    BY <2>2, NoSteps, Kinds
  <2>. QED
    BY <1>3, <2>1, <2>2, <2>3, ImportStepsIs, Begins
<1>. QED
  BY <1>1, <1>2, <1>3

---- \* How tasks that fill the database go on

PlainFilling(w) ==
  \/ SeedRole(w) \/ SeedRule(w) \/ SeedSettings(w) \/ SeedAdmin(w) \/ Ready(w)
  \/ WipeAccounts(w) \/ WipeRoles(w) \/ WipeLists(w) \/ BringRole(w) \/ BringUser(w)
  \/ BringHold(w) \/ BringLookup(w) \/ BringRow(w)
  \/ BringLog(w) \/ BringSettings(w) \/ BringRule(w) \/ Reconcile(w) \/ WriteNumber(w)

LEMMA PlainFillingIs ==
  ASSUME TaskInv, UNCHANGED open, NEW w \in Tasks, PlainFilling(w)
  PROVE  TaskInv' /\ Turns(w, <<>> \o Tail(Todo(w)))
<1>1. Goes(w, <<>>) /\ Todo(w) # <<>>
  BY DEF PlainFilling, SeedRole, SeedRule, SeedSettings, SeedAdmin, Ready, WipeAccounts, WipeRoles,
     WipeLists, BringRole, BringUser, BringHold, BringLookup, BringRow, BringLog, BringSettings,
     BringRule, Reconcile, WriteNumber, Has, Todo
<1>. QED
  BY <1>1, DoneIs

EnsureDo == {"ensure"}
ReadyDo == {"ready"}

LEMMA ServeLast ==
  ASSUME NEW first, List(first, EnsureDo), NEW s, List(s, ReadyDo), EndsWith(s, "ready")
  PROVE  ServeList(first \o s) /\ \A x \in Steps(first) : x \in Steps(first \o s)
<1>1. "ready" \notin EnsureDo
  BY DEF EnsureDo
<1>2. /\ List(first \o s, EnsureDo \cup ReadyDo) /\ EndsWith(first \o s, "ready")
      /\ \A x : x \in Steps(first) \/ x \in Steps(s) => x \in Steps(first \o s)
  BY <1>1, Ended
<1>3. EnsureDo \cup ReadyDo \subseteq ServeDo
  BY DEF ServeDo, EnsureDo, ReadyDo
<1>4. List(first \o s, ServeDo)
  BY <1>2, <1>3, ListWider
<1>. QED
  BY <1>2, <1>4 DEF ServeList

LEMMA ServeFrom ==
  ASSUME NEW R, IsFiniteSet(R)
  PROVE  /\ ServeList(All("ensure", R) \o <<Do("ready", Nothing)>>)
         /\ \A r \in R : Do("ensure", r) \in Steps(All("ensure", R) \o <<Do("ready", Nothing)>>)
<1>1. "ensure" \notin Plainly /\ "ready" \notin Plainly
  BY DEF Plainly
<1>2. Good(Do("ready", Nothing)) /\ Do("ready", Nothing).do = "ready"
      /\ \A r \in R : Good(Do("ensure", r))
  BY <1>1, PlainDo
<1>3. List(All("ensure", R), {"ensure"}) /\ \A r \in R : Do("ensure", r) \in Steps(All("ensure", R))
  BY <1>2, ListAll
<1>4. PICK a : a = Do("ready", Nothing) /\ Good(a) /\ a.do = "ready"
  BY <1>2
<1>5. List(<<a>>, ReadyDo) /\ EndsWith(<<a>>, "ready")
  BY <1>4, ListShort DEF EndsWith, ReadyDo
<1>6. List(All("ensure", R), EnsureDo)
  BY <1>3 DEF EnsureDo
<1>. QED
  BY <1>3, <1>4, <1>5, <1>6, ServeLast

LEMMA EnsureAllIs ==
  ASSUME TaskInv, UNCHANGED open, NEW w \in Tasks, EnsureAll(w)
  PROVE  /\ TaskInv'
         /\ \E s : /\ ServeList(s) /\ Turns(w, s)
                   /\ \A r \in RoleIds : role[r] # Nothing => Do("ensure", r) \in Steps(s)
<1>. PICK R : R = {r \in RoleIds : role[r] # Nothing}
  OBVIOUS
<1>. PICK s : s = All("ensure", R) \o <<Do("ready", Nothing)>>
  OBVIOUS
<1>1. ServeList(s) /\ \A r \in R : Do("ensure", r) \in Steps(s)
  BY Finite, ServeFrom
<1>2. Has(w, "ensure all") /\ Goes(w, s)
  BY DEF EnsureAll
<1>3. SeedList(Todo(w)) /\ Head(Todo(w)).do = "ensure all"
  <2>1. "ensure all" \in SeedDo
    BY DEF SeedDo
  <2>. QED
    BY <1>2, <2>1, WhichList
<1>4. Tail(Todo(w)) = <<>>
  BY <1>3, KindOver DEF SeedList
<1>5. Turns(w, s)
  <2>1. s \o <<>> = s
    <3>. PICK S : S = {s[k] : k \in DOMAIN s}
      OBVIOUS
    <3>1. s \in Seq(S)
      BY <1>1 DEF ServeList, List
    <3>. QED
      BY <3>1
  <2>2. Turns(w, s \o Tail(Todo(w)))
    BY <1>2, GoesIs DEF TaskInv
  <2>. QED
    BY <1>4, <2>1, <2>2
<1>6. TaskInv'
  BY <1>1, <1>3, <1>5, GoesOn DEF Follows
<1>. QED
  BY <1>1, <1>5, <1>6

\* What an import puts before what it has left.
NextDo == {"put", "bring log"}

LEMMA LogIs ==
  ASSUME NEW r, NEW g, NEW step, step = [Do("bring log", r) EXCEPT !.grant = g]
  PROVE  step.do = "bring log" /\ step.do \in NextDo /\ Good(step)
<1>1. step.do = "bring log"
  BY DEF Do
<1>. QED
  BY <1>1 DEF Good, NextDo

LEMMA SeqIs ==
  ASSUME NEW n \in Nat, NEW s, DOMAIN s = 1..n, s = [k \in DOMAIN s |-> s[k]]
  PROVE  s \in Seq({s[k] : k \in DOMAIN s})
<1>. PICK T : T = {s[k] : k \in DOMAIN s}
  OBVIOUS
<1>1. s \in [1..n -> T]
  OBVIOUS
<1>. QED
  BY <1>1

LEMMA ImportOnward ==
  ASSUME TaskInv, UNCHANGED open, NEW w \in Tasks, Has(w, "bring grid") \/ Has(w, "know users"),
         NEW m, List(m, NextDo), Goes(w, m)
  PROVE  TaskInv' /\ Turns(w, m \o Tail(Todo(w)))
<1>0. "bring grid" \in ImportDo /\ "know users" \in ImportDo
  BY DEF ImportDo
<1>1. ImportList(Todo(w)) /\ Head(Todo(w)).do # "reconcile"
  <2>1. CASE Has(w, "bring grid")
    <3>1. ImportList(Todo(w)) /\ Head(Todo(w)).do = "bring grid"
      BY <1>0, <2>1, WhichList
    <3>. QED
      BY <3>1
  <2>2. CASE Has(w, "know users")
    <3>1. ImportList(Todo(w)) /\ Head(Todo(w)).do = "know users"
      BY <1>0, <2>2, WhichList
    <3>. QED
      BY <3>1
  <2>. QED
    BY <2>1, <2>2
<1>2. NextDo \subseteq {"put", "bring log"}
  BY DEF NextDo
<1>3. Turns(w, m \o Tail(Todo(w)))
  BY GoesIs DEF TaskInv
<1>4. ImportList(m \o Tail(Todo(w)))
  BY <1>1, <1>2, ImportGoesOn
<1>. QED
  BY <1>1, <1>3, <1>4, GoesOn DEF Follows

LEMMA ImportNext ==
  ASSUME TaskInv, UNCHANGED open, NEW w \in Tasks, BringGrid(w) \/ KnowUsers(w)
  PROVE  /\ TaskInv'
         /\ \E m : /\ List(m, NextDo) /\ Turns(w, m \o Tail(Todo(w)))
                   /\ KnowUsers(w) => \A x \in Steps(m) : x.do = "bring log"
<1>1. CASE BringGrid(w)
  <2>. PICK r : r = Subject(w)
    OBVIOUS
  <2>. PICK g : g = Legacy.grid[r]
    OBVIOUS
  <2>0. "bring grid" \in ImportDo
    BY DEF ImportDo
  <2>1. Has(w, "bring grid") /\ Goes(w, Puts(r, Modules, g))
    BY <1>1 DEF BringGrid
  <2>2. r \in RoleIds
    BY <2>0, <2>1, WhichList DEF Good, Subject, Todo
  <2>3. \A m \in Modules : g[m] # Nothing
    BY <2>2, NothingAssumption
  <2>4. List(Puts(r, Modules, g), {"put"}) /\ {"put"} \subseteq NextDo
    BY <2>3, Finite, ListPuts DEF NextDo
  <2>5. List(Puts(r, Modules, g), NextDo)
    BY <2>4, ListWider
  <2>6. ~KnowUsers(w)
    BY <2>1 DEF KnowUsers, Has
  <2>. QED
    BY <2>1, <2>5, <2>6, ImportOnward
<1>2. CASE KnowUsers(w)
  <2>. PICK S : S = {k \in Logs : Legacy.log[k] # Nothing}
    OBVIOUS
  <2>1. IsFiniteSet(S)
    BY FileAssumption, FS_Subset
  <2>. PICK kept : kept = SetToSeq(S)
    OBVIOUS
  <2>2. PICK m : /\ Has(w, "know users") /\ Goes(w, m)
                 /\ m = [k \in DOMAIN kept |-> [Do("bring log", kept[k]) EXCEPT !.grant =
                           IF Legacy.log[kept[k]].by \in {u \in People : Exists(u)}
                           THEN Legacy.log[kept[k]].by ELSE Nobody]]
    BY <1>2 DEF KnowUsers
  <2>3. kept \in Seq(S)
    BY <2>1, ListOf
  <2>4. ASSUME NEW k \in DOMAIN m PROVE m[k].do = "bring log" /\ m[k].do \in NextDo /\ Good(m[k])
    <3>. PICK g : g = IF Legacy.log[kept[k]].by \in {u \in People : Exists(u)}
                      THEN Legacy.log[kept[k]].by ELSE Nobody
      OBVIOUS
    <3>1. m[k] = [Do("bring log", kept[k]) EXCEPT !.grant = g]
      BY <2>2
    <3>. QED
      BY <3>1, LogIs
  <2>5. m \in Seq({m[k] : k \in DOMAIN m})
    <3>1. Len(kept) \in Nat /\ DOMAIN kept = 1..Len(kept)
      BY <2>3
    <3>2. DOMAIN m = DOMAIN kept
      BY <2>2
    <3>3. m = [k \in DOMAIN m |-> m[k]]
      BY <2>2, Zenon
    <3>. QED
      BY <3>1, <3>2, <3>3, SeqIs
  <2>6. List(m, NextDo)
    BY <2>4, <2>5 DEF List
  <2>7. \A x \in Steps(m) : x.do = "bring log"
    BY <2>4 DEF Steps
  <2>. QED
    BY <2>2, <2>6, <2>7, ImportOnward
<1>. QED
  BY <1>1, <1>2

---- \* The rule

Numbering(w) ==
  NumberList(Todo(w)) =>
    /\ rule # Nothing /\ Head(Todo(w)).grant \in Nat
    /\ \/ raced
       \/ /\ Head(Todo(w)).grant = rule.sequence + 1
          /\ \A v \in Tasks \ {w} : ~NumberList(Todo(v))

\* An import that is still to bring the rule, and wipes no more, finds none.
RuleDue(s) ==
  ImportList(s) /\ (\E x \in Steps(s) : OnRule(x)) /\ (\A x \in Steps(s) : ~OnLists(x)) =>
    rule = Nothing

RuleForm == rule = Nothing \/ rule \in [format : Formats, sequence : Nat]

RuleInv ==
  /\ RuleForm
  /\ \A w \in Tasks : Numbering(w) /\ RuleDue(Todo(w))

LEMMA RuleStays ==
  ASSUME RuleInv, UNCHANGED <<rule, raced>>, \A w \in Tasks : Todo(w)' = Todo(w)
  PROVE  RuleInv'
BY DEF RuleInv, RuleForm, Numbering, RuleDue

LEMMA RuleMoves ==
  ASSUME RuleInv, UNCHANGED <<rule, raced>>, NEW w \in Tasks, NEW t, Turns(w, t),
         ~NumberList(t), RuleDue(t)
  PROVE  RuleInv'
<1>1. Todo(w)' = t /\ \A v \in Tasks \ {w} : Todo(v)' = Todo(v)
  BY OthersSame DEF Turns
<1>2. RuleForm'
  BY DEF RuleInv, RuleForm
<1>3. \A v \in Tasks : RuleDue(Todo(v))'
  BY <1>1 DEF RuleInv, RuleDue
<1>4. ASSUME NEW v \in Tasks PROVE Numbering(v)'
  <2>1. CASE v = w
    BY <1>1, <2>1 DEF Numbering
  <2>2. CASE v # w
    <3>1. \A x \in Tasks : NumberList(Todo(x))' => NumberList(Todo(x))
      BY <1>1
    <3>2. Numbering(v) /\ Todo(v)' = Todo(v)
      BY <1>1, <2>2 DEF RuleInv
    <3>. QED
      BY <3>1, <3>2 DEF Numbering
  <2>. QED
    BY <2>1, <2>2
<1>. QED
  BY <1>2, <1>3, <1>4 DEF RuleInv

LEMMA NotNumber ==
  ASSUME NEW s, NEW t, Follows(s, t)
  PROVE  ~NumberList(t) /\ (ImportList(t) => ImportList(s))
BY Kinds DEF Follows

\* What an import has left is less, but for rows and entries of the log.
LEMMA DueStill ==
  ASSUME NEW s, s # <<>>, RuleDue(s), ~OnLists(Head(s)), NEW m, List(m, NextDo),
         NEW t, t = m \o Tail(s), Follows(s, t)
  PROVE  RuleDue(t)
<1>. SUFFICES ASSUME ImportList(t), \E x \in Steps(t) : OnRule(x),
                     \A x \in Steps(t) : ~OnLists(x)
              PROVE  rule = Nothing
  BY DEF RuleDue
<1>1. ImportList(s)
  BY NotNumber
<1>2. Mixed(t, m, s)
  <2>1. List(s, ImportDo \cup {"put"})
    BY <1>1 DEF ImportList
  <2>. QED
    BY <2>1, StepsSpliced
<1>3. \A x \in Steps(m) : ~OnRule(x)
  <2>1. \A x \in Steps(m) : x.do \in NextDo
    BY DEF List, Steps
  <2>. QED
    BY <2>1 DEF OnRule, NextDo
<1>4. \E x \in Steps(s) : OnRule(x)
  BY <1>2, <1>3 DEF Mixed
<1>5. \A x \in Steps(s) : ~OnLists(x)
  BY <1>2 DEF Mixed
<1>. QED
  BY <1>1, <1>4, <1>5 DEF RuleDue

LEMMA DueNever ==
  ASSUME NEW s, GridList(s) \/ SeedList(s) \/ ServeList(s)
  PROVE  RuleDue(s) /\ ~NumberList(s)
BY Kinds DEF RuleDue

LEMMA DoneKeepsRule ==
  ASSUME TaskInv, RuleInv, NEW w \in Tasks, Todo(w) # <<>>, ~OnLists(Head(Todo(w))),
         UNCHANGED <<rule, raced>>, Turns(w, <<>> \o Tail(Todo(w)))
  PROVE  RuleInv'
<1>1. Follows(Todo(w), <<>> \o Tail(Todo(w)))
  BY Done DEF TaskInv, Owned
<1>2. List(<<>>, NextDo)
  BY ListShort
<1>3. RuleDue(<<>> \o Tail(Todo(w)))
  BY <1>1, <1>2, DueStill DEF RuleInv
<1>4. ~NumberList(<<>> \o Tail(Todo(w)))
  BY <1>1, NotNumber
<1>. QED
  BY <1>3, <1>4, RuleMoves

\* A step that leaves the rule alone: its task goes on with what rows it led to.
LEMMA OnwardKeepsRule ==
  ASSUME TaskInv, RuleInv, NEW w \in Tasks, Todo(w) # <<>>, ~OnLists(Head(Todo(w))),
         UNCHANGED <<rule, raced>>, NEW m, List(m, NextDo), Turns(w, m \o Tail(Todo(w))),
         Follows(Todo(w), m \o Tail(Todo(w)))
  PROVE  RuleInv'
<1>1. RuleDue(m \o Tail(Todo(w)))
  BY DueStill DEF RuleInv
<1>2. ~NumberList(m \o Tail(Todo(w)))
  BY NotNumber
<1>. QED
  BY <1>1, <1>2, RuleMoves

LEMMA GridKeepsRule ==
  ASSUME TaskInv, RuleInv, NEW w \in Tasks, UNCHANGED <<rule, raced>>,
         \E t : (GridList(t) \/ SeedList(t) \/ ServeList(t)) /\ Turns(w, t)
  PROVE  RuleInv'
BY DueNever, RuleMoves

LEMMA StepKeepsRule ==
  ASSUME TaskInv, Tables, RuleInv, UNCHANGED <<open, rule, raced>>, NEW w \in Tasks,
         StepOf(w) \/ DropRole(w)
  PROVE  RuleInv'
<1>1. CASE Ensure(w)
  <2>1. Has(w, "ensure") /\ Todo(w) # <<>>
    BY <1>1 DEF Ensure, Has, Todo
  <2>2. (GridList(Todo(w)) \/ ServeList(Todo(w))) /\ Head(Todo(w)).do = "ensure"
    BY <2>1, WhichList
  <2>3. ~OnLists(Head(Todo(w))) /\ Head(Todo(w)).do # "ready"
    BY <2>2 DEF OnLists
  <2>4. CASE role[Subject(w)] = Nothing
    <3>1. Turns(w, <<>> \o Tail(Todo(w)))
      BY <1>1, <2>4, EnsureIs
    <3>. QED
      BY <2>1, <2>3, <3>1, DoneKeepsRule
  <2>5. CASE role[Subject(w)] # Nothing
    <3>1. PICK m : List(m, {"put"}) /\ Turns(w, m \o Tail(Todo(w)))
      BY <1>1, <2>5, EnsureIs
    <3>2. Follows(Todo(w), m \o Tail(Todo(w)))
      BY <2>1, <2>2, <2>3, <3>1, RowsNext
    <3>3. {"put"} \subseteq NextDo
      BY DEF NextDo
    <3>4. List(m, NextDo)
      BY <3>1, <3>3, ListWider
    <3>. QED
      BY <2>1, <2>3, <3>1, <3>2, <3>4, OnwardKeepsRule
  <2>. QED
    BY <2>4, <2>5
<1>2. CASE Turns(w, <<>>)
  BY <1>2, NoSteps, GridKeepsRule
<1>3. CASE Turns(w, <<>> \o Tail(Todo(w))) /\ ~TaskDies(w)
  <2>1. Todo(w) # <<>> /\ Head(Todo(w)).do # "wipe lists"
    BY <1>3 DEF StepOf, Migrate, Ensure, Redefine, PutRow, NoteMark, SaveMarks, ClearCache,
       DropGrid, Remember, DropRole, Has, Todo
  <2>. QED
    BY <1>3, <2>1, DoneKeepsRule DEF OnLists
<1>4. CASE TaskDies(w)
  <2>1. Turns(w, <<>>)
    BY <1>4, DeathIs DEF TaskDies
  <2>. QED
    BY <1>2, <2>1
<1>5. CASE \E t : GridList(t) /\ Turns(w, t)
  BY <1>5, GridKeepsRule
<1>. QED
  BY <1>1, <1>2, <1>3, <1>4, <1>5, GridSteps

\* Those of them that do not touch the rule.
LEMMA FillingKeepsRule ==
  ASSUME TaskInv, RuleInv, UNCHANGED open, NEW w \in Tasks, FillingSteps(w),
         ~SeedRule(w), ~WipeLists(w), ~BringRule(w), ~WriteNumber(w)
  PROVE  RuleInv' /\ UNCHANGED <<rule, raced>>
<1>1. UNCHANGED <<rule, raced>>
  BY DEF FillingSteps, SeedRole, SeedSettings, SeedAdmin, EnsureAll, Ready, WipeAccounts, WipeRoles,
     BringRole, BringUser, BringHold, BringGrid, BringLookup, BringRow, KnowUsers, BringLog,
     BringSettings, Reconcile, Elsewhere, fillingVars
<1>2. CASE EnsureAll(w)
  BY <1>1, <1>2, EnsureAllIs, GridKeepsRule
<1>3. CASE BringGrid(w) \/ KnowUsers(w)
  <2>1. PICK m : List(m, NextDo) /\ Turns(w, m \o Tail(Todo(w)))
    BY <1>3, ImportNext
  <2>2. (Has(w, "bring grid") \/ Has(w, "know users")) /\ Todo(w) # <<>>
    BY <1>3 DEF BringGrid, KnowUsers, Has, Todo
  <2>3. "bring grid" \in ImportDo /\ "know users" \in ImportDo
    BY DEF ImportDo
  <2>4. ImportList(Todo(w))
    BY <2>2, <2>3, WhichList
  <2>5. Head(Todo(w)).do # "reconcile" /\ ~OnLists(Head(Todo(w)))
    BY <2>2 DEF Has, Todo, OnLists
  <2>6. ImportList(m \o Tail(Todo(w)))
    <3>1. NextDo \subseteq {"put", "bring log"}
      BY DEF NextDo
    <3>. QED
      BY <2>1, <2>4, <2>5, <3>1, ImportGoesOn
  <2>7. Follows(Todo(w), m \o Tail(Todo(w)))
    BY <2>4, <2>6 DEF Follows
  <2>. QED
    BY <1>1, <2>1, <2>2, <2>5, <2>7, OnwardKeepsRule
<1>4. CASE PlainFilling(w)
  <2>1. Turns(w, <<>> \o Tail(Todo(w)))
    BY <1>4, PlainFillingIs
  <2>2. Todo(w) # <<>> /\ Head(Todo(w)).do # "wipe lists"
    BY <1>4 DEF PlainFilling, SeedRole, SeedSettings, SeedAdmin, Ready, WipeAccounts,
       WipeRoles, BringRole, BringUser, BringHold, BringLookup, BringRow, BringLog, BringSettings,
       Reconcile, Has, Todo
  <2>. QED
    BY <1>1, <2>1, <2>2, DoneKeepsRule DEF OnLists
<1>. QED
  BY <1>1, <1>2, <1>3, <1>4 DEF FillingSteps, PlainFilling

\* A number is never taken back.
RuleGrows == rule # Nothing /\ rule' # Nothing /\ ~raced => rule'.sequence >= rule.sequence

LEMMA RuleWritten ==
  ASSUME RuleInv, RuleForm', raced' = raced, NEW w \in Tasks,
         \A v \in Tasks \ {w} : Todo(v)' = Todo(v),
         ~NumberList(Todo(w)'), \A v \in Tasks : ~ImportList(Todo(v)'),
         \A v \in Tasks \ {w} : NumberList(Todo(v)) =>
           rule' # Nothing /\ (raced \/ rule'.sequence = rule.sequence)
  PROVE  RuleInv'
<1>1. \A v \in Tasks : RuleDue(Todo(v))'
  BY DEF RuleDue
<1>2. ASSUME NEW v \in Tasks PROVE Numbering(v)'
  <2>1. CASE v = w
    BY <2>1 DEF Numbering
  <2>2. CASE v # w
    <3>1. Numbering(v) /\ Todo(v)' = Todo(v)
      BY <2>2 DEF RuleInv
    <3>2. \A x \in Tasks : NumberList(Todo(x)') => NumberList(Todo(x))
      OBVIOUS
    <3>3. NumberList(Todo(v)) => rule' # Nothing /\ (raced \/ rule'.sequence = rule.sequence)
      BY <2>2
    <3>. QED
      BY <3>1, <3>2, <3>3 DEF Numbering
  <2>. QED
    BY <2>1, <2>2
<1>. QED
  BY <1>1, <1>2 DEF RuleInv

LEMMA RuleImported ==
  ASSUME RuleForm', NEW w \in Tasks, \A v \in Tasks \ {w} : GridList(Todo(v)'),
         ~NumberList(Todo(w)'), RuleDue(Todo(w))'
  PROVE  RuleInv'
<1>1. \A v \in Tasks : ~NumberList(Todo(v)')
  BY Kinds
<1>2. ASSUME NEW v \in Tasks \ {w} PROVE RuleDue(Todo(v))'
  BY Kinds DEF RuleDue
<1>. QED
  BY <1>1, <1>2 DEF RuleInv, Numbering

LEMMA RuleLooks ==
  ASSUME NEW f \in Formats, NEW n \in Nat, rule' = [format |-> f, sequence |-> n]
  PROVE  RuleForm' /\ rule' # Nothing /\ rule'.sequence = n
<1>1. rule' \in [format : Formats, sequence : Nat]
  OBVIOUS
<1>. QED
  BY <1>1, NothingAssumption DEF RuleForm

LEMMA SeedRuleKeeps ==
  ASSUME TaskInv, RuleInv, UNCHANGED open, NEW w \in Tasks, SeedRule(w)
  PROVE  RuleInv' /\ RuleGrows /\ rule' # Nothing
<1>0. "seed rule" \in SeedDo
  BY DEF SeedDo
<1>1. Has(w, "seed rule") /\ Todo(w) # <<>>
  BY DEF SeedRule, Has, Todo
<1>2. SeedList(Todo(w))
  BY <1>0, <1>1, WhichList
<1>. PICK t : t = <<>> \o Tail(Todo(w))
  OBVIOUS
<1>3. Turns(w, t)
  BY PlainFillingIs DEF PlainFilling
<1>4. Follows(Todo(w), t)
  BY <1>1, Done DEF TaskInv, Owned
<1>5. Todo(w)' = t /\ ~NumberList(t) /\ ~ImportList(t)
  BY <1>2, <1>3, <1>4, NotNumber, Kinds DEF Turns
<1>6. \A v \in Tasks \ {w} : Todo(v)' = Todo(v)
  BY <1>3, OthersSame
<1>7. \A v \in Tasks : ~ImportList(Todo(v)')
  BY <1>2, <1>5, <1>6, Kinds DEF TaskInv
<1>8. PICK n \in Nat : /\ rule' = [format |-> Standard, sequence |-> n]
                       /\ rule # Nothing => n = rule.sequence
  BY DEF SeedRule, RuleInv, RuleForm
<1>9. RuleForm' /\ rule' # Nothing /\ rule'.sequence = n
  BY <1>8, RuleLooks, PlatformAssumption
<1>10. \A v \in Tasks \ {w} : NumberList(Todo(v)) => rule' # Nothing /\ rule'.sequence = rule.sequence
  BY <1>8, <1>9 DEF RuleInv, Numbering
<1>11. raced' = raced
  BY DEF SeedRule
<1>12. RuleInv'
  BY <1>5, <1>6, <1>7, <1>9, <1>10, <1>11, RuleWritten
<1>. QED
  BY <1>8, <1>9, <1>12 DEF RuleGrows

LEMMA WriteNumberKeeps ==
  ASSUME TaskInv, RuleInv, UNCHANGED open, NEW w \in Tasks, WriteNumber(w)
  PROVE  RuleInv' /\ RuleGrows /\ rule' # Nothing
<1>1. Has(w, "number") /\ Todo(w) # <<>>
  BY DEF WriteNumber, Has, Todo
<1>2. NumberList(Todo(w))
  BY <1>1, WhichList
<1>. PICK t : t = <<>> \o Tail(Todo(w))
  OBVIOUS
<1>. PICK n : n = Head(Todo(w)).grant
  OBVIOUS
<1>3. Turns(w, t)
  BY PlainFillingIs DEF PlainFilling
<1>4. Follows(Todo(w), t)
  BY <1>1, Done DEF TaskInv, Owned
<1>5. Todo(w)' = t /\ ~NumberList(t) /\ ~ImportList(t)
  BY <1>2, <1>3, <1>4, NotNumber, Kinds DEF Turns
<1>6. \A v \in Tasks \ {w} : Todo(v)' = Todo(v)
  BY <1>3, OthersSame
<1>7. \A v \in Tasks : ~ImportList(Todo(v)')
  BY <1>2, <1>5, <1>6, Kinds DEF TaskInv
<1>8. /\ rule # Nothing /\ n \in Nat
      /\ raced \/ (n = rule.sequence + 1 /\ \A v \in Tasks \ {w} : ~NumberList(Todo(v)))
  BY <1>2 DEF RuleInv, Numbering
<1>9. rule \in [format : Formats, sequence : Nat]
  BY <1>8 DEF RuleInv, RuleForm
<1>10. rule' = [rule EXCEPT !.sequence = n]
  BY <1>8 DEF WriteNumber, Todo
<1>11. PICK f \in Formats, k \in Nat : rule = [format |-> f, sequence |-> k]
  BY <1>9
<1>12. rule' = [format |-> f, sequence |-> n] /\ rule.sequence = k
  BY <1>10, <1>11
<1>13. RuleForm' /\ rule' # Nothing /\ rule'.sequence = n
  BY <1>8, <1>12, RuleLooks
<1>14. raced' = raced
  BY DEF WriteNumber
<1>15. RuleInv'
  BY <1>5, <1>6, <1>7, <1>8, <1>13, <1>14, RuleWritten
<1>16. ~raced => rule'.sequence >= rule.sequence
  BY <1>8, <1>12, <1>13
<1>. QED
  BY <1>13, <1>15, <1>16 DEF RuleGrows

LEMMA EditRuleKeeps ==
  ASSUME TaskInv, RuleInv, ~Importing, NEW w \in Tasks, EditRule(w)
  PROVE  RuleInv' /\ RuleGrows /\ rule' # Nothing
<1>1. /\ task[w] = Free /\ rule # Nothing /\ task' = task /\ raced' = raced
      /\ \E f \in Formats : rule' = [rule EXCEPT !.format = f]
  BY DEF EditRule
<1>2. \A v \in Tasks : Todo(v)' = Todo(v) /\ ~ImportList(Todo(v))
  BY <1>1, NotImporting DEF Todo
<1>3. ~NumberList(Todo(w)')
  BY <1>1, <1>2, FreeIs, NoSteps, Kinds DEF Todo
<1>4. PICK f \in Formats, g \in Formats, k \in Nat :
        rule = [format |-> f, sequence |-> k] /\ rule' = [format |-> g, sequence |-> k]
  <2>1. PICK f \in Formats, k \in Nat : rule = [format |-> f, sequence |-> k]
    BY <1>1 DEF RuleInv, RuleForm
  <2>2. PICK g \in Formats : rule' = [rule EXCEPT !.format = g]
    BY <1>1
  <2>3. rule' = [format |-> g, sequence |-> k]
    BY <2>1, <2>2
  <2>. QED
    BY <2>1, <2>3
<1>5. RuleForm' /\ rule' # Nothing /\ rule'.sequence = k
  BY <1>4, RuleLooks
<1>6. rule'.sequence = rule.sequence /\ rule'.sequence >= rule.sequence
  BY <1>4, <1>5
<1>7. RuleInv'
  BY <1>1, <1>2, <1>3, <1>5, <1>6, RuleWritten
<1>. QED
  BY <1>5, <1>6, <1>7 DEF RuleGrows

LEMMA TakeNumberKeeps ==
  ASSUME TaskInv, RuleInv, UNCHANGED open, "setup" \in open.parts, ~Importing,
         NEW w \in Tasks, TakeNumber(w)
  PROVE  RuleInv' /\ rule' = rule
<1>1. PICK a : /\ a.grant = rule.sequence + 1 /\ NumberList(<<a>>) /\ Turns(w, <<a>>)
  BY SetupStarted
<1>2. /\ Todo(w)' = <<a>> /\ Head(Todo(w)') = a
      /\ \A v \in Tasks \ {w} : Todo(v)' = Todo(v)
  BY <1>1, OthersSame DEF Turns
<1>3. /\ rule # Nothing /\ rule' = rule
      /\ raced' = (raced \/ \E v \in DOMAIN task : Has(v, "number"))
  BY DEF TakeNumber
<1>4. \A v \in Tasks : NumberList(Todo(v)) => Has(v, "number")
  <2>. SUFFICES ASSUME NEW v \in Tasks, NumberList(Todo(v)) PROVE Has(v, "number")
    OBVIOUS
  <2>1. List(Todo(v), {"number"}) /\ Todo(v) # <<>>
    BY DEF NumberList, EndsWith
  <2>. QED
    BY <2>1, ListIs DEF Has, Todo
<1>5. raced' \/ \A v \in Tasks : ~NumberList(Todo(v))
  BY <1>3, <1>4 DEF TaskInv, TaskForm
<1>6. a.grant \in Nat
  <2>1. rule.sequence \in Nat
    BY <1>3 DEF RuleInv, RuleForm
  <2>. QED
    BY <1>1, <2>1
<1>7. ASSUME NEW v \in Tasks PROVE Numbering(v)'
  <2>1. CASE v = w
    <3>1. ~raced' => \A x \in Tasks \ {w} : ~NumberList(Todo(x)')
      BY <1>2, <1>5
    <3>. QED
      BY <1>1, <1>2, <1>3, <1>6, <2>1, <3>1 DEF Numbering
  <2>2. CASE v # w
    <3>1. NumberList(Todo(v)') => raced' /\ Head(Todo(v)').grant \in Nat
      BY <1>2, <1>5, <2>2 DEF RuleInv, Numbering
    <3>. QED
      BY <1>3, <3>1 DEF Numbering
  <2>. QED
    BY <2>1, <2>2
<1>8. \A v \in Tasks : ~ImportList(Todo(v)')
  BY <1>1, <1>2, NotImporting, Kinds
<1>9. RuleForm'
  BY <1>3 DEF RuleInv, RuleForm
<1>. QED
  BY <1>3, <1>7, <1>8, <1>9 DEF RuleInv, RuleDue

\* What an import's step leaves: the others' lists, and what it has left.
LEMMA ImportAlone ==
  ASSUME TaskInv, NEW w \in Tasks, ImportList(Todo(w)), NEW t, Turns(w, t), Follows(Todo(w), t)
  PROVE  /\ Todo(w)' = t /\ ~NumberList(t) /\ ~SeedList(t) /\ ~ServeList(t)
         /\ \A v \in Tasks \ {w} : GridList(Todo(v)')
<1>1. Todo(w)' = t /\ \A v \in Tasks \ {w} : Todo(v)' = Todo(v)
  BY OthersSame DEF Turns
<1>2. \A v \in Tasks \ {w} : GridList(Todo(v))
  BY DEF TaskInv
<1>. QED
  BY <1>1, <1>2, Kinds DEF Follows

LEMMA ImportRuleKeeps ==
  ASSUME TaskInv, RuleInv, UNCHANGED open, NEW w \in Tasks, WipeLists(w) \/ BringRule(w)
  PROVE  RuleInv' /\ RuleGrows
<1>0. "wipe lists" \in ImportDo /\ "bring rule" \in ImportDo
  BY DEF ImportDo
<1>. PICK s : s = Todo(w)
  OBVIOUS
<1>. PICK t : t = <<>> \o Tail(Todo(w))
  OBVIOUS
<1>1. Todo(w) # <<>>
  BY DEF WipeLists, BringRule, Has, Todo
<1>2. ImportList(Todo(w))
  BY <1>0, WhichList DEF WipeLists, BringRule
<1>3. Turns(w, t) /\ Follows(Todo(w), t)
  BY <1>1, PlainFillingIs, Done DEF PlainFilling, TaskInv, Owned
<1>4. /\ Todo(w)' = t /\ ~NumberList(t)
      /\ \A v \in Tasks \ {w} : GridList(Todo(v)')
  BY <1>2, <1>3, ImportAlone
<1>5. CASE WipeLists(w)
  <2>1. rule' = Nothing
    BY <1>5 DEF WipeLists
  <2>2. RuleForm' /\ RuleDue(Todo(w))'
    BY <2>1 DEF RuleForm, RuleDue
  <2>. QED
    BY <1>4, <2>1, <2>2, RuleImported DEF RuleGrows
<1>6. CASE BringRule(w)
  <2>1. OnRule(Head(s)) /\ ~OnLists(Head(s)) /\ rule' = Legacy.rule
    BY <1>6 DEF BringRule, Has, Todo, OnRule, OnLists
  <2>2. \A x \in Steps(Tail(s)) : ~OnRule(x) /\ ~OnLists(x)
    BY <1>2, <2>1, RuleComesLast
  <2>3. Mixed(t, <<>>, s)
    <3>1. List(s, ImportDo \cup {"put"}) /\ List(<<>>, {"put"})
      BY <1>2, ListShort DEF ImportList
    <3>. QED
      BY <1>1, <3>1, StepsSpliced
  <2>4. \A x \in Steps(t) : ~OnRule(x)
    BY <2>2, <2>3, NoSteps DEF Mixed
  <2>5. rule = Nothing
    <3>1. Head(s) \in Steps(s) /\ \A x \in Steps(s) : ~OnLists(x)
      BY <2>1, <2>2, <2>3 DEF Mixed
    <3>2. RuleDue(s)
      BY DEF RuleInv
    <3>. QED
      BY <1>2, <2>1, <3>1, <3>2 DEF RuleDue
  <2>6. RuleForm'
    BY <2>1, FileAssumption DEF RuleForm
  <2>7. RuleDue(Todo(w))'
    BY <1>4, <2>4 DEF RuleDue
  <2>. QED
    BY <1>4, <2>5, <2>6, <2>7, RuleImported DEF RuleGrows
<1>. QED
  BY <1>5, <1>6

LEMMA StartsKeepRule ==
  ASSUME TaskInv, RuleInv, UNCHANGED open, "setup" \in open.parts, NEW w \in Tasks,
         \/ ~Importing /\ ColdStart(w)
         \/ w \in Scripts \cap open.staff /\ Import(w)
  PROVE  RuleInv' /\ rule' = rule
<1>1. UNCHANGED <<rule, raced>>
  BY DEF ColdStart, Import, Filling, fillingVars
<1>2. CASE ~Importing /\ ColdStart(w)
  <2>1. Turns(w, SeedSteps)
    BY <1>2, SetupStarted
  <2>. QED
    BY <1>1, <2>1, SeedStepsIs, GridKeepsRule
<1>3. CASE w \in Scripts \cap open.staff /\ Import(w)
  <2>1. Turns(w, ImportSteps)
    BY <1>3, SetupStarted
  <2>2. ~NumberList(ImportSteps) /\ RuleDue(ImportSteps)
    BY ImportStepsIs, Kinds DEF RuleDue, HasLists
  <2>. QED
    BY <1>1, <2>1, <2>2, RuleMoves
<1>. QED
  BY <1>2, <1>3

---- \* The platform

GridTable(g) == g = [r \in RoleIds |-> g[r]] /\ \A r \in RoleIds : g[r] = [m \in Modules |-> g[r][m]]

LEMMA GridTables ==
  ASSUME GridTable(grid)
  PROVE  /\ \A r, m, g : GridTable([grid EXCEPT ![r][m] = g])
         /\ \A r : GridTable([grid EXCEPT ![r] = Blank])
         /\ GridTable([r \in RoleIds |-> Blank])
<1>1. ASSUME NEW r, NEW m, NEW g PROVE GridTable([grid EXCEPT ![r][m] = g])
  BY DEF GridTable
<1>2. ASSUME NEW r PROVE GridTable([grid EXCEPT ![r] = Blank])
  BY DEF GridTable, Blank
<1>3. GridTable([r \in RoleIds |-> Blank])
  BY DEF GridTable, Blank
<1>. QED
  BY <1>1, <1>2, <1>3

LEMMA TablesAre ==
  Tables <=> /\ role = [r \in RoleIds |-> role[r]] /\ GridTable(grid)
             /\ account = [u \in People |-> account[u]] /\ release \in Releases
BY DEF Tables, GridTable

LEMMA TablesGrid ==
  ASSUME Tables, NEW w, StepOf(w) \/ DropRole(w), account' = account
  PROVE  Tables'
<1>1. release' = release
  BY DEF StepOf, Migrate, Ensure, Redefine, PutRow, NoteMark, SaveMarks, ClearCache, DropGrid,
     Remember, TaskDies, DropRole, Rest
<1>2. role' = role \/ role' = [role EXCEPT ![Subject(w)] = Nothing]
  BY DEF StepOf, Migrate, Ensure, Redefine, PutRow, NoteMark, SaveMarks, ClearCache, DropGrid,
     Remember, TaskDies, DropRole
<1>3. role' = [r \in RoleIds |-> role'[r]]
  BY <1>2 DEF Tables
<1>4. \/ grid' = grid \/ grid' = [grid EXCEPT ![Subject(w)] = Blank]
      \/ \E r, m, g : grid' = [grid EXCEPT ![r][m] = g]
  BY DEF StepOf, Migrate, Ensure, Redefine, PutRow, NoteMark, SaveMarks, ClearCache, DropGrid,
     Remember, TaskDies, DropRole
<1>5. GridTable(grid')
  <2>0. GridTable(grid)
    BY TablesAre
  <2>1. CASE grid' = grid
    BY <2>0, <2>1
  <2>2. CASE grid' = [grid EXCEPT ![Subject(w)] = Blank]
    BY <2>0, <2>2, GridTables
  <2>3. CASE \E r, m, g : grid' = [grid EXCEPT ![r][m] = g]
    <3>. PICK r, m, g : grid' = [grid EXCEPT ![r][m] = g]
      BY <2>3
    <3>1. \A q, n, f : GridTable([grid EXCEPT ![q][n] = f])
      BY <2>0, GridTables
    <3>. QED
      BY <3>1, Zenon
  <2>. QED
    BY <1>4, <2>1, <2>2, <2>3
<1>. QED
  BY <1>1, <1>3, <1>5, TablesAre DEF GridTable, Tables

LEMMA TablesFilling ==
  ASSUME Tables, NEW w, FillingSteps(w)
  PROVE  Tables'
<1>1. release' = release
  BY DEF FillingSteps, SeedRole, SeedRule, SeedSettings, SeedAdmin, EnsureAll, Ready, WipeAccounts,
     WipeRoles, WipeLists, BringRole, BringUser, BringHold, BringGrid, BringLookup, BringRow,
     KnowUsers, BringLog, BringSettings, BringRule, Reconcile, WriteNumber, Elsewhere, GridsRest, Rest
<1>2. \/ role' = role \/ role' = [r \in RoleIds |-> Nothing]
      \/ \E r, p : role' = [role EXCEPT ![r] = p]
  BY DEF FillingSteps, SeedRole, SeedRule, SeedSettings, SeedAdmin, EnsureAll, Ready, WipeAccounts,
     WipeRoles, WipeLists, BringRole, BringUser, BringHold, BringGrid, BringLookup, BringRow,
     KnowUsers, BringLog, BringSettings, BringRule, Reconcile, WriteNumber, Elsewhere
<1>3. role' = [r \in RoleIds |-> role'[r]]
  BY <1>2 DEF Tables
<1>4. grid' = grid \/ grid' = [r \in RoleIds |-> Blank]
  BY DEF FillingSteps, SeedRole, SeedRule, SeedSettings, SeedAdmin, EnsureAll, Ready, WipeAccounts,
     WipeRoles, WipeLists, BringRole, BringUser, BringHold, BringGrid, BringLookup, BringRow,
     KnowUsers, BringLog, BringSettings, BringRule, Reconcile, WriteNumber, Elsewhere
<1>5. GridTable(grid')
  BY <1>4, GridTables, TablesAre
<1>6. \/ account' = account \/ account' = [u \in People |-> NoAccount]
      \/ \E u, a : account' = [account EXCEPT ![u] = a]
  BY DEF FillingSteps, SeedRole, SeedRule, SeedSettings, SeedAdmin, EnsureAll, Ready, WipeAccounts,
     WipeRoles, WipeLists, BringRole, BringUser, BringHold, BringGrid, BringLookup, BringRow,
     KnowUsers, BringLog, BringSettings, BringRule, Reconcile, WriteNumber, Elsewhere
<1>7. account' = [u \in People |-> account'[u]]
  BY <1>6 DEF Tables
<1>. QED
  BY <1>1, <1>3, <1>5, <1>7, TablesAre DEF GridTable, Tables

LEMMA TablesAccounts ==
  ASSUME Tables, NEW w, AccountSteps(w), UNCHANGED gridVars
  PROVE  Tables'
<1>1. \/ account' = account
      \/ \E u, a : account' = [account EXCEPT ![u] = a]
      \/ \E u, a : account' = [account EXCEPT ![u].active = a]
      \/ \E u, p : account' = WithPassword(u, p)
  BY DEF AccountSteps, CreateUser, InsertUser, SetActive, WriteActive, ChangeRole, ClearRoles,
     GrantRole, Login, IssueTokens, Refresh, ChangePassword, WritePassword, ForgotPassword,
     ResetPassword, CommitReset, CallDies
<1>2. account' = [u \in People |-> account'[u]]
  BY <1>1 DEF Tables, WithPassword
<1>. QED
  BY <1>2 DEF Tables, gridVars

\* What holds of tasks, tables and the rule, whatever runs.
BaseInv == Tables /\ TaskInv /\ RuleInv

BaseStep == BaseInv' /\ RuleGrows

LEMMA BaseSame ==
  ASSUME BaseInv, UNCHANGED <<open, task, rule, raced>>, Tables'
  PROVE  BaseStep
<1>1. TaskInv'
  BY DEF BaseInv, TaskInv, TaskForm, Owned, Todo
<1>2. \A w \in Tasks : Todo(w)' = Todo(w)
  BY DEF Todo
<1>3. RuleInv'
  BY <1>2, RuleStays DEF BaseInv
<1>4. RuleGrows
  BY DEF BaseInv, RuleInv, RuleForm, RuleGrows
<1>. QED
  BY <1>1, <1>3, <1>4 DEF BaseInv, BaseStep

LEMMA RuleRests ==
  ASSUME RuleInv, rule' = rule
  PROVE  RuleGrows
BY DEF RuleInv, RuleForm, RuleGrows

LEMMA BaseAccounts ==
  ASSUME BaseInv, UNCHANGED open, AccountsPart
  PROVE  BaseStep
<1>1. UNCHANGED <<role, grid, release, task, rule, raced>>
  BY DEF AccountsPart, gridVars, fillingVars
<1>2. Tables'
  <2>1. CASE Hour
    BY <1>1, <2>1 DEF BaseInv, Tables, Hour
  <2>2. CASE \E w \in Callers : AccountSteps(w)
    BY <2>2, TablesAccounts DEF AccountsPart, BaseInv
  <2>. QED
    BY <2>1, <2>2 DEF AccountsPart
<1>. QED
  BY <1>1, <1>2, BaseSame

Starting(w) ==
  \/ CreateRole(w) \/ UpdateRole(w) \/ UpdateRoleAccess(w) \/ ResetRoleToDefault(w)
  \/ ReadAccess(w) \/ SeedRedefinition(w) \/ SeedRbac(w)
  \/ \E r \in RoleIds : DeleteRole(w, r)

\* It leaves grids alone, and of roles none of the program's own.
LEMMA StartingIs ==
  ASSUME Tables, NEW w, Starting(w)
  PROVE  /\ UNCHANGED <<grid, release>> /\ role' = [r \in RoleIds |-> role'[r]]
         /\ \A r \in System : role'[r] = role[r]
<1>1. UNCHANGED <<grid, release>>
  BY DEF Starting, CreateRole, UpdateRole, UpdateRoleAccess, ResetRoleToDefault, ReadAccess,
     SeedRedefinition, SeedRbac, DeleteRole, Plain, Rest
<1>2. role' = role \/ \E r \in RoleIds \ System, p \in Perms : role' = [role EXCEPT ![r] = p]
  BY DEF Starting, CreateRole, UpdateRole, UpdateRoleAccess, ResetRoleToDefault, ReadAccess,
     SeedRedefinition, SeedRbac, DeleteRole, Plain
<1>3. role' = [r \in RoleIds |-> role'[r]] /\ \A r \in System : role'[r] = role[r]
  BY <1>2, PlatformAssumption DEF Tables
<1>. QED
  BY <1>1, <1>3

LEMMA BaseStarting ==
  ASSUME BaseInv, UNCHANGED <<open, accountVars, fillingVars>>, NEW w \in Tasks, Starting(w)
  PROVE  BaseStep /\ \E s : GridList(s) /\ Turns(w, s)
<1>1. TaskInv' /\ \E s : GridList(s) /\ Turns(w, s)
  BY RolesStarted DEF BaseInv, Starting
<1>2. UNCHANGED <<account, rule, raced>>
  BY DEF accountVars, fillingVars
<1>3. RuleInv'
  BY <1>1, <1>2, GridKeepsRule DEF BaseInv
<1>4. Tables'
  BY <1>2, StartingIs DEF BaseInv, Tables
<1>. QED
  BY <1>1, <1>2, <1>3, <1>4, RuleRests DEF BaseInv, BaseStep

LEMMA BaseRoles ==
  ASSUME BaseInv, UNCHANGED open, RolesPart \/ DeletionsPart
  PROVE  BaseStep
<1>1. UNCHANGED <<accountVars, fillingVars>>
  BY DEF RolesPart, DeletionsPart
<1>2. CASE \E w \in Tasks : Starting(w)
  BY <1>1, <1>2, BaseStarting
<1>3. CASE Deploy \/ Minute
  <2>1. UNCHANGED <<account, rule, raced>>
    BY <1>1 DEF accountVars, fillingVars
  <2>2. Tables' /\ task' = task
    BY <1>3, <2>1 DEF BaseInv, Tables, Deploy, Minute
  <2>. QED
    BY <2>1, <2>2, BaseSame
<1>. QED
  BY <1>2, <1>3 DEF RolesPart, DeletionsPart, Starting, Tasks

LEMMA BaseSteps ==
  ASSUME BaseInv, UNCHANGED <<open, account, rule, raced>>, NEW w \in Tasks,
         StepOf(w) \/ DropRole(w)
  PROVE  BaseStep
<1>1. TaskInv'
  BY GridSteps DEF BaseInv
<1>2. RuleInv'
  BY StepKeepsRule DEF BaseInv
<1>3. Tables'
  BY TablesGrid DEF BaseInv
<1>. QED
  BY <1>1, <1>2, <1>3, RuleRests DEF BaseInv, BaseStep

LEMMA BaseFilling ==
  ASSUME BaseInv, UNCHANGED open, NEW w \in Tasks, FillingSteps(w)
  PROVE  BaseStep
<1>1. Tables'
  BY TablesFilling DEF BaseInv
<1>2. TaskInv'
  <2>1. CASE EnsureAll(w)
    BY <2>1, EnsureAllIs DEF BaseInv
  <2>2. CASE BringGrid(w) \/ KnowUsers(w)
    BY <2>2, ImportNext DEF BaseInv
  <2>3. CASE PlainFilling(w)
    BY <2>3, PlainFillingIs DEF BaseInv
  <2>. QED
    BY <2>1, <2>2, <2>3 DEF FillingSteps, PlainFilling
<1>3. RuleInv' /\ RuleGrows
  <2>1. CASE SeedRule(w)
    BY <2>1, SeedRuleKeeps DEF BaseInv
  <2>2. CASE WriteNumber(w)
    BY <2>2, WriteNumberKeeps DEF BaseInv
  <2>3. CASE WipeLists(w) \/ BringRule(w)
    BY <2>3, ImportRuleKeeps DEF BaseInv
  <2>4. CASE ~SeedRule(w) /\ ~WriteNumber(w) /\ ~WipeLists(w) /\ ~BringRule(w)
    <3>1. RuleInv' /\ UNCHANGED <<rule, raced>>
      BY <2>4, FillingKeepsRule DEF BaseInv
    <3>. QED
      BY <3>1, RuleRests DEF BaseInv
  <2>. QED
    BY <2>1, <2>2, <2>3, <2>4
<1>. QED
  BY <1>1, <1>2, <1>3 DEF BaseInv, BaseStep

LEMMA BaseSetup ==
  ASSUME BaseInv, UNCHANGED open, "setup" \in open.parts, SetupPart
  PROVE  BaseStep
<1>1. ASSUME NEW w \in Tasks, SaveSettings(w) \/ KeepLookup(w) \/ AddRow(w)
      PROVE  BaseStep
  <2>1. UNCHANGED <<role, grid, account, release, task, rule, raced>>
    BY <1>1 DEF SaveSettings, KeepLookup, AddRow, Elsewhere, GridsRest, Rest
  <2>2. Tables'
    BY <2>1 DEF BaseInv, Tables
  <2>. QED
    BY <2>1, <2>2, BaseSame
<1>2. ASSUME NEW w \in Tasks, ~Importing, EditRule(w)
      PROVE  BaseStep
  <2>1. UNCHANGED <<role, grid, account, release, task>>
    BY <1>2 DEF EditRule, Elsewhere, GridsRest, Rest
  <2>2. Tables'
    BY <2>1 DEF BaseInv, Tables
  <2>3. TaskInv'
    BY <2>1 DEF BaseInv, TaskInv, TaskForm, Owned, Todo
  <2>. QED
    BY <1>2, <2>2, <2>3, EditRuleKeeps DEF BaseInv, BaseStep
<1>3. ASSUME NEW w \in Tasks,
             \/ ~Importing /\ (ColdStart(w) \/ TakeNumber(w))
             \/ w \in Scripts \cap open.staff /\ Import(w)
      PROVE  BaseStep
  <2>1. UNCHANGED <<role, grid, account, release>>
    BY <1>3 DEF ColdStart, TakeNumber, Import, Filling, Rest
  <2>2. Tables'
    BY <2>1 DEF BaseInv, Tables
  <2>3. TaskInv'
    BY <1>3, SetupStarted DEF BaseInv
  <2>4. RuleInv' /\ rule' = rule
    BY <1>3, StartsKeepRule, TakeNumberKeeps DEF BaseInv
  <2>. QED
    BY <2>2, <2>3, <2>4, RuleRests DEF BaseInv, BaseStep
<1>. QED
  BY <1>1, <1>2, <1>3, BaseFilling DEF SetupPart, Tasks

LEMMA BaseNext ==
  ASSUME BaseInv, [Next]_platformVars
  PROVE  BaseStep
<1>1. CASE Next
  <2>1. open' = open
    BY <1>1 DEF Next
  <2>2. CASE \E w \in Desks : LoseRole(w)
    <3>1. PICK w \in Tasks : DropRole(w) /\ UNCHANGED <<account, fillingVars>>
      BY <2>2 DEF LoseRole, Tasks
    <3>. QED
      BY <2>1, <3>1, BaseSteps DEF fillingVars
  <2>3. CASE (\E w \in Desks \cup Scripts : StepOf(w)) /\ UNCHANGED <<accountVars, fillingVars>>
    BY <2>1, <2>3, BaseSteps DEF accountVars, fillingVars, Tasks
  <2>. QED
    BY <1>1, <2>1, <2>2, <2>3, BaseAccounts, BaseRoles, BaseSetup DEF Next
<1>2. CASE UNCHANGED platformVars
  <2>1. UNCHANGED <<role, grid, account, release, open, task, rule, raced>>
    BY <1>2 DEF platformVars, setupVars, accountVars, gridVars, fillingVars
  <2>2. Tables'
    BY <2>1 DEF BaseInv, Tables
  <2>. QED
    BY <2>1, <2>2, BaseSame
<1>. QED
  BY <1>1, <1>2

LEMMA BaseInit == Init => BaseInv
<1>. SUFFICES ASSUME Init PROVE BaseInv
  OBVIOUS
<1>1. Tables
  <2>1. role = [r \in RoleIds |-> role[r]] /\ account = [u \in People |-> account[u]]
    BY DEF Init, GridsInit, AccountsInit
  <2>2. GridTable(grid)
    BY DEF Init, GridsInit, GridTable, Blank, LegacyOf
  <2>3. release \in Releases
    BY PlatformAssumption DEF Init, GridsInit
  <2>. QED
    BY <2>1, <2>2, <2>3, TablesAre
<1>2. task = [w \in Tasks |-> Free]
  BY DEF Init, GridsInit, Tasks
<1>3. \A w \in Tasks : Todo(w) = <<>>
  BY <1>2, FreeIs DEF Todo
<1>4. \A w \in Tasks : GridList(Todo(w)) /\ ~ImportList(Todo(w)) /\ ~NumberList(Todo(w))
  BY <1>3, NoSteps, Kinds
<1>5. TaskInv
  <2>1. TaskForm
    BY <1>2, FreeIs DEF TaskForm
  <2>2. \A w \in Tasks : Owned(w, Todo(w))
    BY <1>4 DEF Owned, Kind
  <2>. QED
    BY <1>4, <2>1, <2>2 DEF TaskInv
<1>6. RuleInv
  BY <1>4 DEF Init, SetupInit, RuleInv, RuleForm, Numbering, RuleDue
<1>. QED
  BY <1>1, <1>5, <1>6 DEF BaseInv

LEMMA BaseHolds == Spec => []BaseInv
<1>1. BaseInv /\ [Next]_platformVars => BaseInv'
  BY BaseNext DEF BaseStep
<1>. QED
  BY BaseInit, <1>1, PTL DEF Spec

\* A number given is not given again: no cold start, no edit of the rule and no import
\* takes a sequence back that is in use (prisma/seed.js:91).
THEOREM NumbersKept == Spec => SequenceKept
<1>1. BaseInv /\ [Next]_platformVars =>
        [rule # Nothing /\ rule' # Nothing /\ ~raced => rule'.sequence >= rule.sequence]_platformVars
  BY BaseNext DEF BaseStep, RuleGrows
<1>. QED
  BY BaseHolds, <1>1, PTL DEF Spec, SequenceKept

---- \* Accounts and sessions

Secrets == Passwords \cup {AdminPassword}
AccountRow == {NoAccount} \cup [password : Secrets, version : Nat, active : BOOLEAN]
Token == [of : People, k : 1..MaxResets, used : BOOLEAN, late : BOOLEAN]
Session == [of : People, version : Nat, opened : Secrets]
Call ==
  {NoCall}
  \cup [do : {"create"}, of : People, role : RoleIds, password : Secrets]
  \cup [do : {"clear", "grant"}, of : People, role : RoleIds]
  \cup [do : {"active"}, of : People, active : BOOLEAN]
  \cup [do : {"issue"}, of : People, version : Nat, opened : Secrets]
  \cup [do : {"password"}, of : People, password : Secrets]
  \cup [do : {"reset"}, of : People, token : Token, password : Secrets]

AccountForm ==
  /\ account \in [People -> AccountRow] /\ holds \subseteq People \X RoleIds
  /\ resets \subseteq Token /\ sessions \subseteq Session
  /\ call \in [Callers -> Call]

\* A session, or one a login is about to issue, is of an account, is not ahead of it,
\* and if it is not behind it knows the password.
Fits(s) ==
  /\ Exists(s.of) /\ s.version <= account[s.of].version
  /\ s.version = account[s.of].version => s.opened = account[s.of].password

SessionInv ==
  /\ \A s \in sessions : Fits(s)
  /\ \A w \in Callers : call[w].do = "issue" => Fits(call[w])
  /\ \A w \in Callers :
       call[w].do \in {"active", "password", "reset", "clear", "grant"} => Exists(call[w].of)
  /\ \A t \in resets : Exists(t.of)

RolesOf(u) == {h \in holds : h[1] = u}

\* A user has one role, and none between the two statements of the one request that
\* changes it.
Settled(u) ==
  /\ ~Exists(u) => RolesOf(u) = {} /\ ChangingRoles(u) = {}
  /\ \A v, w \in ChangingRoles(u) : v = w
  /\ \A w \in ChangingRoles(u) : call[w].do = "grant" => RolesOf(u) = {}
  /\ Exists(u) /\ (\A w \in ChangingRoles(u) : call[w].do = "clear") =>
       \E r \in RoleIds : RolesOf(u) = {<<u, r>>}

RoleInv == \A u \in People \ torn : Reseeded(u) \/ Settled(u)

AccountInv == AccountForm /\ SessionInv /\ RoleInv

LEMMA CallIs ==
  ASSUME NEW c \in Call
  PROVE  /\ c.do \in {"nothing", "create", "clear", "grant", "active", "issue", "password", "reset"}
         /\ c = NoCall <=> c.do = "nothing"
         /\ c.do # "nothing" => c.of \in People
         /\ c.do \in {"create", "clear", "grant"} => c.role \in RoleIds
         /\ c.do \in {"create", "password", "reset"} => c.password \in Secrets
         /\ c.do = "active" => c.active \in BOOLEAN
         /\ c.do = "issue" => c.version \in Nat /\ c.opened \in Secrets
         /\ c.do = "reset" => c.token \in Token
BY DEF Call, NoCall

LEMMA RowIs ==
  ASSUME AccountForm, NEW u \in People
  PROVE  Exists(u) <=> account[u] \in [password : Secrets, version : Nat, active : BOOLEAN]
<1>1. NoAccount.password = Nobody
  BY DEF NoAccount
<1>2. NoAccount \notin [password : Secrets, version : Nat, active : BOOLEAN]
  BY <1>1, PlatformAssumption DEF Secrets
<1>. QED
  BY <1>2 DEF AccountForm, AccountRow, Exists

\* What may become of an account: it stays, its password is changed with its version,
\* or nothing but its being active.
Older ==
  \A u \in People :
    Exists(u) =>
      /\ Exists(u)'
      /\ \/ account'[u].version > account[u].version
         \/ account'[u].version = account[u].version /\ account'[u].password = account[u].password

LEMMA RowChanges ==
  ASSUME NEW t \in [password : Secrets, version : Nat, active : BOOLEAN],
         NEW b \in BOOLEAN
  PROVE  /\ [t EXCEPT !.active = b] \in [password : Secrets, version : Nat, active : BOOLEAN]
         /\ [t EXCEPT !.active = b].version = t.version
         /\ [t EXCEPT !.active = b].password = t.password
OBVIOUS

LEMMA Renewed ==
  ASSUME AccountForm, NEW u \in People, Exists(u), NEW p, account' = WithPassword(u, p)
  PROVE  account'[u] = [password |-> p, version |-> account[u].version + 1,
                        active |-> account[u].active]
<1>. PICK g : g = [account EXCEPT ![u].password = p]
  OBVIOUS
<1>1. account[u] \in [password : Secrets, version : Nat, active : BOOLEAN]
  BY RowIs
<1>2. account' = [g EXCEPT ![u].version = @ + 1]
  BY DEF WithPassword
<1>3. g[u] = [password |-> p, version |-> account[u].version, active |-> account[u].active]
  BY <1>1 DEF AccountForm
<1>4. account'[u] = [g[u] EXCEPT !.version = @ + 1]
  BY <1>2 DEF AccountForm
<1>. QED
  BY <1>3, <1>4

LEMMA AccountMoves ==
  ASSUME AccountForm, NEW u \in People,
         \/ /\ ~Exists(u)
            /\ \E p \in Secrets :
                 account' = [account EXCEPT ![u] = [password |-> p, version |-> 0, active |-> TRUE]]
         \/ Exists(u) /\ \E b \in BOOLEAN : account' = [account EXCEPT ![u].active = b]
         \/ Exists(u) /\ \E p \in Secrets : account' = WithPassword(u, p)
  PROVE  /\ account' \in [People -> AccountRow] /\ Older
         /\ Exists(u)' /\ \A x \in People \ {u} : account'[x] = account[x]
<1>. PICK Row : Row = [password : Secrets, version : Nat, active : BOOLEAN]
  OBVIOUS
<1>1. account \in [People -> AccountRow] /\ (Exists(u) <=> account[u] \in Row)
  BY RowIs DEF AccountForm
<1>2. \A x \in People \ {u} : account'[x] = account[x]
  BY <1>1 DEF WithPassword
<1>3. account'[u] \in Row
  <2>1. CASE ~Exists(u)
    <3>1. PICK p \in Secrets :
            account' = [account EXCEPT ![u] = [password |-> p, version |-> 0, active |-> TRUE]]
      BY <2>1
    <3>2. account'[u] = [password |-> p, version |-> 0, active |-> TRUE]
      BY <1>1, <3>1
    <3>. QED
      BY <3>2
  <2>2. ASSUME NEW b \in BOOLEAN, Exists(u), account' = [account EXCEPT ![u].active = b]
        PROVE  account'[u] \in Row
    BY <1>1, <2>2, RowChanges
  <2>3. ASSUME NEW p \in Secrets, Exists(u), account' = WithPassword(u, p)
        PROVE  account'[u] \in Row
    <3>1. account'[u] = [password |-> p, version |-> account[u].version + 1,
                         active |-> account[u].active]
      BY <2>3, Renewed
    <3>. QED
      BY <1>1, <2>3, <3>1
  <2>. QED
    BY <2>1, <2>2, <2>3
<1>4. account' \in [People -> AccountRow]
  BY <1>1, <1>2, <1>3 DEF AccountRow, WithPassword
<1>5. account'[u] # NoAccount
  BY <1>3, PlatformAssumption DEF NoAccount, Secrets
<1>6. Exists(u) =>
        \/ account'[u].version > account[u].version
        \/ account'[u].version = account[u].version /\ account'[u].password = account[u].password
  <2>1. ASSUME NEW b \in BOOLEAN, Exists(u), account' = [account EXCEPT ![u].active = b]
        PROVE  account'[u].version = account[u].version /\ account'[u].password = account[u].password
    BY <1>1, <2>1, RowChanges
  <2>2. ASSUME NEW p \in Secrets, Exists(u), account' = WithPassword(u, p)
        PROVE  account'[u].version > account[u].version
    <3>1. account'[u] = [password |-> p, version |-> account[u].version + 1,
                         active |-> account[u].active]
      BY <2>2, Renewed
    <3>. QED
      BY <1>1, <2>2, <3>1
  <2>. QED
    BY <2>1, <2>2
<1>. QED
  BY <1>2, <1>4, <1>5, <1>6 DEF Older, Exists

LEMMA AccountStays ==
  ASSUME UNCHANGED account
  PROVE  Older
BY DEF Older, Exists

LEMMA FitsStill ==
  ASSUME AccountForm, Older, NEW s, s.of \in People, s.version \in Nat, Fits(s),
         account' \in [People -> AccountRow]
  PROVE  Fits(s)'
<1>1. account[s.of].version \in Nat /\ account'[s.of].version \in Nat
  BY DEF AccountForm, AccountRow, NoAccount
<1>. QED
  BY <1>1 DEF Fits, Older

---- \* What a step of a request does to accounts and sessions

NeedsAccount == {"active", "password", "reset", "clear", "grant"}

\* The request of w goes on as c; the others are not touched.
Becomes(w, c) ==
  /\ c \in Call /\ call' \in [Callers -> Call] /\ call'[w] = c
  /\ \A v \in Callers \ {w} : call'[v] = call[v]

LEMMA TakesIs ==
  ASSUME AccountForm, NEW w \in Callers, NEW c \in Call, Takes(w, c)
  PROVE  call[w] = NoCall /\ Becomes(w, c)
BY DEF Takes, AccountForm, Becomes

LEMMA EndsIs ==
  ASSUME AccountForm, NEW w \in Callers, Ends(w)
  PROVE  Becomes(w, NoCall)
BY DEF Ends, AccountForm, Becomes, Call

LEMMA ExistsStill ==
  ASSUME Older, NEW u \in People, Exists(u)
  PROVE  Exists(u)'
BY DEF Older

LEMMA SessionKept ==
  ASSUME AccountForm, SessionInv, AccountForm', Older,
         NEW w \in Callers, NEW c, Becomes(w, c),
         c.do = "issue" => Fits(c)',
         c.do \in NeedsAccount => Exists(c.of)',
         \A s \in sessions' : s \in sessions \/ Fits(s)',
         \A t \in resets' : Exists(t.of)'
  PROVE  SessionInv'
<1>1. account' \in [People -> AccountRow]
  BY DEF AccountForm
<1>2. \A s \in sessions' : Fits(s)'
  BY <1>1, FitsStill DEF SessionInv, AccountForm, Session
<1>3. ASSUME NEW v \in Callers
      PROVE  /\ call'[v].do = "issue" => Fits(call[v])'
             /\ call'[v].do \in NeedsAccount => Exists(call[v].of)'
  <2>1. CASE v = w
    BY <2>1 DEF Becomes, Fits, Exists
  <2>2. CASE v # w
    <3>1. call'[v] = call[v] /\ call[v] \in Call
      BY <2>2 DEF Becomes, AccountForm
    <3>. PICK b : b = call[v]
      OBVIOUS
    <3>2. /\ b.do = "issue" => b.of \in People /\ b.version \in Nat
          /\ b.do \in NeedsAccount => b.of \in People
      BY <3>1, CallIs DEF NeedsAccount
    <3>3. b.do = "issue" => Fits(b)'
      BY <1>1, <3>2, FitsStill DEF SessionInv
    <3>4. b.do \in NeedsAccount => Exists(b.of)'
      BY <3>2, ExistsStill DEF SessionInv, NeedsAccount
    <3>. QED
      BY <3>1, <3>3, <3>4 DEF Fits, Exists
  <2>. QED
    BY <2>1, <2>2
<1>. QED
  BY <1>2, <1>3 DEF SessionInv, NeedsAccount

\* A request that only reads and remembers.
LEMMA OpeningStep ==
  ASSUME AccountForm, SessionInv, NEW w \in Callers, NEW c \in Call, Takes(w, c),
         c.do = "issue" => Fits(c), c.do \in NeedsAccount => Exists(c.of),
         UNCHANGED <<account, holds, resets, sessions>>
  PROVE  AccountForm' /\ SessionInv' /\ Older /\ call[w] = NoCall /\ Becomes(w, c)
<1>1. call[w] = NoCall /\ Becomes(w, c)
  BY TakesIs
<1>2. AccountForm'
  BY <1>1 DEF AccountForm, Becomes
<1>3. Older
  BY AccountStays
<1>4. /\ c.do = "issue" => Fits(c)'
      /\ c.do \in NeedsAccount => Exists(c.of)'
      /\ \A t \in resets' : Exists(t.of)'
  BY DEF Fits, Exists, SessionInv
<1>. QED
  BY <1>1, <1>2, <1>3, <1>4, SessionKept

\* A request that ends, with what it did to the account of one person.
LEMMA ClosingStep ==
  ASSUME AccountForm, SessionInv, NEW w \in Callers, Ends(w),
         account' \in [People -> AccountRow], Older,
         holds' \subseteq People \X RoleIds,
         resets' \subseteq Token, \A t \in resets' : \E s \in resets : s.of = t.of,
         UNCHANGED sessions
  PROVE  AccountForm' /\ SessionInv' /\ Older /\ Becomes(w, NoCall)
<1>1. Becomes(w, NoCall)
  BY EndsIs
<1>2. AccountForm'
  BY <1>1 DEF AccountForm, Becomes
<1>3. \A t \in resets' : Exists(t.of)'
  BY ExistsStill DEF SessionInv, AccountForm, Token
<1>4. NoCall.do = "nothing"
  BY DEF NoCall
<1>. QED
  BY <1>1, <1>2, <1>3, <1>4, SessionKept DEF NeedsAccount

LEMMA SessionSteps ==
  ASSUME AccountForm, SessionInv, NEW w \in Callers, AccountSteps(w)
  PROVE  AccountForm' /\ SessionInv' /\ Older
<1>. PICK j : j = call[w]
  OBVIOUS
<1>0. j \in Call
  BY DEF AccountForm
<1>1. CASE CreateUser(w)
  <2>1. PICK u \in Applicants, r \in RoleIds \ Reserved, p \in Passwords :
          Takes(w, [do |-> "create", of |-> u, role |-> r, password |-> p])
    BY <1>1 DEF CreateUser
  <2>. PICK c : c = [do |-> "create", of |-> u, role |-> r, password |-> p]
    OBVIOUS
  <2>2. c \in Call /\ c.do = "create"
    BY PlatformAssumption DEF Call, Secrets
  <2>. QED
    BY <1>1, <2>1, <2>2, OpeningStep DEF CreateUser, NeedsAccount
<1>2. CASE ChangeRole(w)
  <2>1. PICK u \in People, r \in RoleIds :
          Exists(u) /\ Takes(w, [do |-> "clear", of |-> u, role |-> r])
    BY <1>2 DEF ChangeRole
  <2>. PICK c : c = [do |-> "clear", of |-> u, role |-> r]
    OBVIOUS
  <2>2. c \in Call /\ c.do = "clear" /\ c.of = u
    BY DEF Call
  <2>. QED
    BY <1>2, <2>1, <2>2, OpeningStep DEF ChangeRole, NeedsAccount
<1>3. CASE SetActive(w)
  <2>1. PICK u, b :
          /\ u \in People /\ b \in {~account[u].active, FALSE} /\ Exists(u)
          /\ Takes(w, [do |-> "active", of |-> u, active |-> b])
    BY <1>3 DEF SetActive
  <2>. PICK c : c = [do |-> "active", of |-> u, active |-> b]
    OBVIOUS
  <2>2. c \in Call /\ c.do = "active" /\ c.of = u
    <3>1. b \in BOOLEAN
      BY <2>1
    <3>. QED
      BY <2>1, <3>1 DEF Call
  <2>. QED
    BY <1>3, <2>1, <2>2, OpeningStep DEF SetActive, NeedsAccount
<1>4. CASE Login(w)
  <2>1. PICK u \in People :
          /\ Exists(u)
          /\ Takes(w, [do |-> "issue", of |-> u, version |-> account[u].version,
                       opened |-> account[u].password])
    BY <1>4 DEF Login
  <2>. PICK c : c = [do |-> "issue", of |-> u, version |-> account[u].version,
                     opened |-> account[u].password]
    OBVIOUS
  <2>2. account[u].version \in Nat /\ account[u].password \in Secrets
    BY <2>1, RowIs
  <2>3. c \in Call /\ c.do = "issue"
    BY <2>2 DEF Call
  <2>4. Fits(c)
    BY <2>1, <2>2 DEF Fits
  <2>. QED
    BY <1>4, <2>1, <2>3, <2>4, OpeningStep DEF Login, NeedsAccount
<1>5. CASE Refresh(w)
  <2>1. PICK s \in sessions :
          /\ account[s.of].version = s.version
          /\ Takes(w, [do |-> "issue", of |-> s.of, version |-> account[s.of].version,
                       opened |-> s.opened])
    BY <1>5 DEF Refresh
  <2>. PICK c : c = [do |-> "issue", of |-> s.of, version |-> account[s.of].version,
                     opened |-> s.opened]
    OBVIOUS
  <2>2. s.of \in People /\ s.version \in Nat /\ s.opened \in Secrets /\ Fits(s)
    BY DEF AccountForm, Session, SessionInv
  <2>3. c \in Call /\ c.do = "issue"
    BY <2>1, <2>2 DEF Call
  <2>4. Fits(c)
    BY <2>1, <2>2 DEF Fits
  <2>. QED
    BY <1>5, <2>1, <2>3, <2>4, OpeningStep DEF Refresh, NeedsAccount
<1>6. CASE ChangePassword(w)
  <2>1. PICK u \in People, p \in Passwords :
          Exists(u) /\ Takes(w, [do |-> "password", of |-> u, password |-> p])
    BY <1>6 DEF ChangePassword
  <2>. PICK c : c = [do |-> "password", of |-> u, password |-> p]
    OBVIOUS
  <2>2. c \in Call /\ c.do = "password" /\ c.of = u
    BY DEF Call, Secrets
  <2>. QED
    BY <1>6, <2>1, <2>2, OpeningStep DEF ChangePassword, NeedsAccount
<1>7. CASE ResetPassword(w)
  <2>1. PICK t \in resets, p \in Passwords :
          Takes(w, [do |-> "reset", of |-> t.of, token |-> t, password |-> p])
    BY <1>7 DEF ResetPassword
  <2>. PICK c : c = [do |-> "reset", of |-> t.of, token |-> t, password |-> p]
    OBVIOUS
  <2>2. t \in Token /\ t.of \in People /\ Exists(t.of)
    BY DEF AccountForm, Token, SessionInv
  <2>3. c \in Call /\ c.do = "reset" /\ c.of = t.of
    BY <2>2 DEF Call, Secrets
  <2>. QED
    BY <1>7, <2>1, <2>2, <2>3, OpeningStep DEF ResetPassword, NeedsAccount
<1>8. CASE InsertUser(w)
  <2>1. j.do = "create" /\ Ends(w)
    BY <1>8 DEF InsertUser
  <2>2. j.of \in People /\ j.role \in RoleIds /\ j.password \in Secrets
    BY <1>0, <2>1, CallIs
  <2>3. CASE UNCHANGED <<account, holds>>
    <3>1. account' \in [People -> AccountRow] /\ holds' \subseteq People \X RoleIds
      BY <2>3 DEF AccountForm
    <3>2. UNCHANGED <<resets, sessions>> /\ resets \subseteq Token
      BY <1>8 DEF InsertUser, AccountForm
    <3>. QED
      BY <2>1, <2>3, <3>1, <3>2, AccountStays, ClosingStep
  <2>4. CASE ~UNCHANGED <<account, holds>>
    <3>1. /\ ~Exists(j.of)
          /\ account' = [account EXCEPT ![j.of] =
                           [password |-> j.password, version |-> 0, active |-> TRUE]]
          /\ holds' = holds \cup {<<j.of, j.role>>}
          /\ UNCHANGED <<resets, sessions>>
      BY <1>8, <2>4 DEF InsertUser
    <3>2. account' \in [People -> AccountRow] /\ Older
      BY <2>2, <3>1, AccountMoves
    <3>3. holds' \subseteq People \X RoleIds /\ resets \subseteq Token
      BY <2>2, <3>1 DEF AccountForm
    <3>. QED
      BY <2>1, <3>1, <3>2, <3>3, ClosingStep
  <2>. QED
    BY <2>3, <2>4
<1>9. CASE WriteActive(w)
  <2>1. j.do = "active" /\ Ends(w) /\ account' = [account EXCEPT ![j.of].active = j.active]
        /\ UNCHANGED <<holds, resets, sessions>>
    BY <1>9 DEF WriteActive
  <2>2. j.of \in People /\ Exists(j.of) /\ j.active \in BOOLEAN
    BY <1>0, <2>1, CallIs DEF SessionInv
  <2>3. account' \in [People -> AccountRow] /\ Older
    BY <2>1, <2>2, AccountMoves
  <2>4. holds' \subseteq People \X RoleIds /\ resets' \subseteq Token
    BY <2>1 DEF AccountForm
  <2>. QED
    BY <2>1, <2>3, <2>4, ClosingStep
<1>10. CASE WritePassword(w) \/ CommitReset(w)
  <2>1. j.do \in {"password", "reset"} /\ Ends(w) /\ account' = WithPassword(j.of, j.password)
        /\ UNCHANGED <<holds, sessions>>
    BY <1>10 DEF WritePassword, CommitReset
  <2>2. j.of \in People /\ Exists(j.of) /\ j.password \in Secrets
    BY <1>0, <2>1, CallIs DEF SessionInv
  <2>3. account' \in [People -> AccountRow] /\ Older
    BY <2>1, <2>2, AccountMoves
  <2>4. resets' = resets \/
        resets' = {IF SameToken(t, j.token) THEN [t EXCEPT !.used = TRUE] ELSE t : t \in resets}
    BY <1>10 DEF WritePassword, CommitReset
  <2>5. \A t \in Token : [t EXCEPT !.used = TRUE] \in Token /\ [t EXCEPT !.used = TRUE].of = t.of
    BY DEF Token
  <2>6. resets' \subseteq Token /\ \A t \in resets' : \E s \in resets : s.of = t.of
    BY <2>4, <2>5 DEF AccountForm
  <2>7. holds' \subseteq People \X RoleIds
    BY <2>1 DEF AccountForm
  <2>. QED
    BY <2>1, <2>3, <2>6, <2>7, ClosingStep
<1>11. CASE GrantRole(w) \/ CallDies(w)
  <2>1. Ends(w) /\ UNCHANGED <<account, resets, sessions>>
        /\ (holds' = holds \/ (j.do = "grant" /\ holds' = holds \cup {<<j.of, j.role>>}))
    BY <1>11 DEF GrantRole, CallDies
  <2>2. account' \in [People -> AccountRow] /\ Older /\ resets' \subseteq Token
    BY <2>1, AccountStays DEF AccountForm
  <2>3. holds' \subseteq People \X RoleIds
    BY <1>0, <2>1, CallIs DEF AccountForm
  <2>. QED
    BY <2>1, <2>2, <2>3, ClosingStep
<1>12. CASE ClearRoles(w)
  <2>1. j.do = "clear" /\ call' = [call EXCEPT ![w].do = "grant"] /\ holds' = Cleared(j.of)
        /\ UNCHANGED <<account, resets, sessions>>
    BY <1>12 DEF ClearRoles
  <2>. PICK c : c = [j EXCEPT !.do = "grant"]
    OBVIOUS
  <2>2. j \in [do : {"clear", "grant"}, of : People, role : RoleIds]
    BY <1>0, <2>1 DEF Call, NoCall
  <2>3. c \in Call /\ c.do = "grant" /\ c.of = j.of
    BY <2>2 DEF Call
  <2>4. Becomes(w, c)
    BY <2>1, <2>3 DEF Becomes, AccountForm
  <2>5. AccountForm'
    BY <2>1, <2>4 DEF AccountForm, Cleared, Becomes
  <2>6. Exists(j.of)' /\ Older
    BY <2>1, AccountStays DEF SessionInv, Exists
  <2>7. \A t \in resets' : Exists(t.of)'
    BY <2>1 DEF SessionInv, Exists
  <2>. QED
    BY <2>1, <2>3, <2>4, <2>5, <2>6, <2>7, SessionKept
<1>13. CASE IssueTokens(w)
  <2>. PICK s : s = [of |-> j.of, version |-> j.version, opened |-> j.opened]
    OBVIOUS
  <2>1. j.do = "issue" /\ Ends(w) /\ sessions' = sessions \cup {s}
        /\ UNCHANGED <<account, holds, resets>>
    BY <1>13 DEF IssueTokens
  <2>2. s \in Session
    BY <1>0, <2>1, CallIs DEF Session
  <2>3. Becomes(w, NoCall)
    BY <2>1, EndsIs
  <2>4. AccountForm'
    BY <2>1, <2>2, <2>3 DEF AccountForm, Becomes
  <2>5. Fits(s)'
    BY <2>1 DEF SessionInv, Fits, Exists
  <2>6. \A t \in resets' : Exists(t.of)'
    BY <2>1 DEF SessionInv, Exists
  <2>7. NoCall.do = "nothing"
    BY DEF NoCall
  <2>. QED
    BY <2>1, <2>3, <2>4, <2>5, <2>6, <2>7, AccountStays, SessionKept DEF NeedsAccount
<1>14. CASE ForgotPassword(w)
  <2>1. PICK u \in People, k \in 1..MaxResets :
          /\ Exists(u)
          /\ resets' = resets \cup {[of |-> u, k |-> k, used |-> FALSE, late |-> FALSE]}
    BY <1>14 DEF ForgotPassword
  <2>. PICK t : t = [of |-> u, k |-> k, used |-> FALSE, late |-> FALSE]
    OBVIOUS
  <2>2. t \in Token /\ t.of = u
    BY DEF Token
  <2>3. UNCHANGED <<account, holds, sessions, call>>
    BY <1>14 DEF ForgotPassword
  <2>4. AccountForm'
    BY <2>1, <2>2, <2>3 DEF AccountForm
  <2>. QED
    BY <2>1, <2>2, <2>3, <2>4, AccountStays DEF SessionInv, Fits, Exists
<1>. QED
  BY <1>1, <1>2, <1>3, <1>4, <1>5, <1>6, <1>7, <1>8, <1>9, <1>10, <1>11, <1>12, <1>13, <1>14
  DEF AccountSteps

---- \* Roles

Changes(c, u) == c.do \in {"clear", "grant"} /\ c.of = u

LEMMA SettledStill ==
  ASSUME NEW w \in Callers, NEW c, Becomes(w, c), NEW u \in People, Settled(u),
         ~Changes(call[w], u), ~Changes(c, u),
         RolesOf(u)' = RolesOf(u), Exists(u)' <=> Exists(u)
  PROVE  Settled(u)'
<1>1. ChangingRoles(u)' = ChangingRoles(u)
      /\ \A v \in ChangingRoles(u) : call'[v] = call[v]
  BY DEF ChangingRoles, Becomes, Changes
<1>. QED
  BY <1>1 DEF Settled

LEMMA OthersSettled ==
  ASSUME UNCHANGED <<account, holds, call>>, NEW u \in People, Settled(u)
  PROVE  Settled(u)'
BY DEF Settled, RolesOf, ChangingRoles, Exists

\* After the last statement of the only request that changes the roles of u.
LEMMA SettledAfter ==
  ASSUME NEW w \in Callers, Becomes(w, NoCall), NEW u \in People,
         \A v \in ChangingRoles(u) : v = w,
         Exists(u)', NEW r \in RoleIds, RolesOf(u)' = {<<u, r>>}
  PROVE  Settled(u)'
<1>1. ChangingRoles(u)' = {}
  BY DEF ChangingRoles, Becomes, NoCall
<1>. QED
  BY <1>1 DEF Settled

LEMMA RoleSteps ==
  ASSUME AccountForm, SessionInv, RoleInv, NEW w \in Callers, AccountSteps(w), UNCHANGED open
  PROVE  RoleInv'
<1>. PICK j : j = call[w]
  OBVIOUS
<1>0. j \in Call
  BY DEF AccountForm
<1>a. torn \subseteq torn'
  BY DEF AccountSteps, CreateUser, InsertUser, SetActive, WriteActive, ChangeRole, ClearRoles,
     GrantRole, Login, IssueTokens, Refresh, ChangePassword, WritePassword, ForgotPassword,
     ResetPassword, CommitReset, CallDies
<1>. SUFFICES ASSUME NEW u \in People \ torn', ~Reseeded(u)' PROVE Settled(u)'
  BY DEF RoleInv
<1>b. Settled(u)
  BY <1>a DEF RoleInv, Reseeded
<1>1. CASE CreateUser(w) \/ SetActive(w) \/ Login(w) \/ Refresh(w) \/ ChangePassword(w)
           \/ ResetPassword(w)
  <2>1. PICK c : /\ Takes(w, c) /\ c.do \notin {"clear", "grant"}
                 /\ UNCHANGED <<account, holds>>
    BY <1>1 DEF CreateUser, SetActive, Login, Refresh, ChangePassword, ResetPassword
  <2>2. /\ call[w] = NoCall /\ call'[w] = c /\ \A v \in Callers \ {w} : call'[v] = call[v]
    BY <2>1 DEF Takes, AccountForm
  <2>3. ChangingRoles(u)' = ChangingRoles(u)
        /\ \A v \in ChangingRoles(u) : call'[v] = call[v]
    BY <2>1, <2>2 DEF ChangingRoles, NoCall
  <2>. QED
    BY <1>b, <2>1, <2>3 DEF Settled, RolesOf, Exists
<1>2. CASE ForgotPassword(w)
  BY <1>2, <1>b, OthersSettled DEF ForgotPassword
<1>3. CASE IssueTokens(w) \/ WriteActive(w) \/ WritePassword(w) \/ CommitReset(w)
  <2>1. Ends(w) /\ j.do \in {"issue", "active", "password", "reset"} /\ UNCHANGED holds
    BY <1>3 DEF IssueTokens, WriteActive, WritePassword, CommitReset
  <2>2. Becomes(w, NoCall) /\ NoCall.do = "nothing"
    BY <2>1, EndsIs DEF NoCall
  <2>3. Exists(u)' <=> Exists(u)
    <3>1. CASE IssueTokens(w)
      BY <3>1 DEF IssueTokens, Exists
    <3>2. CASE ~IssueTokens(w)
      <4>1. \/ account' = [account EXCEPT ![j.of].active = j.active] /\ j.do = "active"
            \/ account' = WithPassword(j.of, j.password) /\ j.do \in {"password", "reset"}
        <5>1. CASE WriteActive(w)
          BY <5>1 DEF WriteActive
        <5>2. CASE WritePassword(w) \/ CommitReset(w)
          BY <5>2 DEF WritePassword, CommitReset
        <5>. QED
          BY <1>3, <3>2, <5>1, <5>2
      <4>2. /\ j.of \in People /\ Exists(j.of)
            /\ j.do = "active" => j.active \in BOOLEAN
            /\ j.do \in {"password", "reset"} => j.password \in Secrets
        BY <1>0, <2>1, <4>1, CallIs DEF SessionInv
      <4>3. Exists(j.of)' /\ \A x \in People \ {j.of} : account'[x] = account[x]
        BY <4>1, <4>2, AccountMoves
      <4>. QED
        BY <4>2, <4>3 DEF Exists
    <3>. QED
      BY <3>1, <3>2
  <2>. QED
    BY <1>b, <2>1, <2>2, <2>3, SettledStill DEF Changes, RolesOf
<1>4. CASE InsertUser(w)
  <2>1. j.do = "create" /\ Ends(w)
    BY <1>4 DEF InsertUser
  <2>2. j.of \in People /\ j.role \in RoleIds /\ j.password \in Secrets
    BY <1>0, <2>1, CallIs
  <2>3. Becomes(w, NoCall) /\ NoCall.do = "nothing"
    BY <2>1, EndsIs DEF NoCall
  <2>4. CASE UNCHANGED <<account, holds>>
    BY <1>b, <2>1, <2>3, <2>4, SettledStill DEF Changes, RolesOf, Exists
  <2>5. CASE ~UNCHANGED <<account, holds>>
    <3>1. /\ ~Exists(j.of) /\ holds' = holds \cup {<<j.of, j.role>>}
          /\ account' = [account EXCEPT ![j.of] =
                           [password |-> j.password, version |-> 0, active |-> TRUE]]
      BY <1>4, <2>5 DEF InsertUser
    <3>2. Exists(j.of)' /\ \A x \in People \ {j.of} : account'[x] = account[x]
      BY <2>2, <3>1, AccountMoves
    <3>3. CASE u = j.of
      <4>1. RolesOf(u) = {} /\ ChangingRoles(u) = {}
        BY <1>b, <3>1, <3>3 DEF Settled
      <4>2. RolesOf(u)' = {<<u, j.role>>}
        BY <3>1, <3>3, <4>1 DEF RolesOf
      <4>. QED
        BY <2>2, <2>3, <3>2, <3>3, <4>1, <4>2, SettledAfter
    <3>4. CASE u # j.of
      <4>1. RolesOf(u)' = RolesOf(u) /\ (Exists(u)' <=> Exists(u))
        BY <3>1, <3>2, <3>4 DEF RolesOf, Exists
      <4>. QED
        BY <1>b, <2>1, <2>3, <4>1, SettledStill DEF Changes
    <3>. QED
      BY <3>3, <3>4
  <2>. QED
    BY <2>4, <2>5
<1>5. CASE ChangeRole(w)
  <2>1. PICK x \in People, r \in RoleIds :
          /\ Exists(x) /\ Takes(w, [do |-> "clear", of |-> x, role |-> r])
          /\ torn' = torn \cup (IF ChangingRoles(x) # {} THEN {x} ELSE {})
          /\ UNCHANGED <<account, holds>>
    BY <1>5 DEF ChangeRole
  <2>. PICK c : c = [do |-> "clear", of |-> x, role |-> r]
    OBVIOUS
  <2>2. c \in Call /\ c.do = "clear" /\ c.of = x
    BY DEF Call
  <2>3. call[w] = NoCall /\ Becomes(w, c) /\ NoCall.do = "nothing"
    BY <2>1, <2>2, TakesIs DEF NoCall
  <2>4. CASE x # u
    BY <1>b, <2>1, <2>2, <2>3, <2>4, SettledStill DEF Changes, RolesOf, Exists
  <2>5. CASE x = u
    <3>1. ChangingRoles(u) = {}
      BY <2>1, <2>5
    <3>2. ChangingRoles(u)' = {w} /\ call'[w].do = "clear"
      BY <2>2, <2>3, <2>5, <3>1 DEF ChangingRoles, Becomes
    <3>3. PICK q \in RoleIds : RolesOf(u) = {<<u, q>>}
      BY <1>b, <2>1, <2>5, <3>1 DEF Settled
    <3>. QED
      BY <2>1, <2>5, <3>2, <3>3 DEF Settled, RolesOf, Exists
  <2>. QED
    BY <2>4, <2>5
<1>6. CASE ClearRoles(w)
  <2>1. j.do = "clear" /\ call' = [call EXCEPT ![w].do = "grant"] /\ holds' = Cleared(j.of)
        /\ UNCHANGED account
    BY <1>6 DEF ClearRoles
  <2>. PICK c : c = [j EXCEPT !.do = "grant"]
    OBVIOUS
  <2>2. j \in [do : {"clear", "grant"}, of : People, role : RoleIds]
    BY <1>0, <2>1 DEF Call, NoCall
  <2>3. c \in Call /\ c.do = "grant" /\ c.of = j.of
    BY <2>2 DEF Call
  <2>4. Becomes(w, c)
    BY <2>1, <2>3 DEF Becomes, AccountForm
  <2>5. CASE u # j.of
    <3>1. RolesOf(u)' = RolesOf(u) /\ (Exists(u)' <=> Exists(u))
      BY <2>1, <2>5 DEF RolesOf, Cleared, Exists
    <3>. QED
      BY <1>b, <2>3, <2>4, <2>5, <3>1, SettledStill DEF Changes
  <2>6. CASE u = j.of
    <3>1. w \in ChangingRoles(u)
      BY <2>1, <2>6 DEF ChangingRoles
    <3>2. ChangingRoles(u) = {w}
      BY <1>b, <3>1 DEF Settled
    <3>3. ChangingRoles(u)' = {w} /\ call'[w].do = "grant"
      <4>1. \A v \in Callers \ {w} : ~Changes(call'[v], u)
        BY <2>4, <3>2 DEF ChangingRoles, Becomes, Changes
      <4>2. call'[w].do = "grant" /\ call'[w].of = u
        BY <2>3, <2>4, <2>6 DEF Becomes
      <4>. QED
        BY <4>1, <4>2 DEF ChangingRoles, Changes
    <3>4. RolesOf(u)' = {} /\ Exists(u)'
      BY <2>1, <2>6 DEF RolesOf, Cleared, SessionInv, Exists
    <3>. QED
      BY <3>3, <3>4 DEF Settled
  <2>. QED
    BY <2>5, <2>6
<1>7. CASE GrantRole(w)
  <2>1. j.do = "grant" /\ Ends(w) /\ UNCHANGED account
    BY <1>7 DEF GrantRole
  <2>2. j.of \in People /\ j.role \in RoleIds /\ Exists(j.of)
    BY <1>0, <2>1, CallIs DEF SessionInv
  <2>3. Becomes(w, NoCall) /\ NoCall.do = "nothing"
    BY <2>1, EndsIs DEF NoCall
  <2>4. CASE u # j.of
    <3>1. RolesOf(u)' = RolesOf(u) /\ (Exists(u)' <=> Exists(u))
      BY <1>7, <2>1, <2>4 DEF GrantRole, RolesOf, Exists
    <3>. QED
      BY <1>b, <2>3, <2>4, <3>1, SettledStill DEF Changes
  <2>5. CASE u = j.of
    <3>1. holds' = holds \cup {<<u, j.role>>}
      BY <1>7, <2>5 DEF GrantRole
    <3>2. w \in ChangingRoles(u) /\ call[w].do = "grant"
      BY <2>1, <2>5 DEF ChangingRoles
    <3>3. RolesOf(u) = {} /\ \A v \in ChangingRoles(u) : v = w
      BY <1>b, <3>2 DEF Settled
    <3>4. RolesOf(u)' = {<<u, j.role>>} /\ Exists(u)'
      BY <2>1, <2>2, <2>5, <3>1, <3>3 DEF RolesOf, Exists
    <3>. QED
      BY <2>2, <2>3, <3>3, <3>4, SettledAfter
  <2>. QED
    BY <2>4, <2>5
<1>8. CASE CallDies(w)
  <2>1. Ends(w) /\ UNCHANGED <<account, holds>>
        /\ torn' = torn \cup (IF j.do = "grant" THEN {j.of} ELSE {})
    BY <1>8 DEF CallDies
  <2>2. Becomes(w, NoCall) /\ NoCall.do = "nothing"
    BY <2>1, EndsIs DEF NoCall
  <2>3. CASE ~Changes(j, u)
    BY <1>b, <2>1, <2>2, <2>3, SettledStill DEF Changes, RolesOf, Exists
  <2>4. CASE Changes(j, u)
    <3>1. j.do = "clear" /\ j.of = u
      BY <2>1, <2>4 DEF Changes
    <3>2. w \in ChangingRoles(u) /\ Exists(u)
      BY <3>1 DEF ChangingRoles, SessionInv
    <3>3. ChangingRoles(u) = {w}
      BY <1>b, <3>2 DEF Settled
    <3>4. PICK q \in RoleIds : RolesOf(u) = {<<u, q>>}
      BY <1>b, <3>1, <3>2, <3>3 DEF Settled
    <3>5. RolesOf(u)' = {<<u, q>>} /\ Exists(u)'
      BY <2>1, <3>2, <3>4 DEF RolesOf, Exists
    <3>. QED
      BY <2>2, <3>3, <3>5, SettledAfter
  <2>. QED
    BY <2>3, <2>4
<1>. QED
  BY <1>1, <1>2, <1>3, <1>4, <1>5, <1>6, <1>7, <1>8 DEF AccountSteps

---- \* The platform

LEMMA Untouched ==
  ASSUME AccountForm, SessionInv, RoleInv, UNCHANGED <<accountVars, open>>
  PROVE  AccountForm' /\ SessionInv' /\ RoleInv'
<1>1. UNCHANGED <<account, holds, resets, sessions, call, torn>>
  BY DEF accountVars
<1>2. AccountForm'
  BY <1>1 DEF AccountForm
<1>3. SessionInv'
  BY <1>1 DEF SessionInv, Fits, Exists
<1>4. RoleInv'
  BY <1>1, OthersSettled DEF RoleInv, Reseeded
<1>. QED
  BY <1>2, <1>3, <1>4

LEMMA AccountsPartKeeps ==
  ASSUME AccountInv, AccountsPart, UNCHANGED open
  PROVE  AccountInv'
<1>2. CASE Hour
  <2>1. PICK t \in resets : resets' = (resets \ {t}) \cup {[t EXCEPT !.late = TRUE]}
    BY <1>2 DEF Hour
  <2>2. [t EXCEPT !.late = TRUE] \in Token /\ [t EXCEPT !.late = TRUE].of = t.of
    BY DEF AccountInv, AccountForm, Token
  <2>3. UNCHANGED <<account, holds, sessions, call, torn>>
    BY <1>2 DEF Hour
  <2>4. AccountForm'
    BY <2>1, <2>2, <2>3 DEF AccountInv, AccountForm
  <2>5. SessionInv'
    BY <2>1, <2>2, <2>3 DEF AccountInv, SessionInv, Fits, Exists
  <2>6. RoleInv'
    BY <2>3, OthersSettled DEF AccountInv, RoleInv, Reseeded
  <2>. QED
    BY <2>4, <2>5, <2>6 DEF AccountInv
<1>3. ASSUME NEW w \in Callers, AccountSteps(w) PROVE AccountInv'
  BY <1>3, SessionSteps, RoleSteps DEF AccountInv
<1>. QED
  BY <1>2, <1>3 DEF AccountsPart

LEMMA RolesPartKeeps ==
  ASSUME AccountInv, RolesPart \/ DeletionsPart, UNCHANGED open
  PROVE  AccountInv'
BY Untouched DEF RolesPart, DeletionsPart, AccountInv

LEMMA LoseRoleKeeps ==
  ASSUME AccountInv, NEW w \in Desks, LoseRole(w), UNCHANGED open
  PROVE  AccountInv'
<1>. PICK r : r = Subject(w)
  OBVIOUS
<1>1. /\ holds' = {h \in holds : h[2] # r} /\ torn' = torn \cup {u \in People : <<u, r>> \in holds}
      /\ UNCHANGED <<account, resets, sessions, call>>
  BY DEF LoseRole
<1>3. AccountForm' /\ SessionInv'
  BY <1>1 DEF AccountInv, AccountForm, SessionInv, Fits, Exists
<1>4. ASSUME NEW u \in People \ torn', ~Reseeded(u)' PROVE Settled(u)'
  <2>1. Settled(u) /\ <<u, r>> \notin holds
    BY <1>1, <1>4 DEF AccountInv, RoleInv, Reseeded
  <2>2. RolesOf(u)' = RolesOf(u)
    BY <1>1, <2>1 DEF RolesOf, AccountInv, AccountForm
  <2>3. ChangingRoles(u)' = ChangingRoles(u) /\ (Exists(u)' <=> Exists(u))
    BY <1>1 DEF ChangingRoles, Exists
  <2>. QED
    BY <1>1, <2>1, <2>2, <2>3 DEF Settled
<1>. QED
  BY <1>3, <1>4 DEF AccountInv, RoleInv

LEMMA SeedAdminKeeps ==
  ASSUME AccountInv, NEW w, SeedAdmin(w), "setup" \in open.parts,
         UNCHANGED open
  PROVE  AccountInv' /\ Older
<1>1. /\ account' = [account EXCEPT ![Admin] = IF Exists(Admin) THEN @ ELSE
                       [password |-> AdminPassword, version |-> 0, active |-> TRUE]]
      /\ holds' = holds \cup {<<Admin, AdminRole>>}
      /\ UNCHANGED <<resets, sessions, call, torn>>
  BY DEF SeedAdmin, AccountsRest
<1>2. Admin \in People /\ AdminRole \in RoleIds /\ AdminPassword \in Secrets
  BY PlatformAssumption DEF Secrets
<1>3. AccountForm
  BY DEF AccountInv
<1>4. /\ account' \in [People -> AccountRow] /\ Older
      /\ \A x \in People \ {Admin} : account'[x] = account[x]
  <2>1. CASE Exists(Admin)
    <3>1. account' = account
      BY <1>1, <1>3, <2>1 DEF AccountForm
    <3>. QED
      BY <1>3, <3>1, AccountStays DEF AccountForm
  <2>2. CASE ~Exists(Admin)
    <3>1. account' = [account EXCEPT ![Admin] =
                        [password |-> AdminPassword, version |-> 0, active |-> TRUE]]
      BY <1>1, <2>2
    <3>. QED
      BY <1>2, <1>3, <2>2, <3>1, AccountMoves
  <2>. QED
    BY <2>1, <2>2
<1>5. AccountForm'
  BY <1>1, <1>2, <1>3, <1>4 DEF AccountForm
<1>6. SessionInv'
  <2>1. ASSUME NEW s \in sessions PROVE Fits(s)'
    BY <1>3, <1>4, FitsStill DEF AccountInv, SessionInv, AccountForm, Session
  <2>2. ASSUME NEW v \in Callers
        PROVE  /\ call[v].do = "issue" => Fits(call[v])'
               /\ call[v].do \in NeedsAccount => Exists(call[v].of)'
    <3>1. call[v] \in Call /\ call'[v] = call[v]
      BY <1>1, <1>3 DEF AccountForm
    <3>. PICK b : b = call[v]
      OBVIOUS
    <3>2. /\ b.do = "issue" => b.of \in People /\ b.version \in Nat
          /\ b.do \in NeedsAccount => b.of \in People
      BY <3>1, CallIs DEF NeedsAccount
    <3>3. b.do = "issue" => Fits(b)'
      BY <1>3, <1>4, <3>2, FitsStill DEF AccountInv, SessionInv
    <3>4. b.do \in NeedsAccount => Exists(b.of)'
      BY <1>4, <3>2, ExistsStill DEF AccountInv, SessionInv, NeedsAccount
    <3>. QED
      BY <3>1, <3>3, <3>4 DEF Fits, Exists
  <2>3. \A t \in resets : Exists(t.of)'
    BY <1>3, <1>4, ExistsStill DEF AccountInv, SessionInv, AccountForm, Token
  <2>. QED
    BY <1>1, <2>1, <2>2, <2>3 DEF SessionInv, NeedsAccount
<1>7. ASSUME NEW u \in People \ torn', ~Reseeded(u)' PROVE Settled(u)'
  <2>1. u # Admin /\ Settled(u)
    BY <1>1, <1>7 DEF Reseeded, AccountInv, RoleInv
  <2>2. RolesOf(u)' = RolesOf(u) /\ (Exists(u)' <=> Exists(u))
    BY <1>1, <1>4, <2>1 DEF RolesOf, Exists
  <2>3. ChangingRoles(u)' = ChangingRoles(u)
    BY <1>1 DEF ChangingRoles
  <2>. QED
    BY <1>1, <2>1, <2>2, <2>3 DEF Settled
<1>. QED
  BY <1>4, <1>5, <1>6, <1>7 DEF RoleInv, AccountInv

\* With no import about, the seed of the administrator is what fills the accounts.
LEMMA FillsAccounts ==
  ASSUME TaskInv, NoImport, "setup" \in open.parts, NEW w \in Tasks, FillingSteps(w),
         ~SeedAdmin(w)
  PROVE  UNCHANGED accountVars
<1>1. \A v \in Tasks : ~ImportList(Todo(v))
  BY DEF TaskInv, Owned, NoImport
<1>2. \A x \in ImportDo : ~Has(w, x)
  BY <1>1, WhichList
<1>3. \/ SeedRole(w) \/ SeedRule(w) \/ SeedSettings(w) \/ EnsureAll(w) \/ Ready(w)
      \/ WriteNumber(w)
  BY <1>2 DEF FillingSteps, WipeAccounts, WipeRoles, WipeLists, BringRole, BringUser, BringHold,
     BringGrid, BringLookup, BringRow, KnowUsers, BringLog, BringSettings, BringRule, Reconcile,
     ImportDo
<1>. QED
  BY <1>3 DEF SeedRole, SeedRule, SeedSettings, EnsureAll, Ready, WriteNumber, Elsewhere,
     AccountsRest, accountVars

LEMMA SetupPartKeeps ==
  ASSUME BaseInv, AccountInv, NoImport, SetupPart, "setup" \in open.parts, UNCHANGED open
  PROVE  AccountInv'
<1>0. AccountForm /\ SessionInv /\ RoleInv /\ TaskInv
  BY DEF AccountInv, BaseInv
<1>1. ASSUME NEW w \in Scripts \cap open.staff PROVE FALSE
  BY DEF NoImport
<1>2. ASSUME NEW w \in Desks,
             \/ SaveSettings(w) \/ EditRule(w) \/ KeepLookup(w) \/ AddRow(w)
             \/ ColdStart(w) \/ TakeNumber(w)
      PROVE  AccountInv'
  <2>1. UNCHANGED accountVars
    BY <1>2 DEF SaveSettings, EditRule, KeepLookup, AddRow, Elsewhere, AccountsRest, accountVars,
       ColdStart, Filling, TakeNumber
  <2>. QED
    BY <1>0, <2>1, Untouched DEF AccountInv
<1>3. ASSUME NEW w \in Tasks, FillingSteps(w) PROVE AccountInv'
  <2>1. CASE SeedAdmin(w)
    BY <2>1, SeedAdminKeeps
  <2>2. CASE ~SeedAdmin(w)
    BY <1>0, <1>3, <2>2, FillsAccounts, Untouched DEF AccountInv
  <2>. QED
    BY <2>1, <2>2
<1>. QED
  BY <1>1, <1>2, <1>3 DEF SetupPart, Tasks

LEMMA AccountNext ==
  ASSUME BaseInv, AccountInv, NoImport, Next
  PROVE  AccountInv'
<1>1. UNCHANGED open
  BY DEF Next
<1>2. UNCHANGED accountVars => AccountInv'
  BY <1>1, Untouched DEF AccountInv
<1>. QED
  BY <1>1, <1>2, AccountsPartKeeps, RolesPartKeeps, LoseRoleKeeps, SetupPartKeeps DEF Next

LEMMA AccountStart ==
  ASSUME Init
  PROVE  AccountInv
<1>2. AccountForm
  BY DEF Init, AccountsInit, AccountForm, AccountRow, Call
<1>3. NoCall.do = "nothing" /\ \A w \in Callers : call[w] = NoCall
  BY DEF Init, AccountsInit, NoCall
<1>4. SessionInv
  BY <1>3 DEF Init, AccountsInit, SessionInv
<1>5. RoleInv
  BY <1>3 DEF Init, AccountsInit, RoleInv, Settled, RolesOf, ChangingRoles, Exists
<1>. QED
  BY <1>2, <1>4, <1>5 DEF AccountInv

LEMMA AccountsHold == Spec => [](NoImport => AccountInv)
<1>1. Init => (NoImport => AccountInv)
  BY AccountStart
<1>2. BaseInv /\ (NoImport => AccountInv) /\ [Next]_platformVars => (NoImport => AccountInv)'
  <2>. SUFFICES ASSUME BaseInv, NoImport => AccountInv, [Next]_platformVars, NoImport' PROVE AccountInv'
    OBVIOUS
  <2>1. CASE Next
    <3>1. NoImport
      BY <2>1 DEF Next, NoImport
    <3>. QED
      BY <2>1, <3>1, AccountNext
  <2>2. CASE UNCHANGED platformVars
    <3>1. UNCHANGED <<accountVars, open>>
      BY <2>2 DEF platformVars, setupVars
    <3>2. AccountInv
      BY <3>1 DEF NoImport
    <3>. QED
      BY <3>1, <3>2, Untouched DEF AccountInv
  <2>. QED
    BY <2>1, <2>2
<1>. QED
  BY <1>1, <1>2, BaseHolds, PTL DEF Spec

\* A session that can still be refreshed was opened with the present password
\* (auth/service.js:133, 216, 266): a login or a refresh signs the version it read
\* with the password it read, and whatever changes the password leaves that version
\* behind, also between the reading and the signing.
THEOREM SessionsCorrect == Spec => []SessionKnowsPassword
<1>1. (NoImport => AccountInv) => SessionKnowsPassword
  BY DEF AccountInv, SessionInv, Fits, SessionKnowsPassword
<1>. QED
  BY <1>1, AccountsHold, PTL

\* A user has one role (users/service.js:200) whatever requests, deaths, deletions of
\* roles and cold starts come between, but for those the property names.
THEOREM RolesCorrect == Spec => []OneRole
<1>1. (NoImport => AccountInv) => OneRole
  <2>. SUFFICES ASSUME NoImport, AccountInv, NEW u \in People, Exists(u), u \notin torn,
                       ChangingRoles(u) = {}, ~Reseeded(u)
                PROVE  Cardinality({h \in holds : h[1] = u}) = 1
    BY DEF OneRole
  <2>1. PICK r \in RoleIds : RolesOf(u) = {<<u, r>>}
    BY DEF AccountInv, RoleInv, Settled
  <2>2. Cardinality({<<u, r>>}) = 1
    BY FS_Singleton
  <2>. QED
    BY <2>1, <2>2 DEF RolesOf
<1>. QED
  BY <1>1, AccountsHold, PTL


---- \* What a cold start in progress still has to see to

MakesRole(x, r)   == x.do = "seed role" /\ x.role = r
MakesRow(x, r, m) == \/ x.do = "ensure all"
                     \/ x.do = "ensure" /\ x.role = r
                     \/ x.do = "put" /\ x.role = r /\ x.module = m
MakesRule(x)      == x.do = "seed rule"
MakesSettings(x)  == x.do = "seed settings"
MakesAdmin(x)     == x.do = "seed admin"

AdminThere == Exists(Admin) /\ ("accounts" \in open.parts \/ <<Admin, AdminRole>> \in holds)

\* What is not there yet is among the steps left.
Owes(s) ==
  /\ \A r \in System : role[r] # Nothing \/ \E x \in Steps(s) : MakesRole(x, r)
  /\ \A r \in System, m \in Modules :
       grid[r][m] # Nothing \/ \E x \in Steps(s) : MakesRow(x, r, m)
  /\ rule # Nothing \/ \E x \in Steps(s) : MakesRule(x)
  /\ settings # Nothing \/ \E x \in Steps(s) : MakesSettings(x)
  /\ AdminThere \/ \E x \in Steps(s) : MakesAdmin(x)

Seeding(s) == SeedList(s) \/ ServeList(s)

SeedInv == \A w \in Tasks : Seeding(Todo(w)) => Owes(Todo(w))

\* Nothing a cold start sees to is taken away again.
Lasts ==
  /\ \A r \in System : role[r] # Nothing => role'[r] # Nothing
  /\ \A r \in System, m \in Modules : grid[r][m] # Nothing => grid'[r][m] # Nothing
  /\ rule # Nothing => rule' # Nothing
  /\ settings # Nothing => settings' # Nothing
  /\ AdminThere => AdminThere'

\* The step x did what it is for, or led to the steps M that will.
Met(x, M) ==
  /\ \A r \in System : MakesRole(x, r) => role[r] # Nothing
  /\ \A r \in System, m \in Modules :
       MakesRow(x, r, m) => grid[r][m] # Nothing \/ \E y \in M : MakesRow(y, r, m)
  /\ MakesRule(x) => rule # Nothing
  /\ MakesSettings(x) => settings # Nothing
  /\ MakesAdmin(x) => AdminThere

LEMMA LastsIf ==
  ASSUME UNCHANGED <<role, grid, rule, settings, account, holds, open>>
  PROVE  Lasts
BY DEF Lasts, AdminThere, Exists

LEMMA OwesStill ==
  ASSUME Lasts, NEW s, Owes(s)
  PROVE  Owes(s)'
BY DEF Lasts, Owes

LEMMA OwesOn ==
  ASSUME Lasts, NEW s, Owes(s), NEW m, NEW t, Mixed(t, m, s), Met(Head(s), Steps(m))'
  PROVE  Owes(t)'
<1>2. ASSUME NEW r \in System PROVE role'[r] # Nothing \/ \E x \in Steps(t) : MakesRole(x, r)
  BY DEF Lasts, Owes, Mixed, Met
<1>3. ASSUME NEW r \in System, NEW n \in Modules
      PROVE  grid'[r][n] # Nothing \/ \E x \in Steps(t) : MakesRow(x, r, n)
  BY DEF Lasts, Owes, Mixed, Met
<1>4. rule' # Nothing \/ \E x \in Steps(t) : MakesRule(x)
  BY DEF Lasts, Owes, Mixed, Met
<1>5. settings' # Nothing \/ \E x \in Steps(t) : MakesSettings(x)
  BY DEF Lasts, Owes, Mixed, Met
<1>6. AdminThere' \/ \E x \in Steps(t) : MakesAdmin(x)
  BY DEF Lasts, Owes, Mixed, Met
<1>. QED
  BY <1>2, <1>3, <1>4, <1>5, <1>6 DEF Owes

LEMMA SeedStays ==
  ASSUME SeedInv, Lasts, UNCHANGED task
  PROVE  SeedInv'
<1>1. \A w \in Tasks : Todo(w)' = Todo(w)
  BY DEF Todo
<1>. QED
  BY <1>1, OwesStill DEF SeedInv

LEMMA SeedMoves ==
  ASSUME SeedInv, Lasts, NEW w \in Tasks, NEW t, Turns(w, t), Seeding(t) => Owes(t)'
  PROVE  SeedInv'
<1>1. Todo(w)' = t /\ \A v \in Tasks \ {w} : Todo(v)' = Todo(v)
  BY OthersSame DEF Turns
<1>2. Owes(Todo(w))' <=> Owes(t)'
  BY <1>1 DEF Owes
<1>. QED
  BY <1>1, <1>2, OwesStill DEF SeedInv

LEMMA SeedAside ==
  ASSUME SeedInv, Lasts, NEW w \in Tasks, NEW t, Turns(w, t),
         GridList(t) \/ NumberList(t) \/ ImportList(t)
  PROVE  SeedInv'
BY SeedMoves, Kinds DEF Seeding

LEMMA SeedOn ==
  ASSUME SeedInv, Lasts, NEW w \in Tasks, NEW s, s = Todo(w), s # <<>>, NEW D, NEW m, List(m, D),
         Turns(w, m \o Tail(s)), Follows(s, m \o Tail(s)),
         Seeding(s) => Met(Head(s), Steps(m))'
  PROVE  SeedInv'
<1>. PICK t : t = m \o Tail(s)
  OBVIOUS
<1>1. ASSUME Seeding(t) PROVE Owes(t)'
  <2>1. Seeding(s)
    BY <1>1, Kinds DEF Seeding, Follows
  <2>2. Mixed(t, m, s)
    BY <2>1, StepsSpliced DEF Seeding, SeedList, ServeList
  <2>3. Owes(s)
    BY <2>1 DEF SeedInv
  <2>. QED
    BY <2>1, <2>2, <2>3, OwesOn
<1>. QED
  BY <1>1, SeedMoves

\* A step that is done, of a task that may be a cold start.
LEMMA SeedDone ==
  ASSUME TaskInv, SeedInv, Lasts, NEW w \in Tasks, NEW s, s = Todo(w), s # <<>>,
         Turns(w, <<>> \o Tail(s)), Seeding(s) => Met(Head(s), Steps(<<>>))'
  PROVE  SeedInv'
<1>1. Follows(s, <<>> \o Tail(s))
  BY Done DEF TaskInv, Owned
<1>2. List(<<>>, {"put"})
  BY ListShort
<1>. QED
  BY <1>1, <1>2, SeedOn

\* A step that makes nothing a cold start sees to.
LEMMA NoMaker ==
  ASSUME NEW x, x.do \notin SeedDo, x.do \notin {"put", "ensure"}, NEW M
  PROVE  Met(x, M)'
BY DEF Met, MakesRole, MakesRow, MakesRule, MakesSettings, MakesAdmin, SeedDo

\* After its first half a cold start has the roles, and at each end all before it.
LEMMA RolesThere ==
  ASSUME NEW s, Owes(s), ServeList(s)
  PROVE  /\ \A r \in System : role[r] # Nothing
         /\ rule # Nothing /\ settings # Nothing /\ AdminThere
<1>1. \A x \in Steps(s) : x.do \in ServeDo
  BY DEF ServeList, List, Steps
<1>2. \A x \in Steps(s) : ~MakesRule(x) /\ ~MakesSettings(x) /\ ~MakesAdmin(x)
                          /\ \A r \in System : ~MakesRole(x, r)
  BY <1>1 DEF MakesRole, MakesRule, MakesSettings, MakesAdmin, ServeDo
<1>. QED
  BY <1>2 DEF Owes

LEMMA LastStep ==
  ASSUME NEW D, NEW last, NEW s, List(s, D), EndsWith(s, last), Head(s).do = last
  PROVE  \A x \in Steps(s) : x = Head(s)
<1>1. s # <<>> /\ Tail(s) = <<>> /\ List(<<>>, {"put"})
  BY KindOver, ListShort DEF EndsWith
<1>. PICK t : t = <<>> \o Tail(s)
  OBVIOUS
<1>2. Mixed(t, <<>>, s)
  BY <1>1, StepsSpliced
<1>. QED
  BY <1>1, <1>2, NoSteps DEF Mixed

LEMMA SeedOver ==
  ASSUME NEW s, Owes(s), SeedList(s), Head(s).do = "ensure all"
  PROVE  /\ \A r \in System : role[r] # Nothing
         /\ rule # Nothing /\ settings # Nothing /\ AdminThere
<1>1. \A x \in Steps(s) : x.do = "ensure all"
  BY LastStep DEF SeedList
<1>2. \A x \in Steps(s) : ~MakesRule(x) /\ ~MakesSettings(x) /\ ~MakesAdmin(x)
                          /\ \A r \in System : ~MakesRole(x, r)
  BY <1>1 DEF MakesRole, MakesRule, MakesSettings, MakesAdmin
<1>. QED
  BY <1>2 DEF Owes

LEMMA ServeOver ==
  ASSUME NEW s, Owes(s), ServeList(s), Head(s).do = "ready"
  PROVE  /\ \A r \in System : role[r] # Nothing /\ \A m \in Modules : grid[r][m] # Nothing
         /\ rule # Nothing /\ settings # Nothing /\ AdminThere
<1>1. \A x \in Steps(s) : x.do = "ready"
  BY LastStep DEF ServeList
<1>2. \A x \in Steps(s), r \in System, m \in Modules : ~MakesRow(x, r, m)
  BY <1>1 DEF MakesRow
<1>. QED
  BY <1>2, RolesThere DEF Owes

---- \* Steps that keep what cold starts see to

LEMMA SeedStarting ==
  ASSUME BaseInv, SeedInv, UNCHANGED <<open, accountVars, fillingVars>>, NEW w \in Tasks, Starting(w)
  PROVE  SeedInv'
<1>1. PICK s : GridList(s) /\ Turns(w, s)
  BY BaseStarting
<1>2. UNCHANGED <<grid, account, holds, rule, settings>> /\ \A r \in System : role'[r] = role[r]
  BY StartingIs DEF BaseInv, accountVars, fillingVars
<1>3. Lasts
  BY <1>2 DEF Lasts, AdminThere, Exists
<1>. QED
  BY <1>1, <1>3, SeedAside

LEMMA SeedRoles ==
  ASSUME BaseInv, SeedInv, UNCHANGED open, RolesPart \/ DeletionsPart
  PROVE  SeedInv'
<1>1. UNCHANGED <<accountVars, fillingVars>>
  BY DEF RolesPart, DeletionsPart
<1>2. CASE \E w \in Tasks : Starting(w)
  BY <1>1, <1>2, SeedStarting
<1>3. CASE Deploy \/ Minute
  <2>1. UNCHANGED <<role, grid, rule, settings, account, holds, task>>
    BY <1>1, <1>3 DEF Deploy, Minute, accountVars, fillingVars
  <2>. QED
    BY <2>1, LastsIf, SeedStays
<1>. QED
  BY <1>2, <1>3 DEF RolesPart, DeletionsPart, Starting, Tasks

\* No system role is deleted, and its rows are not.
LEMMA DropsLast ==
  ASSUME BaseInv, UNCHANGED <<open, rule, settings, account>>, NEW w \in Tasks,
         \/ DropGrid(w) /\ UNCHANGED holds
         \/ DropRole(w) /\ holds' = {h \in holds : h[2] # Subject(w)}
  PROVE  Lasts
<1>1. "drop grid" \in GridDo \ {"put", "ensure"} /\ "drop role" \in GridDo \ {"put", "ensure"}
  BY DEF GridDo
<1>2. Good(Head(Todo(w))) /\ Head(Todo(w)).do \in {"drop grid", "drop role"}
  BY <1>1, WhichList DEF BaseInv, DropGrid, DropRole
<1>3. Subject(w) \notin System
  BY <1>2 DEF Good, Subject, Todo
<1>4. /\ role' = role \/ role' = [role EXCEPT ![Subject(w)] = Nothing]
      /\ grid' = [grid EXCEPT ![Subject(w)] = Blank]
  BY DEF DropGrid, DropRole
<1>5. \A r \in System : role'[r] = role[r] /\ grid'[r] = grid[r]
  BY <1>3, <1>4, PlatformAssumption DEF BaseInv, Tables
<1>6. AdminThere => AdminThere'
  <2>1. AdminRole # Subject(w)
    BY <1>3, PlatformAssumption
  <2>2. <<Admin, AdminRole>> \in holds => <<Admin, AdminRole>> \in holds'
    BY <2>1 DEF DropGrid
  <2>. QED
    BY <2>2 DEF AdminThere, Exists
<1>. QED
  BY <1>5, <1>6 DEF Lasts

LEMMA SeedLoses ==
  ASSUME BaseInv, SeedInv, UNCHANGED open, NEW w \in Tasks, LoseRole(w)
  PROVE  SeedInv'
<1>1. DropRole(w) /\ UNCHANGED <<rule, settings, account>>
      /\ holds' = {h \in holds : h[2] # Subject(w)}
  BY DEF LoseRole, fillingVars
<1>2. Lasts
  BY <1>1, DropsLast
<1>3. Goes(w, <<>>) /\ Todo(w) # <<>> /\ Has(w, "drop role")
  BY <1>1 DEF DropRole, Has, Todo
<1>4. Turns(w, <<>> \o Tail(Todo(w))) /\ Follows(Todo(w), <<>> \o Tail(Todo(w)))
  BY <1>3, DoneIs DEF BaseInv
<1>5. "drop role" \in GridDo \ {"put", "ensure"}
  BY DEF GridDo
<1>6. GridList(Todo(w))
  BY <1>3, <1>5, WhichList DEF BaseInv
<1>7. GridList(<<>> \o Tail(Todo(w)))
  BY <1>4, <1>6, Kinds DEF Follows
<1>. QED
  BY <1>2, <1>4, <1>7, SeedAside

\* The rows of a role are looked at, and those it lacks come next.
LEMMA SeedEnsures ==
  ASSUME BaseInv, SeedInv, Lasts, UNCHANGED <<open, grid>>, NEW w \in Tasks, Ensure(w)
  PROVE  SeedInv'
<1>. PICK s : s = Todo(w)
  OBVIOUS
<1>. PICK r : r = Subject(w)
  OBVIOUS
<1>. PICK p : p = role[r]
  OBVIOUS
<1>1. Has(w, "ensure") /\ s # <<>>
  BY DEF Ensure, Has, Todo
<1>2. /\ GridList(s) \/ ServeList(s)
      /\ Head(s).do = "ensure" /\ Head(s).role = r
  BY <1>1, WhichList DEF BaseInv, Subject, Todo
<1>3. Seeding(s) => ServeList(s) /\ Owes(s)
  BY <1>2, Kinds DEF Seeding, SeedInv
<1>4. \A q, n :
        /\ \A x \in System : ~MakesRole(Head(s), x)
        /\ ~MakesRule(Head(s)) /\ ~MakesSettings(Head(s)) /\ ~MakesAdmin(Head(s))
        /\ MakesRow(Head(s), q, n) => q = r
  BY <1>2 DEF MakesRole, MakesRow, MakesRule, MakesSettings, MakesAdmin
<1>5. CASE p = Nothing
  <2>1. Turns(w, <<>> \o Tail(s))
    BY <1>5, EnsureIs DEF BaseInv
  <2>2. Seeding(s) => r \notin System
    BY <1>3, <1>5, RolesThere
  <2>3. Seeding(s) => Met(Head(s), Steps(<<>>))'
    BY <1>4, <2>2 DEF Met
  <2>. QED
    BY <1>1, <2>1, <2>3, SeedDone DEF BaseInv
<1>6. CASE p # Nothing
  <2>1. PICK m : /\ List(m, {"put"}) /\ Turns(w, m \o Tail(s))
                 /\ \A x \in Modules : grid[r][x] = Nothing =>
                      \E g : g # Nothing /\ Put(r, x, g) \in Steps(m)
    BY <1>6, EnsureIs DEF BaseInv
  <2>2. Follows(s, m \o Tail(s))
    <3>1. Head(s).do # "ready"
      BY <1>2
    <3>. QED
      BY <1>1, <1>2, <2>1, <3>1, RowsNext
  <2>3. \A x, g : MakesRow(Put(r, x, g), r, x)
    BY DEF MakesRow, Put
  <2>4. \A x \in Modules : grid[r][x] # Nothing \/ \E y \in Steps(m) : MakesRow(y, r, x)
    BY <2>1, <2>3
  <2>5. Met(Head(s), Steps(m))'
    BY <1>4, <2>4 DEF Met
  <2>. QED
    BY <1>1, <2>1, <2>2, <2>5, SeedOn
<1>. QED
  BY <1>5, <1>6

LEMMA SeedPuts ==
  ASSUME BaseInv, SeedInv, UNCHANGED <<open, rule, settings, account, holds>>, NEW w \in Tasks, PutRow(w)
  PROVE  SeedInv'
<1>. PICK s : s = Todo(w)
  OBVIOUS
<1>. PICK h : h = Head(s)
  OBVIOUS
<1>1. (Has(w, "put") \/ Has(w, "edit")) /\ s # <<>>
  BY DEF PutRow, Has, Todo
<1>2. Good(h) /\ h.do \in {"put", "edit"}
  BY <1>1, WhichList DEF BaseInv
<1>3. h.grant # Nothing
  BY <1>2 DEF Good
<1>4. CASE role[h.role] = Nothing
  <2>1. task' = [task EXCEPT ![w] = Free]
    BY <1>4 DEF PutRow, Todo
  <2>2. UNCHANGED <<role, grid>>
    BY <1>4 DEF PutRow, Todo
  <2>3. Turns(w, <<>>) /\ GridList(<<>>)
    BY <2>1, DeathIs, NoSteps DEF BaseInv
  <2>. QED
    BY <2>2, <2>3, LastsIf, SeedAside
<1>5. CASE role[h.role] # Nothing
  <2>1. Goes(w, <<>>) /\ grid' = [grid EXCEPT ![h.role][h.module] = h.grant] /\ role' = role
    BY <1>5 DEF PutRow, Todo
  <2>2. Turns(w, <<>> \o Tail(s))
    BY <1>1, <2>1, DoneIs DEF BaseInv
  <2>3. \A r \in System, m \in Modules :
          /\ grid[r][m] # Nothing => grid'[r][m] # Nothing
          /\ r = h.role /\ m = h.module => grid'[r][m] # Nothing
    BY <1>3, <2>1, PlatformAssumption DEF BaseInv, Tables
  <2>4. Lasts
    BY <2>1, <2>3 DEF Lasts, AdminThere, Exists
  <2>5. /\ \A x \in System : ~MakesRole(h, x)
        /\ ~MakesRule(h) /\ ~MakesSettings(h) /\ ~MakesAdmin(h)
        /\ \A r, m : MakesRow(h, r, m) => r = h.role /\ m = h.module
    BY <1>2 DEF MakesRole, MakesRow, MakesRule, MakesSettings, MakesAdmin
  <2>6. Met(h, Steps(<<>>))'
    BY <2>3, <2>5 DEF Met
  <2>. QED
    BY <1>1, <2>2, <2>4, <2>6, SeedDone DEF BaseInv
<1>. QED
  BY <1>4, <1>5

LEMMA SeedGridSteps ==
  ASSUME BaseInv, SeedInv, UNCHANGED <<open, rule, settings, account, holds>>, NEW w \in Tasks, StepOf(w)
  PROVE  SeedInv'
<1>1. CASE PutRow(w)
  BY <1>1, SeedPuts
<1>2. CASE Ensure(w)
  <2>1. UNCHANGED <<role, grid>>
    BY <1>2 DEF Ensure
  <2>. QED
    BY <1>2, <2>1, LastsIf, SeedEnsures
<1>3. CASE ~PutRow(w) /\ ~Ensure(w)
  <2>1. Lasts
    <3>1. CASE DropGrid(w)
      BY <3>1, DropsLast
    <3>2. CASE ~DropGrid(w)
      <4>1. UNCHANGED <<role, grid>>
        BY <1>3, <3>2 DEF StepOf, Migrate, Redefine, NoteMark, SaveMarks, ClearCache, Remember, TaskDies
      <4>. QED
        BY <4>1, LastsIf
    <3>. QED
      BY <3>1, <3>2
  <2>2. CASE Turns(w, <<>>)
    BY <2>1, <2>2, NoSteps, SeedAside
  <2>3. CASE \E t : GridList(t) /\ Turns(w, t)
    BY <2>1, <2>3, SeedAside
  <2>4. CASE Turns(w, <<>> \o Tail(Todo(w))) /\ ~TaskDies(w)
    <3>1. PICK x \in GridDo \ {"put", "ensure"} : Has(w, x)
      BY <1>3, <2>4 DEF StepOf, Migrate, Redefine, NoteMark, SaveMarks, ClearCache, DropGrid, Remember,
         GridDo
    <3>2. Todo(w) # <<>> /\ GridList(Todo(w))
      BY <3>1, WhichList DEF BaseInv
    <3>3. GridList(<<>> \o Tail(Todo(w)))
      BY <3>2, Done, Kinds DEF Follows, Kind
    <3>. QED
      BY <2>1, <2>4, <3>3, SeedAside
  <2>5. CASE TaskDies(w)
    <3>1. Turns(w, <<>>)
      BY <2>5, DeathIs DEF TaskDies, BaseInv
    <3>. QED
      BY <2>2, <3>1
  <2>. QED
    BY <1>3, <2>2, <2>3, <2>4, <2>5, GridSteps DEF BaseInv
<1>. QED
  BY <1>1, <1>2, <1>3

---- \* The seed itself

\* A step of the seed makes one thing, and takes nothing away.
LEMMA SeedMakes ==
  ASSUME BaseInv, SeedInv, UNCHANGED open, NEW w \in Tasks, NEW s, s = Todo(w), s # <<>>,
         Turns(w, <<>> \o Tail(s)), Lasts,
         NEW h, h = Head(s),
         \/ h.do = "seed role" /\ (h.role \in System => role'[h.role] # Nothing)
         \/ h.do = "seed rule" /\ rule' # Nothing
         \/ h.do = "seed settings" /\ settings' # Nothing
         \/ h.do = "seed admin" /\ AdminThere'
         \/ h.do = "ready"
  PROVE  SeedInv'
<1>1. Met(h, Steps(<<>>))'
  BY DEF Met, MakesRole, MakesRow, MakesRule, MakesSettings, MakesAdmin
<1>. QED
  BY <1>1, SeedDone DEF BaseInv

LEMMA SeedFirst ==
  ASSUME BaseInv, SeedInv, UNCHANGED open, NEW w \in Tasks,
         SeedRole(w) \/ SeedRule(w) \/ SeedSettings(w) \/ SeedAdmin(w) \/ Ready(w)
  PROVE  SeedInv'
<1>. PICK s : s = Todo(w)
  OBVIOUS
<1>. PICK h : h = Head(s)
  OBVIOUS
<1>1. s # <<>> /\ Turns(w, <<>> \o Tail(s))
  <2>1. PlainFilling(w) /\ s # <<>>
    BY DEF PlainFilling, SeedRole, SeedRule, SeedSettings, SeedAdmin, Ready, Has, Todo
  <2>. QED
    BY <2>1, PlainFillingIs DEF BaseInv
<1>2. CASE SeedRole(w)
  <2>1. h.do = "seed role" /\ role' = [role EXCEPT ![h.role] = StandardPerms[h.role]]
        /\ UNCHANGED <<grid, rule, settings, account, holds>>
    BY <1>2 DEF SeedRole, Has, Subject, Todo, fillingVars
  <2>2. /\ \A r \in System : role[r] # Nothing => role'[r] # Nothing
        /\ h.role \in System => role'[h.role] # Nothing
    BY <2>1, NothingAssumption, PlatformAssumption DEF BaseInv, Tables
  <2>3. Lasts
    BY <2>1, <2>2 DEF Lasts, AdminThere, Exists
  <2>. QED
    BY <1>1, <2>1, <2>2, <2>3, SeedMakes
<1>3. CASE SeedRule(w)
  <2>1. h.do = "seed rule" /\ UNCHANGED <<role, grid, settings, account, holds>>
    BY <1>3 DEF SeedRule, Has, Todo, Elsewhere
  <2>2. rule' # Nothing
    BY <1>3, SeedRuleKeeps DEF BaseInv
  <2>3. Lasts
    BY <2>1, <2>2 DEF Lasts, AdminThere, Exists
  <2>. QED
    BY <1>1, <2>1, <2>2, <2>3, SeedMakes
<1>4. CASE SeedSettings(w)
  <2>1. h.do = "seed settings" /\ UNCHANGED <<role, grid, rule, account, holds>>
    BY <1>4 DEF SeedSettings, Has, Todo, Elsewhere
  <2>2. settings' # Nothing
    BY <1>4, NothingAssumption DEF SeedSettings
  <2>3. Lasts
    BY <2>1, <2>2 DEF Lasts, AdminThere, Exists
  <2>. QED
    BY <1>1, <2>1, <2>2, <2>3, SeedMakes
<1>5. CASE SeedAdmin(w)
  <2>1. /\ h.do = "seed admin" /\ UNCHANGED <<role, grid, rule, settings>>
        /\ account' = [account EXCEPT ![Admin] = IF Exists(Admin) THEN @ ELSE
                         [password |-> AdminPassword, version |-> 0, active |-> TRUE]]
        /\ holds' = holds \cup {<<Admin, AdminRole>>}
    BY <1>5 DEF SeedAdmin, Has, Todo, fillingVars
  <2>2. account'[Admin] # NoAccount
    BY <2>1, PlatformAssumption DEF BaseInv, Tables, Exists, NoAccount
  <2>3. AdminThere'
    BY <2>1, <2>2 DEF AdminThere, Exists
  <2>4. Lasts
    BY <2>1, <2>3 DEF Lasts
  <2>. QED
    BY <1>1, <2>1, <2>3, <2>4, SeedMakes
<1>6. CASE Ready(w)
  <2>1. h.do = "ready" /\ UNCHANGED <<role, grid, rule, settings, account, holds>>
    BY <1>6 DEF Ready, Has, Todo, Elsewhere, fillingVars
  <2>2. Lasts
    BY <2>1, LastsIf
  <2>. QED
    BY <1>1, <2>1, <2>2, SeedMakes
<1>. QED
  BY <1>2, <1>3, <1>4, <1>5, <1>6

\* The roles the seed has made are among those whose rows it asks for.
LEMMA SeedAsks ==
  ASSUME BaseInv, SeedInv, UNCHANGED open, NEW w \in Tasks, EnsureAll(w)
  PROVE  SeedInv'
<1>. PICK s : s = Todo(w)
  OBVIOUS
<1>1. UNCHANGED <<role, grid, rule, settings, account, holds>>
  BY DEF EnsureAll, Elsewhere, fillingVars
<1>2. Lasts
  BY <1>1, LastsIf
<1>3. PICK t : /\ ServeList(t) /\ Turns(w, t)
               /\ \A r \in RoleIds : role[r] # Nothing => Do("ensure", r) \in Steps(t)
  BY EnsureAllIs DEF BaseInv
<1>4. SeedList(s) /\ Head(s).do = "ensure all"
  <2>1. "ensure all" \in SeedDo
    BY DEF SeedDo
  <2>. QED
    BY <2>1, WhichList DEF BaseInv, EnsureAll
<1>5. Owes(s)
  BY <1>4 DEF SeedInv, Seeding
<1>6. /\ \A r \in System : role[r] # Nothing
      /\ rule # Nothing /\ settings # Nothing /\ AdminThere
  BY <1>4, <1>5, SeedOver
<1>7. \A r, m : MakesRow(Do("ensure", r), r, m)
  BY DEF MakesRow, Do
<1>8. \A r \in System, m \in Modules : \E x \in Steps(t) : MakesRow(x, r, m)
  BY <1>3, <1>6, <1>7, PlatformAssumption
<1>9. Owes(t)'
  BY <1>1, <1>2, <1>6, <1>8 DEF Owes, Lasts
<1>. QED
  BY <1>2, <1>3, <1>9, SeedMoves

\* An import is alone, and takes everything away.
LEMMA SeedImports ==
  ASSUME BaseInv, UNCHANGED open, NEW w \in Tasks, FillingSteps(w), ImportList(Todo(w))
  PROVE  SeedInv'
<1>1. ~EnsureAll(w)
  <2>1. "ensure all" \in SeedDo
    BY DEF SeedDo
  <2>. QED
    BY <2>1, WhichList, Kinds DEF BaseInv, EnsureAll
<1>. PICK s : s = Todo(w)
  OBVIOUS
<1>2. Todo(w) # <<>>
  BY DEF ImportList, EndsWith
<1>3. \E t : Turns(w, t) /\ Follows(s, t)
  <2>1. CASE PlainFilling(w)
    BY <1>2, <2>1, PlainFillingIs, Done DEF BaseInv, TaskInv, Owned
  <2>2. CASE BringGrid(w) \/ KnowUsers(w)
    <3>1. PICK m : List(m, NextDo) /\ Turns(w, m \o Tail(s))
      BY <2>2, ImportNext DEF BaseInv
    <3>2. NextDo \subseteq {"put", "bring log"} /\ Head(s).do # "reconcile"
      BY <2>2 DEF NextDo, BringGrid, KnowUsers, Has, Todo
    <3>3. ImportList(m \o Tail(s))
      BY <3>1, <3>2, ImportGoesOn
    <3>. QED
      BY <3>1, <3>3 DEF Follows
  <2>. QED
    BY <1>1, <2>1, <2>2 DEF FillingSteps, PlainFilling
<1>4. \A v \in Tasks : ~Seeding(Todo(v)')
  <2>1. PICK t : Turns(w, t) /\ Follows(s, t)
    BY <1>3
  <2>2. /\ Todo(w)' = t /\ ~SeedList(t) /\ ~ServeList(t)
        /\ \A v \in Tasks \ {w} : GridList(Todo(v)')
    BY <2>1, ImportAlone DEF BaseInv
  <2>. QED
    BY <2>2, Kinds DEF Seeding
<1>. QED
  BY <1>4 DEF SeedInv

LEMMA SeedFills ==
  ASSUME BaseInv, SeedInv, UNCHANGED open, NEW w \in Tasks, FillingSteps(w)
  PROVE  SeedInv'
<1>1. CASE SeedRole(w) \/ SeedRule(w) \/ SeedSettings(w) \/ SeedAdmin(w) \/ Ready(w)
  BY <1>1, SeedFirst
<1>2. CASE EnsureAll(w)
  BY <1>2, SeedAsks
<1>3. CASE WriteNumber(w)
  <2>1. Has(w, "number") /\ UNCHANGED <<role, grid, settings, account, holds>> /\ PlainFilling(w)
    BY <1>3 DEF WriteNumber, Elsewhere, PlainFilling
  <2>2. rule' # Nothing
    BY <1>3, WriteNumberKeeps DEF BaseInv
  <2>3. Lasts
    BY <2>1, <2>2 DEF Lasts, AdminThere, Exists
  <2>4. NumberList(Todo(w)) /\ Todo(w) # <<>>
    BY <2>1, WhichList DEF BaseInv
  <2>5. Turns(w, <<>> \o Tail(Todo(w)))
    BY <2>1, PlainFillingIs DEF BaseInv
  <2>6. GridList(<<>> \o Tail(Todo(w)))
    BY <2>4, Done, Kinds DEF Follows, Kind
  <2>. QED
    BY <2>3, <2>5, <2>6, SeedAside
<1>4. CASE \E x \in ImportDo : Has(w, x)
  BY <1>4, WhichList, SeedImports DEF BaseInv
<1>. QED
  BY <1>1, <1>2, <1>3, <1>4 DEF FillingSteps, WipeAccounts, WipeRoles, WipeLists, BringRole, BringUser,
     BringHold, BringGrid, BringLookup, BringRow, KnowUsers, BringLog, BringSettings, BringRule,
     Reconcile, ImportDo

LEMMA SeedBegins ==
  ASSUME BaseInv, SeedInv, UNCHANGED open, "setup" \in open.parts, NEW w \in Tasks,
         \/ ~Importing /\ (ColdStart(w) \/ TakeNumber(w))
         \/ w \in Scripts \cap open.staff /\ Import(w)
  PROVE  SeedInv'
<1>1. UNCHANGED <<role, grid, rule, settings, account, holds>>
  BY DEF ColdStart, TakeNumber, Import, Filling, fillingVars
<1>2. Lasts
  BY <1>1, LastsIf
<1>3. CASE ~Importing /\ ColdStart(w)
  <2>1. Turns(w, SeedSteps)
    BY <1>3, SetupStarted DEF BaseInv
  <2>2. Owes(SeedSteps)'
    <3>. PICK s : s = SeedSteps
      OBVIOUS
    <3>1. \A x, r : MakesRole(Do("seed role", r), r)
      BY DEF MakesRole, Do
    <3>2. \A r \in System : \E x \in Steps(s) : MakesRole(x, r)
      BY <3>1, SeedStepsIs
    <3>3. \E x \in Steps(s) : MakesRule(x)
      BY SeedStepsIs DEF Carries, MakesRule
    <3>4. \E x \in Steps(s) : MakesSettings(x)
      BY SeedStepsIs DEF Carries, MakesSettings
    <3>5. \E x \in Steps(s) : MakesAdmin(x)
      BY SeedStepsIs DEF Carries, MakesAdmin
    <3>6. \E x \in Steps(s) : x.do = "ensure all"
      <4>1. SeedList(s)
        BY SeedStepsIs
      <4>2. s # <<>> /\ Len(s) \in DOMAIN s /\ s[Len(s)].do = "ensure all"
        BY <4>1, ListIs DEF SeedList, EndsWith
      <4>. QED
        BY <4>2 DEF Steps
    <3>7. \A r, m : \E x \in Steps(s) : MakesRow(x, r, m)
      BY <3>6 DEF MakesRow
    <3>8. Owes(s)'
      BY <3>2, <3>3, <3>4, <3>5, <3>7 DEF Owes
    <3>. QED
      BY <3>8
  <2>. QED
    BY <1>2, <2>1, <2>2, SeedMoves
<1>4. CASE ~Importing /\ TakeNumber(w)
  <2>1. PICK a : NumberList(<<a>>) /\ Turns(w, <<a>>)
    BY <1>4, SetupStarted DEF BaseInv
  <2>. QED
    BY <1>2, <2>1, SeedAside
<1>5. CASE w \in Scripts \cap open.staff /\ Import(w)
  <2>1. Turns(w, ImportSteps)
    BY <1>5, SetupStarted DEF BaseInv
  <2>2. ImportList(ImportSteps)
    BY ImportStepsIs
  <2>. QED
    BY <1>2, <2>1, <2>2, SeedAside
<1>. QED
  BY <1>3, <1>4, <1>5

LEMMA SeedSetup ==
  ASSUME BaseInv, SeedInv, UNCHANGED open, "setup" \in open.parts, SetupPart
  PROVE  SeedInv'
<1>1. ASSUME NEW w \in Tasks, SaveSettings(w) \/ KeepLookup(w) \/ AddRow(w)
      PROVE  SeedInv'
  <2>1. UNCHANGED <<role, grid, rule, account, holds, task>>
    BY <1>1 DEF SaveSettings, KeepLookup, AddRow, Elsewhere
  <2>2. settings' = settings \/ settings' # Nothing
    BY <1>1, NothingAssumption DEF SaveSettings, KeepLookup, AddRow
  <2>3. Lasts
    BY <2>1, <2>2 DEF Lasts, AdminThere, Exists
  <2>. QED
    BY <2>1, <2>3, SeedStays
<1>2. ASSUME NEW w \in Tasks, ~Importing, EditRule(w)
      PROVE  SeedInv'
  <2>1. UNCHANGED <<role, grid, settings, account, holds, task>>
    BY <1>2 DEF EditRule, Elsewhere
  <2>2. rule' # Nothing
    BY <1>2, EditRuleKeeps DEF BaseInv
  <2>3. Lasts
    BY <2>1, <2>2 DEF Lasts, AdminThere, Exists
  <2>. QED
    BY <2>1, <2>3, SeedStays
<1>. QED
  BY <1>1, <1>2, SeedBegins, SeedFills DEF SetupPart, Tasks

\* Requests about accounts leave the administrator's there, and with no part that
\* seeds at work there is nothing to keep.
LEMMA SeedAccounts ==
  ASSUME BaseInv, NoImport => AccountInv, SeedInv, open \in Openings, UNCHANGED open,
         "accounts" \in open.parts, AccountsPart
  PROVE  SeedInv'
<1>1. UNCHANGED <<role, grid, rule, settings, task>>
  BY DEF AccountsPart, gridVars, fillingVars
<1>2. CASE "setup" \in open.parts
  <2>1. AccountInv
    BY <1>2, OpeningAssumption DEF NoImport
  <2>2. Older
    <3>1. CASE Hour
      BY <3>1, AccountStays DEF Hour
    <3>2. ASSUME NEW w \in Callers, AccountSteps(w) PROVE Older
      BY <2>1, <3>2, SessionSteps DEF AccountInv
    <3>. QED
      BY <3>1, <3>2 DEF AccountsPart
  <2>3. Exists(Admin) => Exists(Admin)'
    BY <2>2, PlatformAssumption DEF Older
  <2>4. Lasts
    BY <1>1, <2>3 DEF Lasts, AdminThere
  <2>. QED
    BY <1>1, <2>4, SeedStays
<1>3. CASE "setup" \notin open.parts
  <2>1. \A w \in Tasks : GridList(Todo(w)) /\ Todo(w)' = Todo(w)
    BY <1>1, <1>3 DEF BaseInv, TaskInv, Owned, Todo
  <2>. QED
    BY <2>1, Kinds DEF SeedInv, Seeding
<1>. QED
  BY <1>2, <1>3

ReadyInv == open \in Openings /\ SeedInv

LEMMA SeedNext ==
  ASSUME BaseInv, NoImport => AccountInv, ReadyInv, [Next]_platformVars
  PROVE  ReadyInv'
<1>0. SeedInv /\ open \in Openings
  BY DEF ReadyInv
<1>1. CASE Next
  <2>1. open' = open
    BY <1>1 DEF Next
  <2>2. CASE \E w \in Desks : LoseRole(w)
    BY <1>0, <2>1, <2>2, SeedLoses DEF Tasks, ReadyInv
  <2>3. CASE (\E w \in Desks \cup Scripts : StepOf(w)) /\ UNCHANGED <<accountVars, fillingVars>>
    <3>1. UNCHANGED <<rule, settings, account, holds>>
      BY <2>3 DEF accountVars, fillingVars
    <3>. QED
      BY <1>0, <2>1, <2>3, <3>1, SeedGridSteps DEF Tasks, ReadyInv
  <2>4. CASE "accounts" \in open.parts /\ AccountsPart
    BY <1>0, <2>1, <2>4, SeedAccounts DEF ReadyInv
  <2>5. CASE RolesPart \/ DeletionsPart
    BY <1>0, <2>1, <2>5, SeedRoles DEF ReadyInv
  <2>6. CASE "setup" \in open.parts /\ SetupPart
    BY <1>0, <2>1, <2>6, SeedSetup DEF ReadyInv
  <2>. QED
    BY <1>1, <2>2, <2>3, <2>4, <2>5, <2>6 DEF Next
<1>2. CASE UNCHANGED platformVars
  <2>1. UNCHANGED <<role, grid, rule, settings, account, holds, open, task>>
    BY <1>2 DEF platformVars, setupVars, accountVars, gridVars, fillingVars
  <2>. QED
    BY <1>0, <2>1, LastsIf, SeedStays DEF ReadyInv
<1>. QED
  BY <1>1, <1>2

LEMMA SeedInit == Init => ReadyInv
<1>. SUFFICES ASSUME Init PROVE ReadyInv
  OBVIOUS
<1>1. \A w \in Tasks : Todo(w) = <<>>
  BY FreeIs DEF Init, GridsInit, Tasks, Todo
<1>2. \A w \in Tasks : ~Seeding(Todo(w))
  BY <1>1, NoSteps, Kinds DEF Seeding
<1>. QED
  BY <1>2 DEF Init, ReadyInv, SeedInv

LEMMA ReadyHolds == Spec => []ReadyInv
<1>1. BaseInv /\ (NoImport => AccountInv) /\ ReadyInv /\ [Next]_platformVars => ReadyInv'
  BY SeedNext
<1>. QED
  BY SeedInit, <1>1, BaseHolds, AccountsHold, PTL DEF Spec

\* A cold start that comes to its end has left the system roles with all their rows,
\* the rule, the settings and the administrator (config/bootstrap.js:16), whatever
\* other cold starts, requests and deletions come between and wherever earlier ones
\* died.
THEOREM SeedLeavesReady == Spec => []ReadyAfterSeed
<1>1. BaseInv /\ ReadyInv => ReadyAfterSeed
  <2>. SUFFICES ASSUME BaseInv, ReadyInv, NEW w \in Desks, Has(w, "ready")
                PROVE  /\ \A r \in System : role[r] # Nothing /\ \A m \in Modules : grid[r][m] # Nothing
                       /\ rule # Nothing /\ settings # Nothing /\ AdminThere
    BY DEF ReadyAfterSeed, AdminThere
  <2>1. w \in Tasks
    BY DEF Tasks
  <2>2. ServeList(Todo(w)) /\ Head(Todo(w)).do = "ready"
    BY <2>1, WhichList DEF BaseInv
  <2>3. Owes(Todo(w))
    BY <2>1, <2>2 DEF ReadyInv, SeedInv, Seeding
  <2>. QED
    BY <2>2, <2>3, ServeOver
<1>. QED
  BY <1>1, BaseHolds, ReadyHolds, PTL


---- \* What a role's grid becomes

IsRow(x) == x.do \in {"put", "edit"}

\* Among the steps s, the rows of role r; the roles whose grids they write.
RowsOf(r, s) == {x \in Steps(s) : IsRow(x) /\ x.role = r}
About(s) == {x.role : x \in {y \in Steps(s) : y.do \in Writers}}

\* The rows a task has in hand are its next steps.
RowsFirst(s) == \A j, k \in DOMAIN s : j < k /\ IsRow(s[k]) => IsRow(s[j])

Pending(r) == UNION {RowsOf(r, Todo(w)) : w \in Tasks}

\* The rows are those of one grid somebody meant, once those of R are written.
Completes(r, rows, R) ==
  \E g \in Meant(r) : \A m \in Shown :
    /\ g[m] # Nothing
    /\ \A x \in R : x.module = m => x.grant = g[m]
    /\ (\A x \in R : x.module # m) => rows[m] = g[m]
Bare(rows) == \A m \in Shown : rows[m] = Nothing
Lost(r, perms) == perms = Nothing /\ r \notin System

\* There is nothing but such a grid, no grid, or rows that come too late for a role.
Coming(r, rows, perms, R) ==
  \/ Completes(r, rows, R)
  \/ R = {} /\ Bare(rows)
  \/ R # {} /\ Lost(r, perms)

Given(r) == (Perms \cup {StandardPerms[r], Legacy.role[r]}) \ {Nothing}

\* Two tasks write a grid only of a role they met on, an import is alone, and a role
\* has permissions somebody gave it.
MeetInv  == \A w \in Tasks, v \in Tasks : v # w => About(Todo(w)) \cap About(Todo(v)) \subseteq halfway
FirstInv == \A w \in Tasks : RowsFirst(Todo(w))
AloneInv == \A w \in Tasks, v \in Tasks : ImportList(Todo(w)) => v = w \/ Todo(v) = <<>>
GivenInv == \A r \in RoleIds : role[r] \in Given(r) \cup {Nothing}
WholeInv == \A r \in RoleIds \ halfway : Coming(r, grid[r], role[r], Pending(r))

GridInv == MeetInv /\ FirstInv /\ AloneInv /\ GivenInv /\ WholeInv

---- \* Rows among the steps of a list

LEMMA HeadFirst ==
  ASSUME NEW D, NEW s, List(s, D), s # <<>>, RowsFirst(s), ~IsRow(Head(s))
  PROVE  \A x \in Steps(s) : ~IsRow(x)
<1>1. Head(s) = s[1] /\ 1 \in DOMAIN s /\ DOMAIN s = 1..Len(s) /\ Len(s) \in Nat
  BY ListIs
<1>2. ASSUME NEW k \in DOMAIN s, IsRow(s[k]) PROVE FALSE
  <2>1. k = 1 \/ 1 < k
    BY <1>1
  <2>. QED
    BY <1>1, <1>2, <2>1 DEF RowsFirst
<1>. QED
  BY <1>2 DEF Steps

\* The rows stay ahead when a step is done, and when rows or other steps come next
\* and none were in hand.
LEMMA FirstKept ==
  ASSUME NEW D, NEW s, List(s, D), s # <<>>, RowsFirst(s), NEW E, NEW m, List(m, E),
         \/ m = <<>>
         \/ ~IsRow(Head(s)) /\ ((\A x \in Steps(m) : IsRow(x)) \/ (\A x \in Steps(m) : ~IsRow(x))),
         NEW t, t = m \o Tail(s)
  PROVE  RowsFirst(t)
<1>1. Splice(t, m, s) /\ List(t, D \cup E)
  BY Spliced
<1>2. /\ DOMAIN t = 1..Len(t) /\ Len(t) \in Nat /\ DOMAIN m = 1..Len(m) /\ Len(m) \in Nat
      /\ DOMAIN s = 1..Len(s) /\ Len(s) \in Nat
  BY <1>1, ListIs
<1>. SUFFICES ASSUME NEW j \in DOMAIN t, NEW k \in DOMAIN t, j < k, IsRow(t[k]) PROVE IsRow(t[j])
  BY DEF RowsFirst
<1>3. CASE m = <<>>
  <2>1. Len(m) = 0
    BY <1>3
  <2>2. \A i \in DOMAIN t : i + 1 \in DOMAIN s /\ t[i] = s[i + 1]
    BY <1>1, <1>2, <2>1 DEF Splice
  <2>3. j + 1 < k + 1
    BY <1>2
  <2>. QED
    BY <2>2, <2>3 DEF RowsFirst
<1>4. CASE ~IsRow(Head(s))
  <2>1. \A i \in DOMAIN s : ~IsRow(s[i])
    BY <1>4, HeadFirst DEF Steps
  <2>2. k <= Len(m)
    BY <1>1, <2>1 DEF Splice
  <2>3. k \in DOMAIN m /\ j \in DOMAIN m /\ t[k] = m[k] /\ t[j] = m[j]
    BY <1>1, <1>2, <2>2 DEF Splice
  <2>4. \A x \in Steps(m) : IsRow(x)
    <3>1. IsRow(m[k]) /\ m[k] \in Steps(m)
      BY <2>3 DEF Steps
    <3>2. m # <<>>
      BY <1>2, <2>3
    <3>. QED
      BY <3>1, <3>2
  <2>. QED
    BY <2>3, <2>4 DEF Steps
<1>. QED
  BY <1>3, <1>4

LEMMA NoneFirst ==
  ASSUME NEW s, \A x \in Steps(s) : ~IsRow(x)
  PROVE  RowsFirst(s) /\ \A r : RowsOf(r, s) = {}
BY DEF RowsFirst, RowsOf, Steps

LEMMA AllFirst ==
  ASSUME NEW D, NEW E, NEW s, NEW t, List(s, D), List(t, E),
         \A x \in Steps(s) : IsRow(x), \A x \in Steps(t) : ~IsRow(x)
  PROVE  /\ RowsFirst(s \o t) /\ \A r : RowsOf(r, s \o t) = RowsOf(r, s)
         /\ About(s \o t) = About(s) \cup About(t)
<1>. PICK S : S = {s[k] : k \in DOMAIN s} \cup {t[k] : k \in DOMAIN t}
  OBVIOUS
<1>1. s \in Seq(S) /\ t \in Seq(S)
  BY DEF List
<1>2. Steps(s \o t) = Steps(s) \cup Steps(t)
  BY <1>1, StepsJoined
<1>3. \A k \in DOMAIN (s \o t) :
        \/ k \in 1..Len(s) /\ (s \o t)[k] = s[k]
        \/ k > Len(s) /\ k - Len(s) \in DOMAIN t /\ (s \o t)[k] = t[k - Len(s)]
  BY <1>1
<1>4. RowsFirst(s \o t)
  <2>. SUFFICES ASSUME NEW j \in DOMAIN (s \o t), NEW k \in DOMAIN (s \o t), j < k, IsRow((s \o t)[k])
                PROVE  IsRow((s \o t)[j])
    BY DEF RowsFirst
  <2>1. k \in 1..Len(s)
    BY <1>3 DEF Steps
  <2>2. j \in 1..Len(s) /\ DOMAIN s = 1..Len(s)
    BY <1>1, <2>1
  <2>3. (s \o t)[j] = s[j]
    BY <1>1, <2>2
  <2>. QED
    BY <2>2, <2>3 DEF Steps
<1>. QED
  BY <1>2, <1>4 DEF RowsOf, About

---- \* Tasks beside one another

Beside(r, w) == UNION {RowsOf(r, Todo(v)) : v \in Tasks \ {w}}

LEMMA RowAbout ==
  ASSUME NEW r, NEW s, RowsOf(r, s) # {}
  PROVE  r \in About(s)
BY DEF RowsOf, About, IsRow, Writers

LEMMA WritesIs ==
  ASSUME NEW w
  PROVE  WritesGrid(w) = About(Todo(w))
BY DEF WritesGrid, About, Steps, Todo

LEMMA HandIs ==
  ASSUME NEW w, NEW r, r \notin InHand(w)
  PROVE  RowsOf(r, Todo(w)) = {}
BY DEF InHand, RowsOf, Steps, Todo, IsRow

LEMMA PendingIs ==
  ASSUME NEW w \in Tasks, NEW r
  PROVE  Pending(r) = RowsOf(r, Todo(w)) \cup Beside(r, w)
BY DEF Pending, Beside

\* The rows of a role it writes are all its own, unless it met another task there.
LEMMA Sole ==
  ASSUME MeetInv, NEW w \in Tasks, NEW r, r \in About(Todo(w)), r \notin halfway
  PROVE  Beside(r, w) = {}
<1>1. ASSUME NEW v \in Tasks \ {w} PROVE RowsOf(r, Todo(v)) = {}
  <2>1. r \notin About(Todo(v))
    BY DEF MeetInv
  <2>. QED
    BY <2>1, RowAbout
<1>. QED
  BY <1>1 DEF Beside

LEMMA PendingTurns ==
  ASSUME NEW w \in Tasks, NEW t, Turns(w, t), NEW r
  PROVE  Pending(r)' = RowsOf(r, t) \cup Beside(r, w)
<1>1. Todo(w)' = t /\ \A v \in Tasks \ {w} : Todo(v)' = Todo(v)
  BY OthersSame DEF Turns
<1>2. /\ RowsOf(r, Todo(w))' = RowsOf(r, t)
      /\ \A v \in Tasks \ {w} : RowsOf(r, Todo(v))' = RowsOf(r, Todo(v))
  BY <1>1 DEF RowsOf
<1>3. \A x : x \in Pending(r)' <=> \E v \in Tasks : x \in RowsOf(r, Todo(v))'
  BY DEF Pending
<1>4. \A x : x \in Pending(r)' <=> x \in RowsOf(r, t) \/ x \in Beside(r, w)
  BY <1>2, <1>3 DEF Beside
<1>. QED
  BY <1>4

LEMMA MeetKept ==
  ASSUME MeetInv, NEW w \in Tasks, NEW t, Turns(w, t), halfway \subseteq halfway',
         \A v \in Tasks \ {w} : About(t) \cap About(Todo(v)) \subseteq halfway'
  PROVE  MeetInv'
<1>1. Todo(w)' = t /\ \A v \in Tasks \ {w} : Todo(v)' = Todo(v)
  BY OthersSame DEF Turns
<1>2. About(Todo(w))' = About(t) /\ \A v \in Tasks \ {w} : About(Todo(v))' = About(Todo(v))
  BY <1>1 DEF About
<1>3. ASSUME NEW v \in Tasks, NEW x \in Tasks, x # v
      PROVE  About(Todo(v))' \cap About(Todo(x))' \subseteq halfway'
  <2>1. CASE v = w
    BY <1>2, <1>3, <2>1
  <2>2. CASE x = w
    BY <1>2, <1>3, <2>2
  <2>3. CASE v # w /\ x # w
    BY <1>2, <1>3, <2>3 DEF MeetInv
  <2>. QED
    BY <2>1, <2>2, <2>3
<1>. QED
  BY <1>3 DEF MeetInv

LEMMA FirstStays ==
  ASSUME FirstInv, NEW w \in Tasks, NEW t, Turns(w, t), RowsFirst(t)
  PROVE  FirstInv'
<1>1. Todo(w)' = t /\ \A v \in Tasks \ {w} : Todo(v)' = Todo(v)
  BY OthersSame DEF Turns
<1>2. \A v \in Tasks : RowsFirst(Todo(v)')
  BY <1>1 DEF FirstInv
<1>. QED
  BY <1>2 DEF FirstInv, RowsFirst

LEMMA AloneKept ==
  ASSUME AloneInv, NEW w \in Tasks, NEW t, Turns(w, t), Todo(w) # <<>> \/ t = <<>>, Follows(Todo(w), t)
  PROVE  AloneInv'
<1>1. Todo(w)' = t /\ \A v \in Tasks \ {w} : Todo(v)' = Todo(v)
  BY OthersSame DEF Turns
<1>2. ImportList(t) => ImportList(Todo(w))
  BY Kinds DEF Follows
<1>3. \A v \in Tasks, x \in Tasks : ImportList(Todo(v)') => x = v \/ Todo(x)' = <<>>
  BY <1>1, <1>2 DEF AloneInv
<1>. QED
  BY <1>3 DEF AloneInv

LEMMA AloneBegun ==
  ASSUME AloneInv, NEW w \in Tasks, NEW t, Turns(w, t),
         \/ ~ImportList(t) /\ \A v \in Tasks : ~ImportList(Todo(v))
         \/ \A v \in Tasks : Todo(v) = <<>>
  PROVE  AloneInv'
<1>1. Todo(w)' = t /\ \A v \in Tasks \ {w} : Todo(v)' = Todo(v)
  BY OthersSame DEF Turns
<1>2. ~ImportList(<<>>)
  BY NoSteps, Kinds
<1>3. \A v \in Tasks, x \in Tasks : ImportList(Todo(v)') => x = v \/ Todo(x)' = <<>>
  BY <1>1, <1>2 DEF AloneInv
<1>. QED
  BY <1>3 DEF AloneInv

LEMMA GridTurns ==
  ASSUME GridInv, NEW w \in Tasks, NEW t, Turns(w, t), RowsFirst(t), AloneInv', GivenInv',
         halfway \subseteq halfway',
         \A v \in Tasks \ {w} : About(t) \cap About(Todo(v)) \subseteq halfway',
         \A r \in RoleIds \ halfway' : Coming(r, grid'[r], role'[r], RowsOf(r, t) \cup Beside(r, w))
  PROVE  GridInv'
<1>1. MeetInv' /\ FirstInv'
  BY MeetKept, FirstStays DEF GridInv
<1>2. WholeInv'
  BY PendingTurns DEF WholeInv, Coming, Completes, Bare, Lost, Meant
<1>. QED
  BY <1>1, <1>2 DEF GridInv

---- \* Grids somebody meant, and their rows

\* The steps of R write the rows of r for the modules M, as they are in g.
Writes(R, r, M, g) ==
  /\ \A x \in R : IsRow(x) /\ x.role = r /\ x.module \in M /\ x.grant = g[x.module]
  /\ \A m \in M : \E x \in R : x.module = m

LEMMA MeantIs ==
  ASSUME NEW r \in RoleIds
  PROVE  /\ \A g \in Payloads : g \in Meant(r) /\ \A m \in Shown : g[m] # Nothing
         /\ release \in Releases =>
              /\ MatrixOf[release][r] \in Meant(r)
              /\ \A m \in Shown : MatrixOf[release][r][m] # Nothing
         /\ Legacy.grid[r] \in Meant(r) /\ \A m \in Modules : Legacy.grid[r][m] # Nothing
         /\ \A p \in Given(r) : LegacyOf(p) \in Meant(r) /\ \A m \in Modules : LegacyOf(p)[m] # Nothing
<1>1. \A p \in Given(r) : LegacyOf(p) \in Meant(r)
  BY DEF Given, Meant
<1>2. \A p : \A m \in Modules : LegacyOf(p)[m] # Nothing
  BY Grants
<1>3. /\ \A g \in Payloads : g \in Meant(r)
      /\ release \in Releases => MatrixOf[release][r] \in Meant(r)
      /\ Legacy.grid[r] \in Meant(r)
  BY DEF Meant
<1>. QED
  BY <1>1, <1>2, <1>3, NothingAssumption DEF Shown

\* Rows for every module shown make a grid whole, whatever was there.
LEMMA Covered ==
  ASSUME NEW r, NEW g \in Meant(r), \A m \in Shown : g[m] # Nothing,
         NEW M, Shown \subseteq M, NEW R, Writes(R, r, M, g), NEW rows
  PROVE  Completes(r, rows, R)
<1>1. ASSUME NEW m \in Shown
      PROVE  /\ \A x \in R : x.module = m => x.grant = g[m]
             /\ ~\A x \in R : x.module # m
  BY DEF Writes
<1>. QED
  BY <1>1 DEF Completes

LEMMA RowsAre ==
  ASSUME NEW M, IsFiniteSet(M), NEW r, NEW g
  PROVE  Writes(Steps(Puts(r, M, g)), r, M, g) /\ Writes(Steps(Edits(r, M, g)), r, M, g)
<1>. PICK order : order = SetToSeq(M)
  OBVIOUS
<1>. PICK puts : puts = Puts(r, M, g)
  OBVIOUS
<1>. PICK edits : edits = Edits(r, M, g)
  OBVIOUS
<1>1. (\A k \in DOMAIN order : order[k] \in M) /\ \A m \in M : \E k \in DOMAIN order : order[k] = m
  BY ListOf
<1>2. DOMAIN puts = DOMAIN order /\ \A k \in DOMAIN order : puts[k] = Put(r, order[k], g[order[k]])
  BY DEF Puts
<1>3. DOMAIN edits = DOMAIN order /\ \A k \in DOMAIN order : edits[k] = [puts[k] EXCEPT !.do = "edit"]
  BY <1>2 DEF Edits
<1>4. \A m : /\ Put(r, m, g[m]).do = "put" /\ Put(r, m, g[m]).role = r
             /\ Put(r, m, g[m]).module = m /\ Put(r, m, g[m]).grant = g[m]
  BY DEF Put
<1>5. ASSUME NEW m, NEW x, x = [Put(r, m, g[m]) EXCEPT !.do = "edit"]
      PROVE  x.do = "edit" /\ x.role = r /\ x.module = m /\ x.grant = g[m]
  BY <1>5 DEF Put
<1>6. ASSUME NEW k \in DOMAIN order, NEW m, m = order[k]
      PROVE  /\ IsRow(puts[k]) /\ puts[k].role = r /\ puts[k].module = m /\ puts[k].grant = g[m]
             /\ IsRow(edits[k]) /\ edits[k].role = r /\ edits[k].module = m /\ edits[k].grant = g[m]
  <2>1. puts[k] = Put(r, m, g[m])
    BY <1>2, <1>6
  <2>2. edits[k] = [Put(r, m, g[m]) EXCEPT !.do = "edit"]
    BY <1>3, <2>1
  <2>3. edits[k].do = "edit" /\ edits[k].role = r /\ edits[k].module = m /\ edits[k].grant = g[m]
    BY <1>5, <2>2
  <2>. QED
    BY <1>4, <2>1, <2>3 DEF IsRow
<1>7. Writes(Steps(puts), r, M, g)
  BY <1>1, <1>2, <1>6 DEF Writes, Steps
<1>8. Writes(Steps(edits), r, M, g)
  BY <1>1, <1>3, <1>6 DEF Writes, Steps
<1>. QED
  BY <1>7, <1>8

LEMMA WritesOne ==
  ASSUME NEW s, NEW r, NEW M, NEW g, Writes(Steps(s), r, M, g)
  PROVE  /\ RowsOf(r, s) = Steps(s) /\ \A q : q # r => RowsOf(q, s) = {}
         /\ About(s) \subseteq {r}
BY DEF Writes, RowsOf, About

\* The rows a role has none of come from its permissions: all, or only hidden ones.
LEMMA Missing ==
  ASSUME Tables, GivenInv, NEW r \in RoleIds, role[r] # Nothing, Coming(r, grid[r], role[r], {}),
         NEW M, M = {m \in Modules : grid[r][m] = Nothing}, NEW R, Writes(R, r, M, LegacyOf(role[r]))
  PROVE  Completes(r, grid[r], R)
<1>1. role[r] \in Given(r)
  BY DEF GivenInv
<1>. PICK g : g = LegacyOf(role[r])
  OBVIOUS
<1>2. g \in Meant(r) /\ \A m \in Modules : g[m] # Nothing
  BY <1>1, MeantIs
<1>3. Shown \subseteq Modules
  BY DEF Shown
<1>4. CASE Bare(grid[r])
  <2>1. Shown \subseteq M
    BY <1>3, <1>4 DEF Bare
  <2>. QED
    BY <1>2, <1>3, <2>1, Covered
<1>5. CASE Completes(r, grid[r], {})
  <2>1. PICK f \in Meant(r) : \A m \in Shown : f[m] # Nothing /\ grid[r][m] = f[m]
    BY <1>5 DEF Completes
  <2>2. \A x \in R : x.module \notin Shown
    BY <2>1 DEF Writes
  <2>. QED
    BY <2>1, <2>2 DEF Completes
<1>. QED
  BY <1>4, <1>5 DEF Coming

---- \* How a grid comes about

\* What every step of a task with something left goes by.
LEMMA StepsOf ==
  ASSUME TaskInv, NEW w \in Tasks, Todo(w) # <<>>
  PROVE  \E D : List(Todo(w), D)
BY DEF TaskInv, Owned, Kind, GridList, SeedList, ServeList, NumberList, ImportList

\* A step that writes no row, whatever it does to roles and grids.
LEMMA PassOver ==
  ASSUME TaskInv, GridInv, NEW w \in Tasks, NEW s, s = Todo(w), s # <<>>, ~IsRow(Head(s)),
         NEW E, NEW m, List(m, E), \A x \in Steps(m) : x.do \notin Writers,
         Turns(w, m \o Tail(s)), Follows(s, m \o Tail(s)), halfway' = halfway, GivenInv',
         \A r \in RoleIds \ halfway :
           Coming(r, grid[r], role[r], Beside(r, w)) => Coming(r, grid'[r], role'[r], Beside(r, w))
  PROVE  GridInv'
<1>. PICK t : t = m \o Tail(s)
  OBVIOUS
<1>. PICK D : List(s, D)
  BY StepsOf
<1>0. \A x \in Steps(m) : ~IsRow(x)
  BY DEF IsRow, Writers
<1>1. RowsFirst(s) /\ \A x \in Steps(s) : ~IsRow(x)
  BY HeadFirst DEF GridInv, FirstInv
<1>2. RowsFirst(t)
  BY <1>0, <1>1, FirstKept
<1>3. Mixed(t, m, s)
  BY StepsSpliced
<1>4. About(t) \subseteq About(s)
  BY <1>3 DEF About, Mixed
<1>5. \A r : RowsOf(r, t) = {} /\ RowsOf(r, s) = {}
  BY <1>0, <1>1, <1>3 DEF RowsOf, Mixed
<1>6. \A r \in RoleIds \ halfway : Coming(r, grid'[r], role'[r], RowsOf(r, t) \cup Beside(r, w))
  <2>. TAKE r \in RoleIds \ halfway
  <2>1. Pending(r) = Beside(r, w)
    BY <1>5, PendingIs
  <2>2. RowsOf(r, t) \cup Beside(r, w) = Beside(r, w)
    BY <1>5
  <2>. QED
    BY <2>1, <2>2 DEF GridInv, WholeInv
<1>7. AloneInv'
  BY AloneKept DEF GridInv
<1>8. \A v \in Tasks \ {w} : About(t) \cap About(Todo(v)) \subseteq halfway
  BY <1>4 DEF GridInv, MeetInv
<1>. QED
  BY <1>2, <1>6, <1>7, <1>8, GridTurns

\* A grid is read, and rows of it are written next.
LEMMA Expands ==
  ASSUME TaskInv, GridInv, NEW w \in Tasks, NEW s, s = Todo(w), s # <<>>, ~IsRow(Head(s)),
         NEW q, NEW M, NEW g, NEW m, List(m, {"put"}), Writes(Steps(m), q, M, g),
         Turns(w, m \o Tail(s)), Follows(s, m \o Tail(s)),
         q \in About(s) \/ \A v \in Tasks \ {w} : Todo(v) = <<>>,
         UNCHANGED <<role, grid, halfway>>,
         q \in RoleIds \ halfway /\ Coming(q, grid[q], role[q], {}) => Completes(q, grid[q], Steps(m))
  PROVE  GridInv'
<1>. PICK t : t = m \o Tail(s)
  OBVIOUS
<1>. PICK D : List(s, D)
  BY StepsOf
<1>0. \A x \in Steps(m) : IsRow(x)
  BY DEF Writes
<1>1. RowsFirst(s) /\ \A x \in Steps(s) : ~IsRow(x)
  BY HeadFirst DEF GridInv, FirstInv
<1>2. RowsFirst(t)
  BY <1>0, <1>1, FirstKept
<1>3. Mixed(t, m, s)
  BY StepsSpliced
<1>4. /\ \A r : RowsOf(r, t) = RowsOf(r, m) /\ RowsOf(r, s) = {}
      /\ RowsOf(q, m) = Steps(m) /\ (\A r : r # q => RowsOf(r, m) = {})
      /\ About(t) \subseteq About(s) \cup {q}
  <2>1. \A r : RowsOf(r, t) = RowsOf(r, m) /\ RowsOf(r, s) = {}
    BY <1>1, <1>3 DEF RowsOf, Mixed
  <2>2. About(t) \subseteq About(s) \cup About(m)
    BY <1>3 DEF About, Mixed
  <2>. QED
    BY <2>1, <2>2, WritesOne
<1>a. (\A v \in Tasks \ {w} : Todo(v) = <<>>) =>
        (\A v \in Tasks \ {w} : About(Todo(v)) = {}) /\ \A r : Beside(r, w) = {}
  BY NoSteps DEF About, Beside, RowsOf
<1>5. \A v \in Tasks \ {w} : About(t) \cap About(Todo(v)) \subseteq halfway
  BY <1>4, <1>a DEF GridInv, MeetInv
<1>6. \A r \in RoleIds \ halfway : Coming(r, grid[r], role[r], RowsOf(r, t) \cup Beside(r, w))
  <2>. TAKE r \in RoleIds \ halfway
  <2>1. Coming(r, grid[r], role[r], Beside(r, w))
    <3>1. RowsOf(r, Todo(w)) = {}
      BY <1>4
    <3>2. Pending(r) = Beside(r, w)
      BY <3>1, PendingIs
    <3>. QED
      BY <3>2 DEF GridInv, WholeInv
  <2>2. CASE r = q
    <3>1. Beside(r, w) = {}
      BY <1>a, <2>2, Sole DEF GridInv
    <3>2. RowsOf(r, t) \cup Beside(r, w) = Steps(m)
      BY <1>4, <2>2, <3>1
    <3>. QED
      BY <2>1, <2>2, <3>1, <3>2 DEF Coming
  <2>3. CASE r # q
    <3>1. RowsOf(r, t) \cup Beside(r, w) = Beside(r, w)
      BY <1>4, <2>3
    <3>. QED
      BY <2>1, <3>1
  <2>. QED
    BY <2>2, <2>3
<1>7. AloneInv' /\ GivenInv'
  BY AloneKept DEF GridInv, GivenInv, Given
<1>. QED
  BY <1>2, <1>5, <1>6, <1>7, GridTurns

\* A task that ends leaves the roles it had rows of in hand half written.
LEMMA Abandons ==
  ASSUME TaskInv, GridInv, NEW w \in Tasks, Turns(w, <<>>),
         UNCHANGED <<role, grid>>, halfway' = halfway \cup InHand(w)
  PROVE  GridInv'
<1>1. RowsFirst(<<>>) /\ About(<<>>) = {} /\ \A r : RowsOf(r, <<>>) = {}
  BY NoSteps DEF RowsFirst, About, RowsOf
<1>2. Follows(Todo(w), <<>>)
  BY NoSteps DEF Follows
<1>3. AloneInv' /\ GivenInv'
  BY <1>2, AloneKept DEF GridInv, GivenInv, Given
<1>4. \A r \in RoleIds \ halfway' : Coming(r, grid[r], role[r], RowsOf(r, <<>>) \cup Beside(r, w))
  <2>. TAKE r \in RoleIds \ halfway'
  <2>1. Pending(r) = RowsOf(r, <<>>) \cup Beside(r, w)
    BY <1>1, HandIs, PendingIs
  <2>. QED
    BY <2>1 DEF GridInv, WholeInv
<1>. QED
  BY <1>1, <1>3, <1>4, GridTurns

\* A row is written: the head of what was in hand of its role.
LEMMA RowWritten ==
  ASSUME NEW r, NEW rows, NEW R, Completes(r, rows, R), NEW h \in R, NEW Q, R = Q \cup {h},
         rows = [m \in Modules |-> rows[m]],
         NEW new, new = [rows EXCEPT ![h.module] = h.grant]
  PROVE  Completes(r, new, Q)
<1>1. PICK g \in Meant(r) : \A m \in Shown :
        /\ g[m] # Nothing
        /\ \A x \in R : x.module = m => x.grant = g[m]
        /\ (\A x \in R : x.module # m) => rows[m] = g[m]
  BY DEF Completes
<1>2. ASSUME NEW m \in Shown, \A x \in Q : x.module # m PROVE new[m] = g[m]
  <2>1. m \in Modules
    BY DEF Shown
  <2>2. CASE h.module = m
    BY <1>1, <2>1, <2>2
  <2>3. CASE h.module # m
    <3>1. rows[m] = g[m]
      BY <1>1, <1>2, <2>3
    <3>. QED
      BY <2>1, <2>3, <3>1
  <2>. QED
    BY <2>2, <2>3
<1>3. \A m \in Shown : \A x \in Q : x.module = m => x.grant = g[m]
  BY <1>1
<1>. QED
  BY <1>1, <1>2, <1>3 DEF Completes

LEMMA PutsRow ==
  ASSUME BaseInv, GridInv, UNCHANGED open, NEW w \in Tasks, PutRow(w)
  PROVE  GridInv'
<1>. PICK s : s = Todo(w)
  OBVIOUS
<1>. PICK h : h = Head(s)
  OBVIOUS
<1>. PICK t : t = <<>> \o Tail(s)
  OBVIOUS
<1>0. TaskInv /\ Tables
  BY DEF BaseInv
<1>1. (Has(w, "put") \/ Has(w, "edit")) /\ s # <<>> /\ IsRow(h)
  BY DEF PutRow, Has, Todo, IsRow
<1>. PICK D : List(s, D)
  BY <1>0, <1>1, StepsOf
<1>2. CASE role[h.role] = Nothing
  <2>1. task' = [task EXCEPT ![w] = Free] /\ halfway' = halfway \cup InHand(w) /\ UNCHANGED <<role, grid>>
    BY <1>2 DEF PutRow, Todo
  <2>2. Turns(w, <<>>)
    BY <1>0, <2>1, DiesIs DEF TaskInv
  <2>. QED
    BY <1>0, <1>1, <2>1, <2>2, Abandons
<1>3. CASE role[h.role] # Nothing
  <2>1. Goes(w, <<>>) /\ grid' = [grid EXCEPT ![h.role][h.module] = h.grant] /\ UNCHANGED <<role, halfway>>
    BY <1>3 DEF PutRow, Todo
  <2>2. Turns(w, t) /\ Follows(s, t)
    BY <1>0, <1>1, <2>1, DoneIs
  <2>3. List(<<>>, {"put"})
    BY ListShort
  <2>4. Mixed(t, <<>>, s) /\ RowsFirst(t)
    BY <1>1, <2>3, StepsSpliced, FirstKept DEF GridInv, FirstInv
  <2>5. About(t) \subseteq About(s) /\ h.role \in About(s)
    BY <1>1, <2>4, NoSteps DEF About, Mixed, IsRow, Writers
  <2>6. /\ RowsOf(h.role, s) = RowsOf(h.role, t) \cup {h}
        /\ \A r : r # h.role => RowsOf(r, s) = RowsOf(r, t)
    BY <1>1, <2>4, NoSteps DEF RowsOf, Mixed
  <2>7. AloneInv' /\ GivenInv'
    BY <1>1, <2>1, <2>2, AloneKept DEF GridInv, GivenInv, Given
  <2>8. \A v \in Tasks \ {w} : About(t) \cap About(Todo(v)) \subseteq halfway
    BY <2>5 DEF GridInv, MeetInv
  <2>9. \A r \in RoleIds \ halfway : Coming(r, grid'[r], role[r], RowsOf(r, t) \cup Beside(r, w))
    <3>. TAKE r \in RoleIds \ halfway
    <3>1. Coming(r, grid[r], role[r], Pending(r))
      BY DEF GridInv, WholeInv
    <3>2. CASE r # h.role
      <4>1. grid'[r] = grid[r]
        BY <1>0, <2>1, <3>2 DEF Tables
      <4>2. RowsOf(r, Todo(w)) = RowsOf(r, t)
        BY <2>6, <3>2
      <4>3. Pending(r) = RowsOf(r, t) \cup Beside(r, w)
        BY <4>2, PendingIs
      <4>. QED
        BY <3>1, <4>1, <4>3
    <3>3. CASE r = h.role
      <4>1. Beside(r, w) = {}
        BY <2>5, <3>3, Sole DEF GridInv
      <4>2. Pending(r) = RowsOf(r, s)
        BY <4>1, PendingIs
      <4>3. Completes(r, grid[r], RowsOf(r, s)) /\ h \in RowsOf(r, s)
        BY <1>3, <2>6, <3>1, <3>3, <4>2 DEF Coming, Lost
      <4>4. grid[r] = [m \in Modules |-> grid[r][m]]
        BY <1>0 DEF Tables
      <4>5. grid'[r] = [grid[r] EXCEPT ![h.module] = h.grant]
        BY <1>0, <2>1, <3>3 DEF Tables
      <4>6. Completes(r, grid'[r], RowsOf(r, t))
        BY <2>6, <3>3, <4>3, <4>4, <4>5, RowWritten
      <4>7. RowsOf(r, t) \cup Beside(r, w) = RowsOf(r, t)
        BY <4>1
      <4>. QED
        BY <4>6, <4>7 DEF Coming
    <3>. QED
      BY <3>2, <3>3
  <2>. QED
    BY <2>1, <2>2, <2>4, <2>7, <2>8, <2>9, GridTurns
<1>. QED
  BY <1>2, <1>3

\* A step that is done, about something else than rows.
LEMMA Passes ==
  ASSUME TaskInv, GridInv, UNCHANGED open, NEW w \in Tasks, Todo(w) # <<>>, ~IsRow(Head(Todo(w))),
         Goes(w, <<>>), halfway' = halfway, GivenInv',
         \A r \in RoleIds \ halfway :
           Coming(r, grid[r], role[r], Beside(r, w)) => Coming(r, grid'[r], role'[r], Beside(r, w))
  PROVE  GridInv'
<1>1. Turns(w, <<>> \o Tail(Todo(w))) /\ Follows(Todo(w), <<>> \o Tail(Todo(w)))
  BY DoneIs
<1>2. List(<<>>, {"put"}) /\ \A x \in Steps(<<>>) : x.do \notin Writers
  BY ListShort, NoSteps
<1>. QED
  BY <1>1, <1>2, PassOver

LEMMA PassesBy ==
  ASSUME TaskInv, GridInv, UNCHANGED open, NEW w \in Tasks, Todo(w) # <<>>, ~IsRow(Head(Todo(w))),
         Goes(w, <<>>), UNCHANGED <<role, grid, halfway>>
  PROVE  GridInv'
<1>1. GivenInv'
  BY DEF GridInv, GivenInv, Given
<1>. QED
  BY <1>1, Passes

\* Rows of a grid come next, of a task that is not an import.
LEMMA Reads ==
  ASSUME BaseInv, GridInv, NEW w \in Tasks, NEW s, s = Todo(w), s # <<>>,
         Head(s).do \in {"migrate", "ensure", "redefine"}, Good(Head(s)),
         GridList(s) \/ ServeList(s), NEW r, r = Head(s).role,
         NEW M, NEW g, NEW m, List(m, {"put"}), Writes(Steps(m), r, M, g),
         Turns(w, m \o Tail(s)), UNCHANGED <<role, grid, halfway>>,
         r \in RoleIds /\ Coming(r, grid[r], role[r], {}) => Completes(r, grid[r], Steps(m))
  PROVE  GridInv'
<1>0. TaskInv
  BY DEF BaseInv
<1>2. ~IsRow(Head(s)) /\ Head(s).do # "ready"
  BY DEF IsRow
<1>3. Follows(s, m \o Tail(s))
  BY <1>2, RowsNext
<1>. PICK D : List(s, D)
  BY <1>0, StepsOf
<1>4. r \in About(s)
  <2>1. Head(s) = s[1] /\ 1 \in DOMAIN s
    BY ListIs
  <2>2. Head(s) \in Steps(s)
    BY <2>1 DEF Steps
  <2>. QED
    BY <2>2 DEF About, Writers
<1>. QED
  BY <1>0, <1>2, <1>3, <1>4, Expands

LEMMA ReadsOn ==
  ASSUME BaseInv, GridInv, UNCHANGED open, NEW w \in Tasks, Migrate(w) \/ Ensure(w) \/ Redefine(w)
  PROVE  GridInv'
<1>. PICK s : s = Todo(w)
  OBVIOUS
<1>. PICK h : h = Head(s)
  OBVIOUS
<1>. PICK r : r = h.role
  OBVIOUS
<1>0. TaskInv /\ Tables /\ GivenInv
  BY DEF BaseInv, GridInv
<1>1. Subject(w) = r
  BY DEF Subject, Todo
<1>2. PICK x \in {"migrate", "ensure", "redefine"} : Has(w, x) /\ s # <<>> /\ h.do = x
  BY DEF Migrate, Ensure, Redefine, Has, Todo
<1>3. x \in GridDo \ {"put"} /\ (x # "ensure" => x \in GridDo \ {"put", "ensure"})
  BY DEF GridDo
<1>4. Good(h) /\ (GridList(s) \/ ServeList(s)) /\ ~IsRow(h)
  BY <1>0, <1>2, <1>3, WhichList DEF IsRow
<1>5. UNCHANGED <<role, grid, halfway>>
  BY DEF Migrate, Ensure, Redefine
<1>6. Shown \subseteq Modules
  BY DEF Shown
<1>. PICK p : p = role[r]
  OBVIOUS
<1>7. CASE Goes(w, <<>>)
  BY <1>0, <1>2, <1>4, <1>5, <1>7, PassesBy
<1>8. CASE Migrate(w) /\ p # Nothing
  <2>1. Goes(w, Puts(r, Modules, LegacyOf(p)))
    BY <1>1, <1>8 DEF Migrate
  <2>. PICK put : put = Puts(r, Modules, LegacyOf(p))
    OBVIOUS
  <2>2. Turns(w, put \o Tail(s))
    BY <1>0, <2>1, GoesIs DEF TaskInv
  <2>5. Writes(Steps(put), r, Modules, LegacyOf(p))
    BY Finite, RowsAre
  <2>3. ASSUME r \in RoleIds, NEW R, Writes(R, r, Modules, LegacyOf(p)) PROVE Completes(r, grid[r], R)
    <3>1. p \in Given(r)
      BY <1>0, <1>8, <2>3 DEF GivenInv
    <3>2. LegacyOf(p) \in Meant(r) /\ \A m \in Shown : LegacyOf(p)[m] # Nothing
      BY <1>6, <2>3, <3>1, MeantIs
    <3>. QED
      BY <1>6, <2>3, <3>2, Covered
  <2>4. \A m \in Modules : LegacyOf(p)[m] # Nothing
    BY Grants
  <2>6. List(put, {"put"})
    BY <2>4, Finite, ListPuts
  <2>7. r \in RoleIds => Completes(r, grid[r], Steps(put))
    BY <2>3, <2>5
  <2>. QED
    BY <1>2, <1>4, <1>5, <2>2, <2>5, <2>6, <2>7, Reads
<1>9. CASE Ensure(w) /\ p # Nothing
  <2>. PICK M \in SUBSET Modules : M = {m \in Modules : grid[r][m] = Nothing}
    OBVIOUS
  <2>1. Goes(w, Puts(r, M, LegacyOf(p)))
    BY <1>1, <1>9 DEF Ensure
  <2>. PICK put : put = Puts(r, M, LegacyOf(p))
    OBVIOUS
  <2>2. Turns(w, put \o Tail(s))
    BY <1>0, <2>1, GoesIs DEF TaskInv
  <2>5. Writes(Steps(put), r, M, LegacyOf(p))
    BY Finite, RowsAre
  <2>3. ASSUME r \in RoleIds, Coming(r, grid[r], role[r], {}), NEW R, Writes(R, r, M, LegacyOf(p))
        PROVE  Completes(r, grid[r], R)
    BY <1>0, <1>9, <2>3, Missing
  <2>4. \A m \in M : LegacyOf(p)[m] # Nothing
    BY Grants
  <2>6. List(put, {"put"})
    BY <2>4, Finite, ListPuts
  <2>7. r \in RoleIds /\ Coming(r, grid[r], role[r], {}) => Completes(r, grid[r], Steps(put))
    BY <2>3, <2>5
  <2>. QED
    BY <1>2, <1>4, <1>5, <2>2, <2>5, <2>6, <2>7, Reads
<1>10. CASE Redefine(w) /\ ~Goes(w, <<>>)
  <2>. PICK matrix : matrix = MatrixOf[release][r]
    OBVIOUS
  <2>1. task' = [task EXCEPT ![w].todo = Puts(r, Shown, matrix) \o Tail(@), ![w].marks[r] = matrix]
    BY <1>1, <1>10 DEF Redefine
  <2>2. task' = [task EXCEPT ![w].todo = Puts(r, Shown, matrix) \o Tail(s),
                             ![w].marks = [task[w].marks EXCEPT ![r] = matrix]]
    BY ZenonT(60), <1>0, <2>1 DEF TaskInv, TaskForm, Todo
  <2>. PICK put : put = Puts(r, Shown, matrix)
    OBVIOUS
  <2>3. Turns(w, put \o Tail(s))
    BY <1>0, <2>2, ChangeIs DEF TaskInv
  <2>4. r \in RoleIds
    BY <1>2, <1>4, <1>10 DEF Good, Redefine, Has, Todo
  <2>5. matrix \in Meant(r) /\ \A m \in Shown : matrix[m] # Nothing
    BY <1>0, <2>4, MeantIs DEF Tables
  <2>6. \A R : Writes(R, r, Shown, matrix) => Completes(r, grid[r], R)
    BY <2>5, Covered
  <2>7. Writes(Steps(put), r, Shown, matrix) /\ List(put, {"put"})
    BY <1>6, <2>5, Finite, RowsAre, ListPuts
  <2>8. Completes(r, grid[r], Steps(put))
    BY <2>6, <2>7
  <2>. QED
    BY <1>2, <1>4, <1>5, <2>3, <2>7, <2>8, Reads
<1>. QED
  BY <1>1, <1>7, <1>8, <1>9, <1>10 DEF Migrate, Ensure, Redefine

---- \* What steps about grids keep

LEMMA Heads ==
  ASSUME NEW w, NEW x, Has(w, x)
  PROVE  /\ Todo(w) # <<>> /\ Head(Todo(w)).do = x /\ Subject(w) = Head(Todo(w)).role
         /\ x \notin {"put", "edit"} => ~IsRow(Head(Todo(w)))
BY DEF Has, Todo, Subject, IsRow

\* The role whose rows are dropped has no other task's rows coming, or they come too late.
LEMMA WholeDrops ==
  ASSUME BaseInv, GridInv, UNCHANGED open, NEW w \in Tasks, DropGrid(w) \/ DropRole(w)
  PROVE  GridInv'
<1>. PICK q : q = Subject(w)
  OBVIOUS
<1>0. TaskInv /\ Tables
  BY DEF BaseInv
<1>1. /\ Goes(w, <<>>) /\ grid' = [grid EXCEPT ![q] = Blank] /\ halfway' = halfway
      /\ (DropGrid(w) => role' = role) /\ (DropRole(w) => role' = [role EXCEPT ![q] = Nothing])
  BY DEF DropGrid, DropRole
<1>2. PICK x \in {"drop grid", "drop role"} : Has(w, x) /\ (DropGrid(w) => x = "drop grid")
  BY DEF DropGrid, DropRole, Has
<1>3. Todo(w) # <<>> /\ Head(Todo(w)).do = x /\ q = Head(Todo(w)).role /\ ~IsRow(Head(Todo(w)))
  BY <1>2, Heads
<1>4. q \notin System /\ Head(Todo(w)) \in Steps(Todo(w))
  BY <1>0, <1>2, <1>3, WhichList DEF Good
<1>5. DropGrid(w) /\ q \notin halfway => Beside(q, w) = {}
  <2>1. x = "drop grid" => q \in About(Todo(w))
    BY <1>3, <1>4 DEF About, Writers
  <2>. QED
    BY <1>2, <2>1, Sole DEF GridInv
<1>6. Bare(Blank)
  BY DEF Bare, Blank, Shown
<1>7. \A r \in RoleIds : r # q => grid'[r] = grid[r] /\ role'[r] = role[r]
  BY <1>0, <1>1 DEF Tables
<1>8. q \in RoleIds => grid'[q] = Blank /\ (DropRole(w) => role'[q] = Nothing)
  BY <1>0, <1>1 DEF Tables
<1>9. GivenInv'
  <2>1. \A r \in RoleIds : role'[r] = role[r] \/ role'[r] = Nothing
    BY <1>1, <1>7, <1>8
  <2>. QED
    BY <2>1 DEF GridInv, GivenInv, Given
<1>10. \A r \in RoleIds \ halfway :
         Coming(r, grid[r], role[r], Beside(r, w)) => Coming(r, grid'[r], role'[r], Beside(r, w))
  <2>. TAKE r \in RoleIds \ halfway
  <2>1. CASE r # q
    BY <1>7, <2>1
  <2>2. CASE r = q
    BY <1>4, <1>5, <1>6, <1>8, <2>2 DEF Coming, Lost
  <2>. QED
    BY <2>1, <2>2
<1>. QED
  BY <1>0, <1>1, <1>3, <1>9, <1>10, Passes

LEMMA WholeNotes ==
  ASSUME BaseInv, GridInv, UNCHANGED open, NEW w \in Tasks, NoteMark(w)
  PROVE  GridInv'
<1>. PICK s : s = Todo(w)
  OBVIOUS
<1>0. TaskInv
  BY DEF BaseInv
<1>1. Has(w, "note") /\ UNCHANGED <<role, grid, halfway>>
  BY DEF NoteMark
<1>2. s # <<>> /\ ~IsRow(Head(s))
  BY <1>1, Heads
<1>3. PICK noted : task' = [task EXCEPT ![w].todo = Tail(s), ![w].marks = noted]
  BY <1>0 DEF NoteMark, TaskInv, TaskForm, Todo
<1>. PICK D : List(s, D)
  BY <1>0, <1>2, StepsOf
<1>4. Turns(w, Tail(s)) /\ Tail(s) = <<>> \o Tail(s)
  <2>1. Turns(w, Tail(s))
    BY <1>0, <1>3, ChangeIs DEF TaskInv
  <2>. PICK S : S = {s[k] : k \in DOMAIN s}
    OBVIOUS
  <2>2. s \in Seq(S)
    BY DEF List
  <2>. QED
    BY <1>2, <2>1, <2>2
<1>5. Follows(s, <<>> \o Tail(s))
  <2>1. Kind(s)
    BY <1>0 DEF TaskInv, Owned
  <2>. QED
    BY <1>2, <2>1, Done
<1>6. List(<<>>, {"put"}) /\ \A x \in Steps(<<>>) : x.do \notin Writers
  BY ListShort, NoSteps
<1>7. GivenInv'
  BY <1>1 DEF GridInv, GivenInv, Given
<1>8. Turns(w, <<>> \o Tail(s))
  BY <1>4
<1>. QED
  BY <1>0, <1>1, <1>2, <1>5, <1>6, <1>7, <1>8, PassOver

LEMMA WholeSteps ==
  ASSUME BaseInv, GridInv, UNCHANGED open, NEW w \in Tasks, StepOf(w) \/ DropRole(w)
  PROVE  GridInv'
<1>1. CASE SaveMarks(w) \/ ClearCache(w) \/ Remember(w)
  <2>1. PICK x \in {"save", "clear", "remember"} : Has(w, x)
    BY <1>1 DEF SaveMarks, ClearCache, Remember
  <2>2. Todo(w) # <<>> /\ ~IsRow(Head(Todo(w)))
    BY <2>1, Heads
  <2>3. Goes(w, <<>>) /\ UNCHANGED <<role, grid, halfway>>
    BY <1>1 DEF SaveMarks, ClearCache, Remember
  <2>. QED
    BY <2>2, <2>3, PassesBy DEF BaseInv
<1>2. CASE TaskDies(w)
  <2>1. task' = [task EXCEPT ![w] = Free] /\ halfway' = halfway \cup InHand(w) /\ UNCHANGED <<role, grid>>
    BY <1>2 DEF TaskDies
  <2>2. Turns(w, <<>>)
    BY <2>1, DiesIs DEF BaseInv, TaskInv
  <2>. QED
    BY <2>1, <2>2, Abandons DEF BaseInv
<1>. QED
  BY <1>1, <1>2, ReadsOn, PutsRow, WholeNotes, WholeDrops DEF StepOf

---- \* What filling the database keeps

LEMMA AboutJoined ==
  ASSUME NEW D, NEW E, NEW s, NEW t, List(s, D), List(t, E), NEW u, u = s \o t,
         NEW R, About(s) \subseteq R, About(t) \subseteq R
  PROVE  About(u) \subseteq R
<1>. PICK S : S = {s[k] : k \in DOMAIN s} \cup {t[k] : k \in DOMAIN t}
  OBVIOUS
<1>1. s \in Seq(S) /\ t \in Seq(S)
  BY DEF List
<1>2. Steps(u) = Steps(s) \cup Steps(t)
  BY <1>1, StepsJoined
<1>. QED
  BY <1>2 DEF About

LEMMA NoRows ==
  ASSUME NEW D, NEW s, List(s, D), "put" \notin D, "edit" \notin D
  PROVE  RowsFirst(s) /\ \A r : RowsOf(r, s) = {}
<1>1. \A x \in Steps(s) : ~IsRow(x)
  BY DEF List, Steps, IsRow
<1>. QED
  BY <1>1, NoneFirst

LEMMA AllAbout ==
  ASSUME NEW S, IsFiniteSet(S), NEW step
  PROVE  About(All(step, S)) \subseteq S
<1>. PICK q : q = SetToSeq(S)
  OBVIOUS
<1>1. q \in Seq(S)
  BY ListOf
<1>2. \A k \in DOMAIN q : q[k] \in S
  BY <1>1
<1>3. \A r : Do(step, r).role = r
  BY DEF Do
<1>4. \A x \in Steps(Each(step, q)) : x.role \in S
  BY <1>2, <1>3 DEF Each, Steps
<1>. QED
  BY <1>4 DEF All, About

\* The roles a task comes to beside others are those it meets them on.
LEMMA Meets ==
  ASSUME TaskInv, GridInv, NEW w \in Tasks, NEW t, NEW A, About(t) \subseteq A,
         halfway' = halfway \cup (A \cap WrittenBeside(w))
  PROVE  /\ halfway \subseteq halfway'
         /\ \A v \in Tasks \ {w} : About(t) \cap About(Todo(v)) \subseteq halfway'
         /\ \A r \in A \ halfway' : Beside(r, w) = {}
<1>1. WrittenBeside(w) = UNION {About(Todo(v)) : v \in Tasks \ {w}}
  BY WritesIs DEF WrittenBeside, TaskInv, TaskForm
<1>2. ASSUME NEW r \in A \ halfway' PROVE Beside(r, w) = {}
  <2>1. \A v \in Tasks \ {w} : r \notin About(Todo(v))
    BY <1>1
  <2>2. \A v \in Tasks \ {w} : RowsOf(r, Todo(v)) = {}
    BY <2>1, RowAbout
  <2>. QED
    BY <2>2 DEF Beside
<1>. QED
  BY <1>1, <1>2

LEMMA WholeEnsures ==
  ASSUME BaseInv, GridInv, UNCHANGED open, NEW w \in Tasks, EnsureAll(w)
  PROVE  GridInv'
<1>. PICK R : R = {r \in RoleIds : role[r] # Nothing}
  OBVIOUS
<1>. PICK a : a = Do("ready", Nothing)
  OBVIOUS
<1>. PICK each : each = All("ensure", R)
  OBVIOUS
<1>. PICK t : t = each \o <<a>>
  OBVIOUS
<1>0. TaskInv
  BY DEF BaseInv
<1>1. /\ Has(w, "ensure all") /\ Goes(w, t) /\ UNCHANGED <<role, grid>>
      /\ halfway' = halfway \cup (R \cap WrittenBeside(w))
  BY DEF EnsureAll
<1>2. Todo(w) # <<>> /\ SeedList(Todo(w)) /\ Head(Todo(w)).do = "ensure all"
  <2>1. "ensure all" \in SeedDo
    BY DEF SeedDo
  <2>. QED
    BY <1>0, <1>1, <2>1, WhichList
<1>3. ServeList(t) /\ IsFiniteSet(R)
  BY Finite, ServeFrom
<1>4. Turns(w, t)
  <2>1. Tail(Todo(w)) = <<>>
    BY <1>2, KindOver DEF SeedList
  <2>2. t \o <<>> = t
    <3>. PICK S : S = {t[k] : k \in DOMAIN t}
      OBVIOUS
    <3>1. t \in Seq(S)
      BY <1>3 DEF ServeList, List
    <3>. QED
      BY <3>1
  <2>3. Turns(w, t \o Tail(Todo(w)))
    BY <1>0, <1>1, GoesIs DEF TaskInv
  <2>. QED
    BY <2>1, <2>2, <2>3
<1>5. a.do = "ready" /\ Good(a)
  <2>1. "ready" \notin Plainly
    BY DEF Plainly
  <2>. QED
    BY <2>1, PlainDo
<1>6. List(each, {"ensure"}) /\ List(<<a>>, {"ready"})
  <2>1. "ensure" \notin Plainly
    BY DEF Plainly
  <2>2. \A r \in R : Good(Do("ensure", r))
    BY <2>1, PlainDo
  <2>. QED
    BY <1>3, <1>5, <2>2, ListAll, ListShort
<1>7. About(t) \subseteq R
  <2>. PICK last : last = <<a>>
    OBVIOUS
  <2>1. About(last) \subseteq R
    <3>1. Steps(last) = {a}
      BY DEF Steps
    <3>. QED
      BY <1>5, <3>1 DEF About, Writers
  <2>2. About(each) \subseteq R
    BY <1>3, AllAbout
  <2>3. List(each, EnsureDo) /\ List(last, ReadyDo) /\ t = each \o last
    BY <1>6 DEF EnsureDo, ReadyDo
  <2>. QED
    BY <2>1, <2>2, <2>3, AboutJoined
<1>8. RowsFirst(t) /\ \A r : RowsOf(r, t) = {} /\ RowsOf(r, Todo(w)) = {}
  <2>1. List(t, {"ensure", "ready"})
    <3>1. List(each, {"ensure", "ready"}) /\ List(<<a>>, {"ensure", "ready"})
      BY <1>6, ListWider
    <3>. QED
      BY <3>1, ListJoin
  <2>2. RowsFirst(t) /\ \A r : RowsOf(r, t) = {}
    BY <2>1, NoRows
  <2>3. List(Todo(w), SeedDo) /\ "put" \notin SeedDo /\ "edit" \notin SeedDo
    BY <1>2 DEF SeedList, SeedDo
  <2>. QED
    BY <2>2, <2>3, NoRows
<1>9. AloneInv' /\ GivenInv'
  <2>1. Follows(Todo(w), t)
    BY <1>2, <1>3 DEF Follows
  <2>. QED
    BY <1>1, <1>2, <1>4, <2>1, AloneKept DEF GridInv, GivenInv, Given
<1>10. /\ halfway \subseteq halfway'
       /\ \A v \in Tasks \ {w} : About(t) \cap About(Todo(v)) \subseteq halfway'
  BY <1>0, <1>1, <1>7, Meets
<1>11. \A r \in RoleIds \ halfway' : Coming(r, grid'[r], role'[r], RowsOf(r, t) \cup Beside(r, w))
  <2>. TAKE r \in RoleIds \ halfway'
  <2>1. Pending(r) = RowsOf(r, t) \cup Beside(r, w)
    BY <1>8, PendingIs
  <2>. QED
    BY <1>1, <1>10, <2>1 DEF GridInv, WholeInv
<1>. QED
  BY <1>4, <1>8, <1>9, <1>10, <1>11, GridTurns

\* An import has nothing beside it.
LEMMA NoneBeside ==
  ASSUME GridInv, NEW w \in Tasks, ImportList(Todo(w))
  PROVE  (\A v \in Tasks \ {w} : Todo(v) = <<>>) /\ \A r : Beside(r, w) = {}
<1>1. \A v \in Tasks \ {w} : Todo(v) = <<>>
  BY DEF GridInv, AloneInv
<1>2. \A r : \A v \in Tasks \ {w} : RowsOf(r, Todo(v)) = {}
  BY <1>1, NoSteps DEF RowsOf
<1>. QED
  BY <1>1, <1>2 DEF Beside

LEMMA WholeRoles ==
  ASSUME BaseInv, GridInv, UNCHANGED open, NEW w \in Tasks,
         SeedRole(w) \/ WipeRoles(w) \/ BringRole(w)
  PROVE  GridInv'
<1>. PICK q : q = Subject(w)
  OBVIOUS
<1>0. TaskInv /\ Tables
  BY DEF BaseInv
<1>1. PICK x \in {"seed role", "wipe roles", "bring role"} :
        /\ Has(w, x) /\ (SeedRole(w) => x = "seed role")
        /\ ~SeedRole(w) => x \in {"wipe roles", "bring role"}
  BY DEF SeedRole, WipeRoles, BringRole, Has
<1>2. Todo(w) # <<>> /\ Head(Todo(w)).do = x /\ q = Head(Todo(w)).role /\ ~IsRow(Head(Todo(w)))
  BY <1>1, Heads
<1>3. Goes(w, <<>>) /\ halfway' = halfway
  BY DEF SeedRole, WipeRoles, BringRole, GridsRest
<1>4. CASE SeedRole(w)
  <2>1. role' = [role EXCEPT ![q] = StandardPerms[q]] /\ grid' = grid
    BY <1>4 DEF SeedRole
  <2>2. q \in System
    BY <1>0, <1>1, <1>2, <1>4, WhichList DEF Good
  <2>3. \A r \in RoleIds : role'[r] = IF r = q THEN StandardPerms[r] ELSE role[r]
    BY <1>0, <2>1 DEF Tables
  <2>4. GivenInv'
    BY <2>3 DEF GridInv, GivenInv, Given
  <2>5. \A r \in RoleIds \ halfway :
          Coming(r, grid[r], role[r], Beside(r, w)) => Coming(r, grid'[r], role'[r], Beside(r, w))
    BY <2>1, <2>2, <2>3 DEF Coming, Lost
  <2>. QED
    BY <1>0, <1>2, <1>3, <2>4, <2>5, Passes
<1>5. CASE ~SeedRole(w)
  <2>1. \A r : Beside(r, w) = {}
    <3>1. x \in ImportDo
      BY <1>1, <1>5 DEF ImportDo
    <3>. QED
      BY <1>0, <1>1, <3>1, WhichList, NoneBeside
  <2>2. Bare(Blank)
    BY DEF Bare, Blank, Shown
  <2>3. \A r \in RoleIds : /\ grid'[r] = grid[r] \/ grid'[r] = Blank
                           /\ role'[r] \in {role[r], Nothing, Legacy.role[r]}
    BY <1>0, <1>5 DEF WipeRoles, BringRole, Tables
  <2>4. GivenInv'
    BY <2>3 DEF GridInv, GivenInv, Given
  <2>5. \A r \in RoleIds \ halfway :
          Coming(r, grid[r], role[r], Beside(r, w)) => Coming(r, grid'[r], role'[r], Beside(r, w))
    BY <2>1, <2>2, <2>3 DEF Coming
  <2>. QED
    BY <1>0, <1>2, <1>3, <2>4, <2>5, Passes
<1>. QED
  BY <1>4, <1>5

LEMMA WholeBrings ==
  ASSUME BaseInv, GridInv, UNCHANGED open, NEW w \in Tasks, BringGrid(w) \/ KnowUsers(w)
  PROVE  GridInv'
<1>. PICK s : s = Todo(w)
  OBVIOUS
<1>0. TaskInv
  BY DEF BaseInv
<1>1. UNCHANGED <<role, grid, halfway>>
  BY DEF BringGrid, KnowUsers, Elsewhere, GridsRest
<1>2. PICK x \in {"bring grid", "know users"} : Has(w, x) /\ (BringGrid(w) => x = "bring grid")
  BY DEF BringGrid, KnowUsers, Has
<1>3. ImportList(s) /\ s # <<>> /\ Head(s).do = x /\ Good(Head(s)) /\ ~IsRow(Head(s))
  <2>1. x \in ImportDo
    BY DEF ImportDo
  <2>. QED
    BY <1>0, <1>2, <2>1, WhichList, Heads
<1>4. CASE BringGrid(w)
  <2>. PICK q : q = Subject(w)
    OBVIOUS
  <2>. PICK g : g = Legacy.grid[q]
    OBVIOUS
  <2>. PICK m : m = Puts(q, Modules, g)
    OBVIOUS
  <2>1. q \in RoleIds
    BY <1>2, <1>3, <1>4, Heads DEF Good
  <2>2. g \in Meant(q) /\ \A k \in Modules : g[k] # Nothing
    BY <2>1, MeantIs
  <2>3. List(m, {"put"}) /\ Writes(Steps(m), q, Modules, g)
    BY <2>2, Finite, ListPuts, RowsAre
  <2>4. Turns(w, m \o Tail(s))
    BY <1>0, <1>4, GoesIs DEF BringGrid, TaskInv
  <2>5. Follows(s, m \o Tail(s))
    BY <1>2, <1>3, <1>4, <2>3, RowsNext
  <2>6. Completes(q, grid[q], Steps(m))
    BY <2>2, <2>3, Covered DEF Shown
  <2>7. \A v \in Tasks \ {w} : Todo(v) = <<>>
    BY <1>3, NoneBeside
  <2>. QED
    BY <1>0, <1>1, <1>3, <2>3, <2>4, <2>5, <2>6, <2>7, Expands
<1>5. CASE KnowUsers(w)
  <2>1. PICK m : List(m, NextDo) /\ Turns(w, m \o Tail(s)) /\ \A y \in Steps(m) : y.do = "bring log"
    BY <1>0, <1>5, ImportNext
  <2>2. \A y \in Steps(m) : y.do \notin Writers
    BY <2>1 DEF Writers
  <2>3. ImportList(m \o Tail(s))
    <3>1. NextDo \subseteq {"put", "bring log"} /\ Head(s).do # "reconcile"
      BY <1>3 DEF NextDo
    <3>. QED
      BY <1>3, <2>1, <3>1, ImportGoesOn
  <2>4. Follows(s, m \o Tail(s))
    BY <1>3, <2>3 DEF Follows
  <2>5. GivenInv'
    BY <1>1 DEF GridInv, GivenInv, Given
  <2>. QED
    BY <1>0, <1>1, <1>3, <2>1, <2>2, <2>4, <2>5, PassOver
<1>. QED
  BY <1>4, <1>5

LEMMA WholeFills ==
  ASSUME BaseInv, GridInv, UNCHANGED open, NEW w \in Tasks, FillingSteps(w)
  PROVE  GridInv'
<1>1. CASE \/ SeedRule(w) \/ SeedSettings(w) \/ SeedAdmin(w) \/ Ready(w) \/ WipeAccounts(w)
           \/ WipeLists(w) \/ BringUser(w) \/ BringHold(w) \/ BringLookup(w) \/ BringRow(w)
           \/ BringLog(w) \/ BringSettings(w) \/ BringRule(w) \/ Reconcile(w) \/ WriteNumber(w)
  <2>1. Goes(w, <<>>) /\ UNCHANGED <<role, grid, halfway>>
    BY <1>1 DEF SeedRule, SeedSettings, SeedAdmin, Ready, WipeAccounts, WipeLists, BringUser,
       BringHold, BringLookup, BringRow, BringLog, BringSettings, BringRule, Reconcile,
       WriteNumber, Elsewhere, GridsRest
  <2>2. PICK x \in {"seed rule", "seed settings", "seed admin", "ready", "wipe accounts",
                     "wipe lists", "bring user", "bring hold", "bring lookup", "bring row",
                     "bring log", "bring settings", "bring rule", "reconcile", "number"} : Has(w, x)
    BY <1>1 DEF SeedRule, SeedSettings, SeedAdmin, Ready, WipeAccounts, WipeLists, BringUser,
       BringHold, BringLookup, BringRow, BringLog, BringSettings, BringRule, Reconcile, WriteNumber
  <2>3. Todo(w) # <<>> /\ ~IsRow(Head(Todo(w)))
    BY <2>2, Heads
  <2>. QED
    BY <2>1, <2>3, PassesBy DEF BaseInv
<1>. QED
  BY <1>1, WholeRoles, WholeBrings, WholeEnsures DEF FillingSteps

---- \* What starts of tasks keep

\* A task begins, with the rows of roles it writes first of all.
LEMMA WholeStart ==
  ASSUME TaskInv, GridInv, NEW w \in Tasks, NEW t, Start(w, t), RowsFirst(t), GivenInv', grid' = grid,
         \/ ~ImportList(t) /\ \A v \in Tasks : ~ImportList(Todo(v))
         \/ \A v \in Tasks : Todo(v) = <<>>,
         \A r \in RoleIds :
           \/ RowsOf(r, t) = {} /\ role'[r] = role[r]
           \/ /\ r \in About(t)
              /\ Coming(r, grid[r], role[r], {}) => Coming(r, grid[r], role'[r], RowsOf(r, t))
  PROVE  GridInv'
<1>1. Turns(w, t) /\ Todo(w) = <<>>
  BY StartIs DEF TaskInv
<1>2. halfway' = halfway \cup (About(t) \cap WrittenBeside(w))
  BY DEF Start, About, Steps
<1>3. /\ halfway \subseteq halfway'
      /\ \A v \in Tasks \ {w} : About(t) \cap About(Todo(v)) \subseteq halfway'
      /\ \A r \in About(t) \ halfway' : Beside(r, w) = {}
  BY <1>2, Meets
<1>4. AloneInv'
  BY <1>1, AloneBegun DEF GridInv
<1>5. \A r : RowsOf(r, Todo(w)) = {}
  BY <1>1, NoSteps DEF RowsOf
<1>6. \A r \in RoleIds \ halfway' : Coming(r, grid'[r], role'[r], RowsOf(r, t) \cup Beside(r, w))
  <2>. TAKE r \in RoleIds \ halfway'
  <2>1. Coming(r, grid[r], role[r], Beside(r, w))
    <3>1. Pending(r) = Beside(r, w)
      BY <1>5, PendingIs
    <3>. QED
      BY <1>3, <3>1 DEF GridInv, WholeInv
  <2>2. CASE RowsOf(r, t) = {} /\ role'[r] = role[r]
    <3>1. RowsOf(r, t) \cup Beside(r, w) = Beside(r, w)
      BY <2>2
    <3>. QED
      BY <2>1, <2>2, <3>1
  <2>3. CASE /\ r \in About(t)
             /\ Coming(r, grid[r], role[r], {}) => Coming(r, grid[r], role'[r], RowsOf(r, t))
    <3>1. Beside(r, w) = {}
      BY <1>3, <2>3
    <3>2. RowsOf(r, t) \cup Beside(r, w) = RowsOf(r, t)
      BY <3>1
    <3>. QED
      BY <2>1, <2>3, <3>1, <3>2
  <2>. QED
    BY <2>2, <2>3
<1>. QED
  BY <1>1, <1>3, <1>4, <1>6, GridTurns

LEMMA WholeQuiet ==
  ASSUME TaskInv, GridInv, NEW w \in Tasks, NEW t, Start(w, t), UNCHANGED <<role, grid>>,
         NEW D, List(t, D), "put" \notin D, "edit" \notin D,
         \/ ~ImportList(t) /\ \A v \in Tasks : ~ImportList(Todo(v))
         \/ \A v \in Tasks : Todo(v) = <<>>
  PROVE  GridInv'
<1>1. RowsFirst(t) /\ \A r : RowsOf(r, t) = {}
  BY NoRows
<1>2. GivenInv'
  BY DEF GridInv, GivenInv, Given
<1>. QED
  BY <1>1, <1>2, WholeStart

\* Permissions are saved, and a grid made of them next.
LEMMA WholeGives ==
  ASSUME BaseInv, GridInv, ~Importing, NEW w \in Tasks, CreateRole(w) \/ UpdateRole(w)
  PROVE  GridInv'
<1>0. TaskInv /\ Tables
  BY DEF BaseInv
<1>1. PICK q \in RoleIds, p \in Perms :
        Start(w, <<Do("migrate", q)>>) /\ role' = [role EXCEPT ![q] = p] /\ grid' = grid
  BY DEF CreateRole, UpdateRole
<1>. PICK a : a = Do("migrate", q)
  OBVIOUS
<1>. PICK t : t = <<a>>
  OBVIOUS
<1>2. a.do = "migrate" /\ a.role = q /\ Good(a)
  <2>1. "migrate" \notin Plainly
    BY DEF Plainly
  <2>. QED
    BY <2>1, PlainDo
<1>3. Steps(t) = {a}
  BY DEF Steps
<1>4. RowsFirst(t) /\ (\A r : RowsOf(r, t) = {}) /\ About(t) = {q}
  <2>1. ~IsRow(a) /\ a.do \in Writers
    BY <1>2 DEF IsRow, Writers
  <2>2. RowsFirst(t) /\ \A r : RowsOf(r, t) = {}
    BY <1>3, <2>1, NoneFirst
  <2>3. About(t) = {q}
    BY <1>2, <1>3, <2>1 DEF About
  <2>. QED
    BY <2>2, <2>3
<1>5. ~ImportList(t) /\ \A v \in Tasks : ~ImportList(Todo(v))
  <2>1. GridList(t)
    <3>1. a.do \in GridDo
      BY <1>2 DEF GridDo
    <3>. QED
      BY <1>2, <3>1, ListShort DEF GridList
  <2>. QED
    BY <1>0, <2>1, Kinds, NotImporting
<1>6. \A r \in RoleIds : role'[r] = IF r = q THEN p ELSE role[r]
  BY <1>0, <1>1 DEF Tables
<1>7. GivenInv'
  BY <1>6 DEF GridInv, GivenInv, Given
<1>8. \A r \in RoleIds : Coming(r, grid[r], role[r], {}) => Coming(r, grid[r], role'[r], {})
  BY DEF Coming
<1>. QED
  BY <1>0, <1>1, <1>4, <1>5, <1>6, <1>7, <1>8, WholeStart

\* Rows of a grid of the page, for every module it shows, and then t.
LEMMA WholeEdits ==
  ASSUME BaseInv, GridInv, ~Importing, NEW w \in Tasks, UNCHANGED <<role, grid>>,
         NEW q \in RoleIds, NEW g \in Meant(q), \A m \in Shown : g[m] # Nothing,
         NEW D, D \subseteq PageDo, NEW t, List(t, D), Start(w, Edits(q, Shown, g) \o t)
  PROVE  GridInv'
<1>. PICK e : e = Edits(q, Shown, g)
  OBVIOUS
<1>. PICK u : u = e \o t
  OBVIOUS
<1>0. TaskInv
  BY DEF BaseInv
<1>1. List(e, {"edit"}) /\ Writes(Steps(e), q, Shown, g)
  BY Finite, ListPuts, RowsAre
<1>2. \A x \in Steps(e) : IsRow(x)
  BY <1>1 DEF Writes
<1>3. \A x \in Steps(t) : ~IsRow(x)
  BY DEF List, Steps, IsRow, PageDo
<1>4. RowsFirst(u) /\ (\A r : RowsOf(r, u) = RowsOf(r, e)) /\ About(u) = About(e) \cup About(t)
  BY <1>1, <1>2, <1>3, AllFirst
<1>5. RowsOf(q, e) = Steps(e) /\ \A r : r # q => RowsOf(r, e) = {}
  BY <1>1, WritesOne
<1>6. ~ImportList(u) /\ \A v \in Tasks : ~ImportList(Todo(v))
  <2>1. {"edit"} \subseteq GridDo /\ D \subseteq GridDo
    BY DEF GridDo, PageDo
  <2>2. List(e, GridDo) /\ List(t, GridDo)
    BY <1>1, <2>1, ListWider
  <2>3. GridList(u)
    BY <2>2, ListJoin DEF GridList
  <2>. QED
    BY <1>0, <2>3, Kinds, NotImporting
<1>7. Completes(q, grid[q], RowsOf(q, u))
  BY <1>1, <1>4, <1>5, Covered
<1>8. ASSUME NEW r \in RoleIds
      PROVE  \/ RowsOf(r, u) = {} /\ role'[r] = role[r]
             \/ /\ r \in About(u)
                /\ Coming(r, grid[r], role[r], {}) => Coming(r, grid[r], role'[r], RowsOf(r, u))
  <2>1. CASE RowsOf(r, u) = {}
    BY <2>1
  <2>2. CASE RowsOf(r, u) # {}
    <3>1. r \in About(u) /\ r = q
      BY <1>4, <1>5, <2>2, RowAbout
    <3>. QED
      BY <1>7, <3>1 DEF Coming
  <2>. QED
    BY <2>1, <2>2
<1>9. GivenInv'
  BY DEF GridInv, GivenInv, Given
<1>. QED
  BY <1>0, <1>4, <1>6, <1>8, <1>9, WholeStart

LEMMA WholeSaves ==
  ASSUME BaseInv, GridInv, ~Importing, NEW w \in Tasks, UpdateRoleAccess(w) \/ ResetRoleToDefault(w)
  PROVE  GridInv'
<1>0. UNCHANGED <<role, grid>>
  BY DEF UpdateRoleAccess, ResetRoleToDefault, Plain
<1>a. /\ "note" \in PageDo /\ "save" \in PageDo /\ "clear" \in PageDo
  BY DEF PageDo
<1>b. \A x \in PageDo : \A r : Do(x, r).do \in PageDo /\ Good(Do(x, r))
  BY GridOf
<1>1. CASE UpdateRoleAccess(w)
  <2>1. PICK q \in RoleIds, g \in Payloads : Start(w, Edits(q, Shown, g) \o <<Do("clear", Nothing)>>)
    BY <1>1 DEF UpdateRoleAccess
  <2>. PICK t : t = <<Do("clear", Nothing)>>
    OBVIOUS
  <2>2. List(t, PageDo)
    BY <1>a, <1>b, ListShort
  <2>3. g \in Meant(q) /\ \A m \in Shown : g[m] # Nothing
    BY MeantIs
  <2>. QED
    BY <1>0, <2>1, <2>2, <2>3, WholeEdits
<1>2. CASE ResetRoleToDefault(w)
  <2>1. PICK q \in RoleIds :
          Start(w, Edits(q, Shown, MatrixOf[release][q])
                   \o <<Do("clear", Nothing), Do("note", q), Do("save", q), Do("clear", Nothing)>>)
    BY <1>2 DEF ResetRoleToDefault
  <2>. PICK g : g = MatrixOf[release][q]
    OBVIOUS
  <2>. PICK t : t = <<Do("clear", Nothing), Do("note", q), Do("save", q), Do("clear", Nothing)>>
    OBVIOUS
  <2>2. List(t, PageDo)
    BY <1>a, <1>b, ListFour
  <2>3. g \in Meant(q) /\ \A m \in Shown : g[m] # Nothing
    BY MeantIs DEF BaseInv, Tables
  <2>. QED
    BY <1>0, <2>1, <2>2, <2>3, WholeEdits
<1>. QED
  BY <1>1, <1>2

LEMMA WholeAsks ==
  ASSUME BaseInv, GridInv, ~Importing, NEW w \in Tasks,
         ReadAccess(w) \/ SeedRedefinition(w) \/ SeedRbac(w) \/ \E r \in RoleIds : DeleteRole(w, r)
  PROVE  GridInv'
<1>. PICK D : D = GridDo \ {"put", "edit"}
  OBVIOUS
<1>. SUFFICES \E s : List(s, D) /\ Start(w, s)
  <2>1. UNCHANGED <<role, grid>>
    BY DEF ReadAccess, SeedRedefinition, SeedRbac, DeleteRole, Plain
  <2>2. ASSUME NEW s, List(s, D), Start(w, s) PROVE GridInv'
    <3>1. GridList(s)
      BY <2>2, ListWider DEF GridList
    <3>2. ~ImportList(s) /\ \A v \in Tasks : ~ImportList(Todo(v))
      BY <3>1, Kinds, NotImporting DEF BaseInv
    <3>3. "put" \notin D /\ "edit" \notin D
      OBVIOUS
    <3>. QED
      BY <2>1, <2>2, <3>2, <3>3, WholeQuiet DEF BaseInv
  <2>. QED
    BY <2>2
<1>a. /\ "migrate" \in PageDo /\ "save" \in PageDo /\ "clear" \in PageDo /\ PageDo \subseteq D
      /\ {"remember", "drop grid", "drop role", "redefine"} \subseteq D
  BY DEF PageDo, GridDo
<1>b. \A x \in PageDo : \A r : Do(x, r).do \in D /\ Good(Do(x, r))
  <2>. SUFFICES ASSUME NEW x \in PageDo, NEW r PROVE Do(x, r).do \in D /\ Good(Do(x, r))
    OBVIOUS
  <2>1. Do(x, r).do = x /\ Good(Do(x, r))
    BY GridOf
  <2>2. x \in D
    BY <1>a
  <2>. QED
    BY <2>1, <2>2, Zenon
<1>r. SetToSeq(RoleIds) \in Seq(RoleIds)
  BY PlatformAssumption, ListOf
<1>1. CASE ReadAccess(w)
  <2>1. PICK r : Start(w, <<[Do("remember", r) EXCEPT !.grant = Access(r)]>>)
    BY <1>1 DEF ReadAccess
  <2>2. \A step : step = [Do("remember", r) EXCEPT !.grant = Access(r)] => step.do \in D /\ Good(step)
    BY <1>a, RememberIs
  <2>. PICK step : step = [Do("remember", r) EXCEPT !.grant = Access(r)] /\ step.do \in D /\ Good(step)
    BY <2>2, Zenon
  <2>3. List(<<step>>, D)
    BY ListShort
  <2>. QED
    BY <2>1, <2>3
<1>2. CASE \E r \in RoleIds : DeleteRole(w, r)
  <2>1. PICK r : r \notin System /\ Start(w, <<Do("drop grid", r), Do("drop role", r)>>)
    BY <1>2 DEF DeleteRole
  <2>2. ASSUME NEW x \in {"drop grid", "drop role"}, NEW t, t = Do(x, r) PROVE t.do \in D /\ Good(t)
    <3>1. t.do = x /\ Good(t)
      BY <2>1, <2>2, DropStepIs
    <3>. QED
      BY <1>a, <3>1
  <2>3. List(<<Do("drop grid", r), Do("drop role", r)>>, D)
    BY <2>2, ListShort
  <2>. QED
    BY <2>1, <2>3
<1>3. CASE SeedRedefinition(w)
  <2>. PICK steps : steps = Each("redefine", SetToSeq(RoleIds))
    OBVIOUS
  <2>1. Start(w, steps \o <<Do("save", Nothing), Do("clear", Nothing)>>)
    BY <1>3 DEF SeedRedefinition, Each
  <2>2. List(steps, D)
    <3>1. "redefine" \in D /\ \A r \in RoleIds : Good(Do("redefine", r))
      BY <1>a, GridStepIs
    <3>. QED
      BY <1>r, <3>1, ListEach
  <2>3. List(<<Do("save", Nothing), Do("clear", Nothing)>>, D)
    BY <1>a, <1>b, ListShort
  <2>. QED
    BY <2>1, <2>2, <2>3, ListJoin
<1>4. CASE SeedRbac(w)
  <2>1. Start(w, Each("migrate", SetToSeq(RoleIds)))
    BY <1>4 DEF SeedRbac, Each
  <2>2. List(Each("migrate", SetToSeq(RoleIds)), D)
    <3>1. "migrate" \in D /\ \A r \in RoleIds : Good(Do("migrate", r))
      BY <1>a, <1>b
    <3>. QED
      BY <1>r, <3>1, ListEach
  <2>. QED
    BY <2>1, <2>2
<1>. QED
  BY <1>1, <1>2, <1>3, <1>4

LEMMA WholeFillStarts ==
  ASSUME BaseInv, GridInv, NEW w \in Tasks,
         (~Importing /\ (ColdStart(w) \/ TakeNumber(w))) \/ Import(w)
  PROVE  GridInv'
<1>0. TaskInv /\ UNCHANGED <<role, grid>>
  BY DEF BaseInv, ColdStart, TakeNumber, Import, Filling
<1>1. CASE ~Importing /\ ColdStart(w)
  <2>1. Start(w, SeedSteps) /\ SeedList(SeedSteps)
    BY <1>1, SeedStepsIs DEF ColdStart, Filling
  <2>2. List(SeedSteps, SeedDo) /\ "put" \notin SeedDo /\ "edit" \notin SeedDo
    BY <2>1 DEF SeedList, SeedDo
  <2>3. ~ImportList(SeedSteps) /\ \A v \in Tasks : ~ImportList(Todo(v))
    BY <1>0, <1>1, <2>1, Kinds, NotImporting
  <2>. QED
    BY <1>0, <2>1, <2>2, <2>3, WholeQuiet
<1>2. CASE ~Importing /\ TakeNumber(w)
  <2>1. \A a : a = [Do("number", Nothing) EXCEPT !.grant = rule.sequence + 1] => a.do = "number" /\ Good(a)
    BY NumberIs
  <2>2. PICK a : a.do = "number" /\ Good(a) /\ Start(w, <<a>>)
    BY <1>2, <2>1, Zenon DEF TakeNumber
  <2>. PICK t : t = <<a>>
    OBVIOUS
  <2>3. List(t, {"number"}) /\ NumberList(t)
    BY <2>2, ListShort, NumberListIs
  <2>4. ~ImportList(t) /\ \A v \in Tasks : ~ImportList(Todo(v))
    BY <1>0, <1>2, <2>3, Kinds, NotImporting
  <2>5. Start(w, t) /\ "put" \notin {"number"} /\ "edit" \notin {"number"}
    BY <2>2
  <2>. QED
    BY <1>0, <2>3, <2>4, <2>5, WholeQuiet
<1>3. CASE Import(w)
  <2>1. Start(w, ImportSteps) /\ \A v \in Tasks : Todo(v) = <<>>
    BY <1>0, <1>3, FreeIs DEF Import, Filling, TaskInv, TaskForm, Todo
  <2>2. List(ImportSteps, ImportDo) /\ "put" \notin ImportDo /\ "edit" \notin ImportDo
    BY ImportStepsIs DEF ImportDo
  <2>. QED
    BY <1>0, <2>1, <2>2, WholeQuiet
<1>. QED
  BY <1>1, <1>2, <1>3

---- \* Grids are whole

LEMMA WholeSame ==
  ASSUME GridInv, UNCHANGED <<role, grid, task, halfway>>
  PROVE  GridInv'
<1>1. \A w \in Tasks : Todo(w)' = Todo(w)
  BY DEF Todo
<1>2. \A r : \A w \in Tasks : About(Todo(w))' = About(Todo(w)) /\ RowsOf(r, Todo(w))' = RowsOf(r, Todo(w))
  BY <1>1 DEF About, RowsOf, Steps
<1>3. \A r : Pending(r)' = Pending(r)
  BY <1>2 DEF Pending
<1>4. MeetInv'
  BY <1>2 DEF GridInv, MeetInv
<1>5. FirstInv' /\ AloneInv'
  BY <1>1 DEF GridInv, FirstInv, RowsFirst, AloneInv, ImportList, List, EndsWith
<1>6. GivenInv'
  BY DEF GridInv, GivenInv, Given
<1>7. WholeInv'
  BY <1>3 DEF GridInv, WholeInv, Coming, Completes, Bare, Lost, Meant
<1>. QED
  BY <1>4, <1>5, <1>6, <1>7 DEF GridInv

LEMMA WholeStarts ==
  ASSUME BaseInv, GridInv, UNCHANGED open, RolesPart \/ DeletionsPart
  PROVE  GridInv'
<1>1. CASE ~Importing /\ \E w \in Tasks : Starting(w)
  BY <1>1, WholeGives, WholeSaves, WholeAsks DEF Starting
<1>2. CASE Deploy \/ Minute
  BY <1>2, WholeSame DEF Deploy, Minute
<1>. QED
  BY <1>1, <1>2 DEF RolesPart, DeletionsPart, Starting, Tasks

LEMMA WholeSetup ==
  ASSUME BaseInv, GridInv, UNCHANGED open, SetupPart
  PROVE  GridInv'
<1>1. ASSUME NEW w \in Tasks, SaveSettings(w) \/ KeepLookup(w) \/ AddRow(w) \/ EditRule(w)
      PROVE  GridInv'
  <2>1. UNCHANGED <<role, grid, task, halfway>>
    BY <1>1 DEF SaveSettings, KeepLookup, AddRow, EditRule, Elsewhere, GridsRest
  <2>. QED
    BY <2>1, WholeSame
<1>2. CASE \E w \in Tasks : (~Importing /\ (ColdStart(w) \/ TakeNumber(w))) \/ Import(w)
  BY <1>2, WholeFillStarts
<1>3. CASE \E w \in Tasks : FillingSteps(w)
  BY <1>3, WholeFills
<1>. QED
  BY <1>1, <1>2, <1>3 DEF SetupPart, Tasks

LEMMA WholeNext ==
  ASSUME BaseInv, GridInv, [Next]_platformVars
  PROVE  GridInv'
<1>1. CASE Next
  <2>1. UNCHANGED open
    BY <1>1 DEF Next
  <2>2. CASE AccountsPart
    <3>1. UNCHANGED <<role, grid, task, halfway>>
      BY <2>2 DEF AccountsPart, gridVars
    <3>. QED
      BY <3>1, WholeSame
  <2>3. CASE \E w \in Desks : LoseRole(w)
    BY <2>1, <2>3, WholeSteps DEF LoseRole, Tasks
  <2>4. CASE \E w \in Desks \cup Scripts : StepOf(w)
    BY <2>1, <2>4, WholeSteps DEF Tasks
  <2>. QED
    BY <1>1, <2>1, <2>2, <2>3, <2>4, WholeStarts, WholeSetup DEF Next
<1>2. CASE UNCHANGED platformVars
  <2>1. UNCHANGED <<role, grid, task, halfway>>
    BY <1>2 DEF platformVars, setupVars, gridVars
  <2>. QED
    BY <2>1, WholeSame
<1>. QED
  BY <1>1, <1>2

LEMMA WholeInit == Init => GridInv
<1>. SUFFICES ASSUME Init PROVE GridInv
  OBVIOUS
<1>1. task = [w \in Tasks |-> Free]
  BY DEF Init, GridsInit, Tasks
<1>2. \A w \in Tasks : Todo(w) = <<>>
  BY <1>1, FreeIs DEF Todo
<1>3. \A w \in Tasks : Steps(Todo(w)) = {} /\ DOMAIN Todo(w) = {} /\ ~ImportList(Todo(w))
  BY <1>2, NoSteps, Kinds
<1>4. MeetInv /\ FirstInv /\ AloneInv
  BY <1>3 DEF MeetInv, About, FirstInv, RowsFirst, AloneInv
<1>5. GivenInv
  BY DEF Init, GridsInit, GivenInv, Given
<1>6. WholeInv
  <2>. SUFFICES ASSUME NEW r \in RoleIds PROVE Coming(r, grid[r], role[r], {})
    BY <1>3 DEF WholeInv, Pending, RowsOf
  <2>1. CASE role[r] = Nothing
    <3>1. grid[r] = Blank
      BY <2>1 DEF Init, GridsInit
    <3>. QED
      BY <3>1 DEF Coming, Bare, Blank, Shown
  <2>2. CASE role[r] # Nothing
    <3>. PICK g : g = LegacyOf(role[r])
      OBVIOUS
    <3>1. grid[r] = g
      BY <2>2 DEF Init, GridsInit
    <3>2. role[r] \in Given(r)
      BY <1>5, <2>2 DEF GivenInv
    <3>3. g \in Meant(r) /\ \A m \in Modules : g[m] # Nothing
      BY <3>2, MeantIs
    <3>4. Completes(r, grid[r], {})
      BY <3>1, <3>3 DEF Completes, Shown
    <3>. QED
      BY <3>4 DEF Coming
  <2>. QED
    BY <2>1, <2>2
<1>. QED
  BY <1>4, <1>5, <1>6 DEF GridInv

LEMMA WholeIs ==
  ASSUME BaseInv, GridInv
  PROVE  GridWhole
<1>. SUFFICES ASSUME NEW r \in RoleIds \ halfway, \A w \in DOMAIN task : r \notin WritesGrid(w)
              PROVE  \/ View(r) = [m \in Shown |-> NoGrant]
                     \/ \E g \in Meant(r) : View(r) = [m \in Shown |-> g[m]]
  BY DEF GridWhole
<1>1. \A w \in Tasks : RowsOf(r, Todo(w)) = {}
  BY WritesIs, RowAbout DEF BaseInv, TaskInv, TaskForm
<1>2. Pending(r) = {}
  BY <1>1 DEF Pending
<1>3. Coming(r, grid[r], role[r], {})
  BY <1>2 DEF GridInv, WholeInv
<1>4. CASE Bare(grid[r])
  BY <1>4 DEF Bare, View
<1>5. CASE Completes(r, grid[r], {})
  <2>1. PICK g \in Meant(r) : \A m \in Shown : g[m] # Nothing /\ grid[r][m] = g[m]
    BY <1>5 DEF Completes
  <2>2. View(r) = [m \in Shown |-> g[m]]
    BY <2>1 DEF View
  <2>. QED
    BY <2>2
<1>. QED
  BY <1>3, <1>4, <1>5 DEF Coming

\* A role's grid is one somebody meant it to have, or none: rows of two are not mixed
\* by whoever saves, resets, migrates, seeds or imports grids row by row, unless two of
\* them met on the role or one left it half written (rbac/service.js:340, 486;
\* seedRoleRedefinition.js:64).
THEOREM GridsStayWhole == Spec => []GridWhole
<1>1. BaseInv /\ GridInv /\ [Next]_platformVars => GridInv'
  BY WholeNext
<1>2. BaseInv /\ GridInv => GridWhole
  BY WholeIs
<1>. QED
  BY BaseHolds, WholeInit, <1>1, <1>2, PTL DEF Spec
=============================================================================
