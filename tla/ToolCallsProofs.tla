----------------------------- MODULE ToolCallsProofs -----------------------------
(***************************************************************************)
(* Proofs about the tools (MCToolCalls).                                   *)
(*                                                                         *)
(* Of the multi-step tools (MultiStepTools), for every tool and every      *)
(* choice of its optional arguments, any number of items, polls and calls. *)
(* What a call may tell depends on the plan of its tool: that it sends     *)
(* each mutation once, after its preview, with the arguments the preview   *)
(* shows.  Lemmas on how plans are put together give this of each tool     *)
(* (PlanGood); the invariant of a call (CallInv) then needs no tool by     *)
(* name.                                                                   *)
(*                                                                         *)
(* Of the reports (Reports, R), for any stores, records and values, pages  *)
(* of any size and any number of changes meanwhile.  The invariant         *)
(* (ReportInv) says that what a store was read of so far has no gap:       *)
(* whatever stands before its cursor was read or belongs to a product of   *)
(* which more is to be read.                                               *)
(***************************************************************************)
EXTENDS MCToolCalls, SequenceTheorems, FiniteSetTheorems, TLAPS

-----------------------------------------------------------------------------
(* Plans.                                                                     *)

Mutating == {"write", "create", "item"}
Quiet    == {"check", "preview", "read", "confirm", "post", "poll"}

Sequence(s) == \E S : s \in Seq(S)

\* Only redirects are sent several times.
Numbered(x) ==
    /\ x.do \in {"write", "create"} => x.n = 0
    /\ x.do = "item" => x.n \in 1..Several

\* The mutations of s are different ones.
Unique(s) ==
    \A i, j \in DOMAIN s :
      s[i].do \in Mutating /\ s[j].do \in Mutating /\ s[i].op = s[j].op /\ s[i].n = s[j].n => i = j

\* The steps of s do what dos names, send the mutations that ops names, each
\* once, and carry the arguments a.
Facts(s, dos, ops, a) ==
    /\ Sequence(s) /\ Unique(s)
    /\ \A i \in DOMAIN s : Numbered(s[i]) /\ s[i].do \in dos /\ s[i].with \subseteq a
    /\ \A i \in DOMAIN s : s[i].do \in Mutating => s[i].op \in ops
    /\ \A x \in a : \E i \in DOMAIN s : s[i].do \in Mutating /\ x \in s[i].with

\* A preview comes before every mutation and every reading of a file.
Previewed(s) ==
    /\ \E i \in DOMAIN s : s[i].do = "preview"
    /\ \A i \in DOMAIN s :
         s[i].do \in Mutating \cup {"poll"} =>
           \E j \in DOMAIN s : j < i /\ s[j].do = "preview"

Planned(s, dos, ops, a) == Facts(s, dos, ops, a) /\ Previewed(s)

\* The readings of a file come last, and so do redirects.
PollsLast(s) == \A i, j \in DOMAIN s : s[i].do = "poll" /\ s[j].do \in Mutating => j < i
ItemsLast(s) == \A i, j \in DOMAIN s : s[i].do = "item" /\ i < j => s[j].do = "item"

Redirect == {"urlRedirectCreate", "urlRedirectDelete"}

\* A plan previews first, reads its file last, sends no redirect among other
\* mutations, changes an inventory only by a tool that does nothing else, and
\* sends what the preview shows.
GoodPlan(tool, g) ==
    LET s == Plan(tool, g)
    IN  /\ Sequence(s) /\ Unique(s) /\ Previewed(s) /\ PollsLast(s) /\ ItemsLast(s)
        /\ \A i \in DOMAIN s :
             /\ Numbered(s[i])
             /\ s[i].do = "item" => s[i].op \in Redirect
             /\ s[i].do \in {"write", "create"} => s[i].op \notin Redirect
             /\ s[i].do \in Mutating /\ s[i].op = "inventorySetQuantities" =>
                  s[i].do = "write" /\ tool = "set_inventory"
             /\ tool = "set_inventory" /\ s[i].do \in Mutating => s[i].op = "inventorySetQuantities"
             /\ s[i].with \subseteq Shown(tool, g) \cup {"tracking"}
        /\ \A x \in Shown(tool, g) :
             \E i \in DOMAIN s : s[i].do \in Mutating /\ x \in s[i].with

\* One step.
LEMMA Alone ==
    ASSUME NEW x
    PROVE  Sequence(<<x>>) /\ Unique(<<x>>) /\ DOMAIN <<x>> = {1} /\ <<x>>[1] = x
  <1>1. <<x>> \in Seq({x}) /\ DOMAIN <<x>> = {1} /\ <<x>>[1] = x
    OBVIOUS
  <1> QED BY <1>1 DEF Unique, Sequence

\* A plan of a single mutation.
LEMMA OneMutation ==
    ASSUME NEW do \in {"write", "create"}, NEW op, NEW w
    PROVE  Facts(<<Step(do, op, 0, w)>>, {do}, {op}, w)
  <1> DEFINE x == Step(do, op, 0, w)
  <1>1. Numbered(x) /\ x.do = do /\ x.op = op /\ x.with = w /\ do \in Mutating
    BY DEF Step, Numbered, Mutating, Quiet
  <1>2. PICK y : y = x
    OBVIOUS
  <1>3. Facts(<<y>>, {do}, {op}, w)
    BY <1>1, <1>2, Alone DEF Facts
  <1> QED BY <1>2, <1>3

\* A plan of a single step that changes nothing.
LEMMA OneQuiet ==
    ASSUME NEW do \in Quiet, NEW op
    PROVE  Facts(<<Step(do, op, 0, {})>>, {do}, {}, {})
  <1> DEFINE x == Step(do, op, 0, {})
  <1>1. Numbered(x) /\ x.do = do /\ x.with = {} /\ do \notin Mutating
    BY DEF Step, Numbered, Mutating, Quiet
  <1>2. PICK y : y = x
    OBVIOUS
  <1>3. Facts(<<y>>, {do}, {}, {})
    BY <1>1, <1>2, Alone DEF Facts
  <1> QED BY <1>2, <1>3

\* Several steps that differ in their number.
LEMMA TimesFacts ==
    ASSUME NEW n \in Nat, NEW do \in {"item", "confirm", "poll"}, NEW op,
           NEW w, do = "item" => n = Several /\ n # 0, do # "item" => w = {}
    PROVE  Facts(Times(n, do, op, w), {do}, IF do = "item" THEN {op} ELSE {}, w)
  <1> DEFINE s == Times(n, do, op, w)
  <1>1. \A i \in 1..n : /\ Numbered(Step(do, op, i, w))
                        /\ Step(do, op, i, w).do = do /\ Step(do, op, i, w).op = op
                        /\ Step(do, op, i, w).n = i /\ Step(do, op, i, w).with = w
    BY DEF Step, Numbered, Mutating, Quiet
  <1>2. DOMAIN s = 1..n /\ \A i \in 1..n : s[i] = Step(do, op, i, w)
    BY DEF Times
  <1>3. PICK T : T = {Step(do, op, i, w) : i \in 1..n}
    OBVIOUS
  <1>4. s \in Seq(T)
    <2>1. s \in [1..n -> T]
      BY <1>3 DEF Times
    <2>2. PICK u : u = s
      OBVIOUS
    <2>3. u \in Seq(T)
      BY <2>1, <2>2
    <2> QED BY <2>2, <2>3
  <1>5. \A i \in DOMAIN s : Numbered(s[i]) /\ s[i].do = do /\ s[i].op = op /\ s[i].n = i /\ s[i].with = w
    BY <1>1, <1>2
  <1>6. do \in Mutating <=> do = "item"
    BY DEF Mutating
  <1>7. \A x \in w : \E i \in DOMAIN s : s[i].do \in Mutating /\ x \in s[i].with
    <2> SUFFICES ASSUME NEW x \in w
                 PROVE  \E i \in DOMAIN s : s[i].do \in Mutating /\ x \in s[i].with
      OBVIOUS
    <2>1. do = "item" /\ 1 \in DOMAIN s
      BY <1>2
    <2> QED BY <2>1, <1>5, <1>6
  <1> HIDE DEF s
  <1>8. Unique(s) /\ Sequence(s)
    BY <1>4, <1>5 DEF Unique, Sequence
  <1>9. Facts(s, {do}, IF do = "item" THEN {op} ELSE {}, w)
    BY <1>4, <1>5, <1>6, <1>7, <1>8 DEF Facts
  <1> QED BY <1>9 DEF s

\* The empty plan.
LEMMA NoFacts == Facts(<<>>, {}, {}, {})
  <1>1. <<>> \in Seq({}) /\ DOMAIN <<>> = {}
    OBVIOUS
  <1> QED BY <1>1 DEF Facts, Unique, Sequence

\* A part of a plan that depends on the arguments.
LEMMA WhenFacts ==
    ASSUME NEW c \in BOOLEAN, NEW s, NEW dos, NEW ops, NEW a, Facts(s, dos, ops, a)
    PROVE  Facts(When(c, s), dos, ops, IF c THEN a ELSE {})
  <1>1. CASE c
    BY <1>1 DEF When
  <1>2. CASE ~c
    <2>1. When(c, s) = <<>> /\ (IF c THEN a ELSE {}) = {}
      BY <1>2 DEF When
    <2>2. Facts(<<>>, dos, ops, {})
      BY NoFacts DEF Facts
    <2> QED BY <2>1, <2>2
  <1> QED BY <1>1, <1>2

\* Where the steps of s \o t come from.
LEMMA Joined ==
    ASSUME NEW s, Sequence(s), NEW t, Sequence(t)
    PROVE  /\ Sequence(s \o t)
           /\ \A i \in DOMAIN s : i \in DOMAIN (s \o t) /\ (s \o t)[i] = s[i]
           /\ \A i \in DOMAIN t : Len(s) + i \in DOMAIN (s \o t) /\ (s \o t)[Len(s) + i] = t[i]
           /\ \A i \in DOMAIN (s \o t) :
                i \notin DOMAIN s =>
                  i > Len(s) /\ i - Len(s) \in DOMAIN t /\ (s \o t)[i] = t[i - Len(s)]
           /\ Len(s) \in Nat /\ DOMAIN s = 1..Len(s) /\ DOMAIN t \subseteq Nat \ {0}
           /\ DOMAIN (s \o t) \subseteq Nat
  <1>0. PICK S, T : s \in Seq(S) /\ t \in Seq(T)
    BY DEF Sequence
  <1> DEFINE U == S \cup T
  <1>1. s \in Seq(U) /\ t \in Seq(U)
    BY <1>0, SeqMonotonic
  <1>2. /\ s \o t \in Seq(U) /\ Len(s \o t) = Len(s) + Len(t)
        /\ \A i \in 1..(Len(s) + Len(t)) : (s \o t)[i] = IF i <= Len(s) THEN s[i] ELSE t[i - Len(s)]
    BY <1>1, ConcatProperties
  <1>3. /\ Len(s) \in Nat /\ Len(t) \in Nat /\ DOMAIN s = 1..Len(s) /\ DOMAIN t = 1..Len(t)
        /\ DOMAIN (s \o t) = 1..Len(s \o t)
    BY <1>1, <1>2, LenProperties
  <1>4. Sequence(s \o t)
    BY <1>2 DEF Sequence
  <1> QED BY <1>2, <1>3, <1>4

\* One plan after another, when they share no mutation.
LEMMA JoinFacts ==
    ASSUME NEW s, NEW d, NEW o, NEW a, Facts(s, d, o, a),
           NEW t, NEW e, NEW p, NEW b, Facts(t, e, p, b), o \cap p = {}
    PROVE  Facts(s \o t, d \cup e, o \cup p, a \cup b)
  <1> DEFINE u == s \o t
  <1>1. /\ Sequence(u)
        /\ \A i \in DOMAIN s : i \in DOMAIN u /\ u[i] = s[i]
        /\ \A i \in DOMAIN t : Len(s) + i \in DOMAIN u /\ u[Len(s) + i] = t[i]
        /\ \A i \in DOMAIN u :
             i \notin DOMAIN s => i > Len(s) /\ i - Len(s) \in DOMAIN t /\ u[i] = t[i - Len(s)]
        /\ Len(s) \in Nat /\ DOMAIN s = 1..Len(s) /\ DOMAIN t \subseteq Nat \ {0}
        /\ DOMAIN u \subseteq Nat
    BY Joined DEF Facts
  <1> HIDE DEF u
  <1>3. Unique(u)
    <2> SUFFICES ASSUME NEW i \in DOMAIN u, NEW j \in DOMAIN u, u[i].do \in Mutating,
                        u[j].do \in Mutating, u[i].op = u[j].op, u[i].n = u[j].n
                 PROVE  i = j
      BY DEF Unique
    <2>1. CASE i \in DOMAIN s /\ j \in DOMAIN s
      BY <2>1, <1>1 DEF Facts, Unique
    <2>2. CASE i \notin DOMAIN s /\ j \notin DOMAIN s
      <3>1. PICK k \in DOMAIN t, l \in DOMAIN t : k = i - Len(s) /\ l = j - Len(s)
        BY <2>2, <1>1
      <3>2. u[i] = t[k] /\ u[j] = t[l]
        BY <2>2, <3>1, <1>1
      <3>3. k = l
        BY <3>2 DEF Facts, Unique
      <3> QED BY <3>1, <3>3, <1>1
    <2>3. CASE i \in DOMAIN s /\ j \notin DOMAIN s
      BY <2>3, <1>1 DEF Facts
    <2>4. CASE i \notin DOMAIN s /\ j \in DOMAIN s
      BY <2>4, <1>1 DEF Facts
    <2> QED BY <2>1, <2>2, <2>3, <2>4
  <1>4. \A i \in DOMAIN u : /\ Numbered(u[i]) /\ u[i].do \in d \cup e /\ u[i].with \subseteq a \cup b
                            /\ u[i].do \in Mutating => u[i].op \in o \cup p
    <2> SUFFICES ASSUME NEW i \in DOMAIN u
                 PROVE  /\ Numbered(u[i]) /\ u[i].do \in d \cup e /\ u[i].with \subseteq a \cup b
                        /\ u[i].do \in Mutating => u[i].op \in o \cup p
      OBVIOUS
    <2>1. CASE i \in DOMAIN s
      BY <2>1, <1>1 DEF Facts
    <2>2. CASE i \notin DOMAIN s
      BY <2>2, <1>1 DEF Facts
    <2> QED BY <2>1, <2>2
  <1>5. \A x \in a \cup b : \E i \in DOMAIN u : u[i].do \in Mutating /\ x \in u[i].with
    BY <1>1 DEF Facts
  <1>7. Facts(u, d \cup e, o \cup p, a \cup b)
    BY <1>1, <1>3, <1>4, <1>5 DEF Facts
  <1> QED BY <1>7 DEF u

\* A preview after steps that change nothing.
LEMMA PreviewAfter ==
    ASSUME NEW s, NEW d, Facts(s, d, {}, {}), "poll" \notin d
    PROVE  Planned(s \o Preview, d \cup {"preview"}, {}, {})
  <1> DEFINE u == s \o Preview
  <1>1. Facts(Preview, {"preview"}, {}, {})
    BY OneQuiet DEF Preview, Quiet
  <1>2. Facts(u, d \cup {"preview"}, {}, {})
    <2>1. Facts(u, d \cup {"preview"}, {} \cup {}, {} \cup {})
      BY <1>1, JoinFacts, {} \cap {} = {}
    <2>2. {} \cup {} = {}
      OBVIOUS
    <2> QED BY <2>1, <2>2
  <1>3. \E i \in DOMAIN u : u[i].do = "preview"
    <2>1. Sequence(s) /\ Sequence(Preview)
      BY <1>1 DEF Facts
    <2>2. 1 \in DOMAIN Preview /\ Preview[1].do = "preview"
      BY DEF Preview, Step
    <2>3. PICK p : p = Preview
      OBVIOUS
    <2>4. Len(s) + 1 \in DOMAIN (s \o p) /\ (s \o p)[Len(s) + 1] = p[1]
      <3>1. Sequence(p) /\ 1 \in DOMAIN p
        BY <2>1, <2>2, <2>3
      <3>2. \A i \in DOMAIN p : Len(s) + i \in DOMAIN (s \o p) /\ (s \o p)[Len(s) + i] = p[i]
        BY <2>1, <3>1, Joined
      <3> QED BY <3>1, <3>2
    <2> QED BY <2>2, <2>3, <2>4
  <1> HIDE DEF u
  <1>4. Planned(u, d \cup {"preview"}, {}, {})
    BY <1>2, <1>3 DEF Planned, Previewed, Facts
  <1> QED BY <1>4 DEF u

\* A plan with its preview, and more after it.
LEMMA Then ==
    ASSUME NEW s, NEW d, NEW o, NEW a, Planned(s, d, o, a),
           NEW t, NEW e, NEW p, NEW b, Facts(t, e, p, b), o \cap p = {}
    PROVE  Planned(s \o t, d \cup e, o \cup p, a \cup b)
  <1> DEFINE u == s \o t
  <1>1. Sequence(s) /\ Sequence(t)
    BY DEF Facts, Planned
  <1>2. /\ \A i \in DOMAIN s : i \in DOMAIN u /\ u[i] = s[i]
        /\ \A i \in DOMAIN u : i \notin DOMAIN s => i > Len(s)
        /\ Len(s) \in Nat /\ DOMAIN s = 1..Len(s) /\ DOMAIN u \subseteq Nat
    BY <1>1, Joined
  <1>3. Facts(u, d \cup e, o \cup p, a \cup b)
    BY JoinFacts DEF Planned
  <1> HIDE DEF u
  <1>4. Previewed(u)
    <2>1. PICK k \in DOMAIN s : s[k].do = "preview"
      BY DEF Planned, Previewed
    <2>2. \A i \in DOMAIN u : i \notin DOMAIN s => k < i
      BY <1>2
    <2>3. \A i \in DOMAIN u :
            u[i].do \in Mutating \cup {"poll"} => \E j \in DOMAIN u : j < i /\ u[j].do = "preview"
      <3> SUFFICES ASSUME NEW i \in DOMAIN u, u[i].do \in Mutating \cup {"poll"}
                   PROVE  \E j \in DOMAIN u : j < i /\ u[j].do = "preview"
        OBVIOUS
      <3>1. CASE i \in DOMAIN s
        BY <3>1, <1>2 DEF Planned, Previewed
      <3>2. CASE i \notin DOMAIN s
        BY <3>2, <2>1, <2>2, <1>2
      <3> QED BY <3>1, <3>2
    <2> QED BY <2>1, <2>3, <1>2 DEF Previewed
  <1>5. Planned(u, d \cup e, o \cup p, a \cup b)
    BY <1>3, <1>4 DEF Planned
  <1> QED BY <1>5 DEF u

\* The same steps, said with larger sets.
LEMMA Weaker ==
    ASSUME NEW s, NEW d, NEW o, NEW a, NEW e, NEW p, NEW b, d \subseteq e, o \subseteq p, a = b
    PROVE  /\ Facts(s, d, o, a) => Facts(s, e, p, b)
           /\ Planned(s, d, o, a) => Planned(s, e, p, b)
  BY DEF Facts, Planned

\* The steps of the plans.
LEMMA QuietSteps ==
    /\ Facts(Check, {"check"}, {}, {}) /\ Facts(Scopes, {"read"}, {}, {})
    /\ \A op : Facts(Read(op), {"read"}, {}, {})
  BY OneQuiet DEF Check, Scopes, Read, Quiet

\* Quiet steps before the preview, and before the next quiet step.
LEMMA QuietThen ==
    ASSUME NEW s, NEW d, Facts(s, d, {}, {}), NEW t, NEW e, Facts(t, e, {}, {})
    PROVE  Facts(s \o t, d \cup e, {}, {})
  <1>1. Facts(s \o t, d \cup e, {} \cup {}, {} \cup {})
    BY JoinFacts, {} \cap {} = {}
  <1>2. {} \cup {} = {}
    OBVIOUS
  <1> QED BY <1>1, <1>2

\* Quiet steps that are taken under a condition stay quiet.
LEMMA QuietWhen ==
    ASSUME NEW c \in BOOLEAN, NEW s, NEW d, Facts(s, d, {}, {})
    PROVE  Facts(When(c, s), d, {}, {})
  <1>1. Facts(When(c, s), d, {}, IF c THEN {} ELSE {})
    BY WhenFacts
  <1>2. (IF c THEN {} ELSE {}) = {}
    OBVIOUS
  <1> QED BY <1>1, <1>2

\* A write after the preview, and a read.
LEMMA ThenWrite ==
    ASSUME NEW s, NEW d, NEW o, NEW a, Planned(s, d, o, a), NEW c \in BOOLEAN,
           NEW op, op \notin o, NEW w
    PROVE  /\ Planned(s \o When(c, Write(op, w)), d \cup {"write"}, o \cup {op},
                      a \cup (IF c THEN w ELSE {}))
           /\ Planned(s \o Write(op, w), d \cup {"write"}, o \cup {op}, a \cup w)
           /\ Planned(s \o Create(op, w), d \cup {"create"}, o \cup {op}, a \cup w)
  <1>1. Facts(Write(op, w), {"write"}, {op}, w) /\ Facts(Create(op, w), {"create"}, {op}, w)
    BY OneMutation DEF Write, Create
  <1>2. Facts(When(c, Write(op, w)), {"write"}, {op}, IF c THEN w ELSE {})
    BY <1>1, WhenFacts
  <1>3. o \cap {op} = {}
    OBVIOUS
  <1>4. Planned(s \o When(c, Write(op, w)), d \cup {"write"}, o \cup {op},
                a \cup (IF c THEN w ELSE {}))
    BY <1>2, <1>3, Then
  <1>5. Planned(s \o Write(op, w), d \cup {"write"}, o \cup {op}, a \cup w)
    BY <1>1, <1>3, Then
  <1>6. Planned(s \o Create(op, w), d \cup {"create"}, o \cup {op}, a \cup w)
    BY <1>1, <1>3, Then
  <1> QED BY <1>4, <1>5, <1>6

\* A planned tool that ends with a read.
LEMMA ThenRead ==
    ASSUME NEW s, NEW d, NEW o, NEW a, Planned(s, d, o, a), NEW op
    PROVE  Planned(s \o Read(op), d \cup {"read"}, o, a)
  <1>1. Facts(Read(op), {"read"}, {}, {})
    BY QuietSteps
  <1>2. Planned(s \o Read(op), d \cup {"read"}, o \cup {}, a \cup {})
    BY <1>1, Then, o \cap {} = {}
  <1>3. o \cup {} = o /\ a \cup {} = a
    OBVIOUS
  <1> QED BY <1>2, <1>3


-----------------------------------------------------------------------------
(* The plan of each tool.                                                     *)

\* The steps of the tools that read no file and make no redirects.
Plain == {"check", "preview", "read", "confirm", "post", "write", "create"}

\* The tag changes of a tool: one write for the tags added, one for those removed.
LEMMA TagChangesFacts ==
    ASSUME NEW g
    PROVE  Facts(TagChanges(g), {"write"}, {"tagsAdd", "tagsRemove"},
                 g \cap {"addTags", "removeTags"})
  <1> DEFINE c == "addTags" \in g
             r == "removeTags" \in g
             s == When(c, Write("tagsAdd", {"addTags"}))
             t == When(r, Write("tagsRemove", {"removeTags"}))
  <1>1. /\ Facts(Write("tagsAdd", {"addTags"}), {"write"}, {"tagsAdd"}, {"addTags"})
        /\ Facts(Write("tagsRemove", {"removeTags"}), {"write"}, {"tagsRemove"}, {"removeTags"})
    BY OneMutation DEF Write
  <1>2. c \in BOOLEAN /\ r \in BOOLEAN
    OBVIOUS
  <1>3. Facts(s, {"write"}, {"tagsAdd"}, IF c THEN {"addTags"} ELSE {})
    BY <1>1, <1>2, WhenFacts
  <1>4. Facts(t, {"write"}, {"tagsRemove"}, IF r THEN {"removeTags"} ELSE {})
    BY <1>1, <1>2, WhenFacts
  <1>5. {"tagsAdd"} \cap {"tagsRemove"} = {}
    OBVIOUS
  <1>6. Facts(s \o t, {"write"} \cup {"write"}, {"tagsAdd"} \cup {"tagsRemove"},
              (IF c THEN {"addTags"} ELSE {}) \cup (IF r THEN {"removeTags"} ELSE {}))
    BY <1>3, <1>4, <1>5, JoinFacts
  <1>7. (IF c THEN {"addTags"} ELSE {}) \cup (IF r THEN {"removeTags"} ELSE {})
          = g \cap {"addTags", "removeTags"}
    OBVIOUS
  <1>8. /\ {"write"} \cup {"write"} \subseteq {"write"}
        /\ {"tagsAdd"} \cup {"tagsRemove"} \subseteq {"tagsAdd", "tagsRemove"}
    OBVIOUS
  <1>9. TagChanges(g) = s \o t
    BY DEF TagChanges
  <1> HIDE DEF s, t, c, r
  <1> QED BY <1>6, <1>7, <1>8, <1>9, Weaker

\* The publication of what a tool made or changed.
LEMMA PublishFacts ==
    ASSUME NEW g
    PROVE  Facts(Publish(g), {"write", "confirm"}, {"publishablePublish"},
                 g \cap {"publicationIds"})
  <1> DEFINE c == "publicationIds" \in g
             s == Write("publishablePublish", {"publicationIds"})
             t == Times(Several, "confirm", "publishedOnPublication", {})
  <1>1. Facts(s, {"write"}, {"publishablePublish"}, {"publicationIds"})
    BY OneMutation DEF Write
  <1>2. Facts(t, {"confirm"}, {}, {})
    <2>1. Several \in Nat
      BY MultiStepToolsAssumption
    <2>2. Facts(t, {"confirm"}, IF "confirm" = "item" THEN {"publishedOnPublication"} ELSE {}, {})
      BY <2>1, TimesFacts
    <2>3. (IF "confirm" = "item" THEN {"publishedOnPublication"} ELSE {}) = {}
      OBVIOUS
    <2> QED BY <2>2, <2>3
  <1>3. {"publishablePublish"} \cap {} = {}
    OBVIOUS
  <1>4. Facts(s \o t, {"write"} \cup {"confirm"}, {"publishablePublish"} \cup {},
              {"publicationIds"} \cup {})
    BY <1>1, <1>2, <1>3, JoinFacts
  <1>5. Facts(When(c, s \o t), {"write"} \cup {"confirm"}, {"publishablePublish"} \cup {},
              IF c THEN {"publicationIds"} \cup {} ELSE {})
    BY <1>4, WhenFacts, c \in BOOLEAN
  <1>6. (IF c THEN {"publicationIds"} \cup {} ELSE {}) = g \cap {"publicationIds"}
    OBVIOUS
  <1>7. /\ {"write"} \cup {"confirm"} \subseteq {"write", "confirm"}
        /\ {"publishablePublish"} \cup {} \subseteq {"publishablePublish"}
    OBVIOUS
  <1>8. Publish(g) = When(c, s \o t)
    BY DEF Publish
  <1> HIDE DEF s, t, c
  <1> QED BY <1>5, <1>6, <1>7, <1>8, Weaker

\* The plan of create_product is good.
LEMMA CreateProductPlan ==
    ASSUME NEW g \in SUBSET Optional["create_product"]
    PROVE  Planned(CreateProduct(g), Plain, {"productCreate", "productVariantsBulkCreate", "collectionAddProducts"},
                   {"fields"} \cup Used(g))
  <1> DEFINE c  == "collectionId" \in g
             v  == ~Neither(g, {"price", "variants"})
             a  == {"fields"} \cup (Used(g) \cap {"images", "options"})
             b  == g \cap {"price", "variants"}
             p1 == Scopes
             p2 == p1 \o Check
             p3 == p2 \o When(c, Read("collection"))
             p4 == p3 \o Preview
             p5 == p4 \o Create("productCreate", a)
             p6 == p5 \o When(v, Write("productVariantsBulkCreate", b))
             p7 == p6 \o When(c, Write("collectionAddProducts", {"collectionId"}))
             p8 == p7 \o Read("product")
  <1>1. c \in BOOLEAN /\ v \in BOOLEAN
    BY DEF Optional, Neither
  <1>2. Facts(p1, {"read"}, {}, {})
    BY QuietSteps
  <1>3. Facts(p2, {"read"} \cup {"check"}, {}, {})
    BY <1>2, QuietSteps, QuietThen
  <1>4. Facts(p3, ({"read"} \cup {"check"}) \cup {"read"}, {}, {})
    BY <1>1, <1>3, QuietSteps, QuietWhen, QuietThen
  <1>5. PICK d : d = (({"read"} \cup {"check"}) \cup {"read"}) \cup {"preview"}
    OBVIOUS
  <1>6. Planned(p4, d, {}, {})
    BY <1>4, <1>5, PreviewAfter
  <1>7. Planned(p5, d \cup {"create"},
                {} \cup {"productCreate"},
                {} \cup a)
    BY <1>1, <1>6, ThenWrite
  <1>8. Planned(p6, d \cup {"create"} \cup {"write"},
                {} \cup {"productCreate"} \cup {"productVariantsBulkCreate"},
                {} \cup a \cup (IF v THEN b ELSE {}))
    BY <1>1, <1>7, ThenWrite
  <1>9. Planned(p7, d \cup {"create"} \cup {"write"} \cup {"write"},
                {} \cup {"productCreate"} \cup {"productVariantsBulkCreate"} \cup {"collectionAddProducts"},
                {} \cup a \cup (IF v THEN b ELSE {}) \cup (IF c THEN {"collectionId"} ELSE {}))
    BY <1>1, <1>8, ThenWrite
  <1>10. Planned(p8, d \cup {"create"} \cup {"write"} \cup {"write"} \cup {"read"},
                {} \cup {"productCreate"} \cup {"productVariantsBulkCreate"} \cup {"collectionAddProducts"},
                {} \cup a \cup (IF v THEN b ELSE {}) \cup (IF c THEN {"collectionId"} ELSE {}))
    BY <1>9, ThenRead
  <1>11. {} \cup a \cup (IF v THEN b ELSE {}) \cup (IF c THEN {"collectionId"} ELSE {}) = {"fields"} \cup Used(g)
    BY <1>1 DEF Optional, Neither, Used
  <1>12. d \cup {"create"} \cup {"write"} \cup {"write"} \cup {"read"} \subseteq Plain
    BY <1>5 DEF Plain
  <1>13. {} \cup {"productCreate"} \cup {"productVariantsBulkCreate"} \cup {"collectionAddProducts"} \subseteq {"productCreate", "productVariantsBulkCreate", "collectionAddProducts"}
    OBVIOUS
  <1>14. CreateProduct(g) = p8
    BY DEF CreateProduct
  <1> HIDE DEF p8, c, v, a, b
  <1> QED BY <1>10, <1>11, <1>12, <1>13, <1>14, Weaker

\* The plan of update_product is good.
LEMMA UpdateProductPlan ==
    ASSUME NEW g \in SUBSET Optional["update_product"]
    PROVE  Planned(UpdateProduct(g), Plain, {"productUpdate", "tagsAdd", "tagsRemove", "productVariantsBulkUpdate", "productDeleteMedia"},
                   g)
  <1> DEFINE f  == ~Neither(g, {"fields", "replaceTags", "images"})
             v  == "variants" \in g
             m  == "removeMediaIds" \in g
             a  == g \cap {"fields", "replaceTags", "images"}
             p1 == Check
             p2 == p1 \o Scopes
             p3 == p2 \o Read("product")
             p4 == p3 \o Preview
             p5 == p4 \o When(f, Write("productUpdate", a))
             p6 == p5 \o TagChanges(g)
             p7 == p6 \o When(v, Write("productVariantsBulkUpdate", {"variants"}))
             p8 == p7 \o When(m, Write("productDeleteMedia", {"removeMediaIds"}))
             p9 == p8 \o Read("product")
  <1>1. f \in BOOLEAN /\ v \in BOOLEAN /\ m \in BOOLEAN
    BY DEF Optional, Neither
  <1>2. Facts(p1, {"check"}, {}, {})
    BY QuietSteps
  <1>3. Facts(p2, {"check"} \cup {"read"}, {}, {})
    BY <1>2, QuietSteps, QuietThen
  <1>4. Facts(p3, ({"check"} \cup {"read"}) \cup {"read"}, {}, {})
    BY <1>3, QuietSteps, QuietThen
  <1>5. PICK d : d = (({"check"} \cup {"read"}) \cup {"read"}) \cup {"preview"}
    OBVIOUS
  <1>6. Planned(p4, d, {}, {})
    BY <1>4, <1>5, PreviewAfter
  <1>7. Planned(p5, d \cup {"write"},
                {} \cup {"productUpdate"},
                {} \cup (IF f THEN a ELSE {}))
    BY <1>1, <1>6, ThenWrite
  <1>8. Facts(TagChanges(g), {"write"}, {"tagsAdd", "tagsRemove"}, (g \cap {"addTags", "removeTags"}))
    BY TagChangesFacts
  <1>9. ({} \cup {"productUpdate"}) \cap {"tagsAdd", "tagsRemove"} = {}
    BY <1>1
  <1>10. Planned(p6, d \cup {"write"} \cup {"write"},
                {} \cup {"productUpdate"} \cup {"tagsAdd", "tagsRemove"},
                {} \cup (IF f THEN a ELSE {}) \cup (g \cap {"addTags", "removeTags"}))
    BY <1>7, <1>8, <1>9, Then
  <1>11. Planned(p7, d \cup {"write"} \cup {"write"} \cup {"write"},
                {} \cup {"productUpdate"} \cup {"tagsAdd", "tagsRemove"} \cup {"productVariantsBulkUpdate"},
                {} \cup (IF f THEN a ELSE {}) \cup (g \cap {"addTags", "removeTags"}) \cup (IF v THEN {"variants"} ELSE {}))
    BY <1>1, <1>10, ThenWrite
  <1>12. Planned(p8, d \cup {"write"} \cup {"write"} \cup {"write"} \cup {"write"},
                {} \cup {"productUpdate"} \cup {"tagsAdd", "tagsRemove"} \cup {"productVariantsBulkUpdate"} \cup {"productDeleteMedia"},
                {} \cup (IF f THEN a ELSE {}) \cup (g \cap {"addTags", "removeTags"}) \cup (IF v THEN {"variants"} ELSE {}) \cup (IF m THEN {"removeMediaIds"} ELSE {}))
    BY <1>1, <1>11, ThenWrite
  <1>13. Planned(p9, d \cup {"write"} \cup {"write"} \cup {"write"} \cup {"write"} \cup {"read"},
                {} \cup {"productUpdate"} \cup {"tagsAdd", "tagsRemove"} \cup {"productVariantsBulkUpdate"} \cup {"productDeleteMedia"},
                {} \cup (IF f THEN a ELSE {}) \cup (g \cap {"addTags", "removeTags"}) \cup (IF v THEN {"variants"} ELSE {}) \cup (IF m THEN {"removeMediaIds"} ELSE {}))
    BY <1>12, ThenRead
  <1>14. {} \cup (IF f THEN a ELSE {}) \cup (g \cap {"addTags", "removeTags"}) \cup (IF v THEN {"variants"} ELSE {}) \cup (IF m THEN {"removeMediaIds"} ELSE {}) = g
    BY <1>1 DEF Optional, Neither, Used
  <1>15. d \cup {"write"} \cup {"write"} \cup {"write"} \cup {"write"} \cup {"read"} \subseteq Plain
    BY <1>5 DEF Plain
  <1>16. {} \cup {"productUpdate"} \cup {"tagsAdd", "tagsRemove"} \cup {"productVariantsBulkUpdate"} \cup {"productDeleteMedia"} \subseteq {"productUpdate", "tagsAdd", "tagsRemove", "productVariantsBulkUpdate", "productDeleteMedia"}
    OBVIOUS
  <1>17. UpdateProduct(g) = p9
    BY DEF UpdateProduct
  <1> HIDE DEF p9, f, v, m, a
  <1> QED BY <1>13, <1>14, <1>15, <1>16, <1>17, Weaker

\* The plan of create_collection is good.
LEMMA CreateCollectionPlan ==
    ASSUME NEW g \in SUBSET Optional["create_collection"]
    PROVE  Planned(CreateCollection(g), Plain, {"collectionCreate", "collectionAddProducts", "publishablePublish"},
                   {"fields"} \cup Used(g))
  <1> DEFINE p  == "productIds" \in g
             a  == {"fields"} \cup (g \cap {"ruleSet"})
             p1 == Check
             p2 == p1 \o Scopes
             p3 == p2 \o Preview
             p4 == p3 \o Create("collectionCreate", a)
             p5 == p4 \o When(p, Write("collectionAddProducts", {"productIds"}))
             p6 == p5 \o Publish(g)
             p7 == p6 \o Read("collection")
  <1>1. p \in BOOLEAN
    BY DEF Optional, Neither
  <1>2. Facts(p1, {"check"}, {}, {})
    BY QuietSteps
  <1>3. Facts(p2, {"check"} \cup {"read"}, {}, {})
    BY <1>2, QuietSteps, QuietThen
  <1>4. PICK d : d = ({"check"} \cup {"read"}) \cup {"preview"}
    OBVIOUS
  <1>5. Planned(p3, d, {}, {})
    BY <1>3, <1>4, PreviewAfter
  <1>6. Planned(p4, d \cup {"create"},
                {} \cup {"collectionCreate"},
                {} \cup a)
    BY <1>1, <1>5, ThenWrite
  <1>7. Planned(p5, d \cup {"create"} \cup {"write"},
                {} \cup {"collectionCreate"} \cup {"collectionAddProducts"},
                {} \cup a \cup (IF p THEN {"productIds"} ELSE {}))
    BY <1>1, <1>6, ThenWrite
  <1>8. Facts(Publish(g), {"write", "confirm"}, {"publishablePublish"}, (g \cap {"publicationIds"}))
    BY PublishFacts
  <1>9. ({} \cup {"collectionCreate"} \cup {"collectionAddProducts"}) \cap {"publishablePublish"} = {}
    BY <1>1
  <1>10. Planned(p6, d \cup {"create"} \cup {"write"} \cup {"write", "confirm"},
                {} \cup {"collectionCreate"} \cup {"collectionAddProducts"} \cup {"publishablePublish"},
                {} \cup a \cup (IF p THEN {"productIds"} ELSE {}) \cup (g \cap {"publicationIds"}))
    BY <1>7, <1>8, <1>9, Then
  <1>11. Planned(p7, d \cup {"create"} \cup {"write"} \cup {"write", "confirm"} \cup {"read"},
                {} \cup {"collectionCreate"} \cup {"collectionAddProducts"} \cup {"publishablePublish"},
                {} \cup a \cup (IF p THEN {"productIds"} ELSE {}) \cup (g \cap {"publicationIds"}))
    BY <1>10, ThenRead
  <1>12. {} \cup a \cup (IF p THEN {"productIds"} ELSE {}) \cup (g \cap {"publicationIds"}) = {"fields"} \cup Used(g)
    BY <1>1 DEF Optional, Neither, Used
  <1>13. d \cup {"create"} \cup {"write"} \cup {"write", "confirm"} \cup {"read"} \subseteq Plain
    BY <1>4 DEF Plain
  <1>14. {} \cup {"collectionCreate"} \cup {"collectionAddProducts"} \cup {"publishablePublish"} \subseteq {"collectionCreate", "collectionAddProducts", "publishablePublish"}
    OBVIOUS
  <1>15. CreateCollection(g) = p7
    BY DEF CreateCollection
  <1> HIDE DEF p7, p, a
  <1> QED BY <1>11, <1>12, <1>13, <1>14, <1>15, Weaker

\* The plan of update_collection is good.
LEMMA UpdateCollectionPlan ==
    ASSUME NEW g \in SUBSET Optional["update_collection"]
    PROVE  Planned(UpdateCollection(g), Plain, {"collectionUpdate", "collectionAddProducts"},
                   g)
  <1> DEFINE f  == ~Neither(g, {"fields", "ruleSet"})
             p  == "addProductIds" \in g
             a  == g \cap {"fields", "ruleSet"}
             p1 == Check
             p2 == p1 \o Scopes
             p3 == p2 \o Read("collection")
             p4 == p3 \o Preview
             p5 == p4 \o When(f, Write("collectionUpdate", a))
             p6 == p5 \o When(p, Write("collectionAddProducts", {"addProductIds"}))
             p7 == p6 \o Read("collection")
  <1>1. f \in BOOLEAN /\ p \in BOOLEAN
    BY DEF Optional, Neither
  <1>2. Facts(p1, {"check"}, {}, {})
    BY QuietSteps
  <1>3. Facts(p2, {"check"} \cup {"read"}, {}, {})
    BY <1>2, QuietSteps, QuietThen
  <1>4. Facts(p3, ({"check"} \cup {"read"}) \cup {"read"}, {}, {})
    BY <1>3, QuietSteps, QuietThen
  <1>5. PICK d : d = (({"check"} \cup {"read"}) \cup {"read"}) \cup {"preview"}
    OBVIOUS
  <1>6. Planned(p4, d, {}, {})
    BY <1>4, <1>5, PreviewAfter
  <1>7. Planned(p5, d \cup {"write"},
                {} \cup {"collectionUpdate"},
                {} \cup (IF f THEN a ELSE {}))
    BY <1>1, <1>6, ThenWrite
  <1>8. Planned(p6, d \cup {"write"} \cup {"write"},
                {} \cup {"collectionUpdate"} \cup {"collectionAddProducts"},
                {} \cup (IF f THEN a ELSE {}) \cup (IF p THEN {"addProductIds"} ELSE {}))
    BY <1>1, <1>7, ThenWrite
  <1>9. Planned(p7, d \cup {"write"} \cup {"write"} \cup {"read"},
                {} \cup {"collectionUpdate"} \cup {"collectionAddProducts"},
                {} \cup (IF f THEN a ELSE {}) \cup (IF p THEN {"addProductIds"} ELSE {}))
    BY <1>8, ThenRead
  <1>10. {} \cup (IF f THEN a ELSE {}) \cup (IF p THEN {"addProductIds"} ELSE {}) = g
    BY <1>1 DEF Optional, Neither, Used
  <1>11. d \cup {"write"} \cup {"write"} \cup {"read"} \subseteq Plain
    BY <1>5 DEF Plain
  <1>12. {} \cup {"collectionUpdate"} \cup {"collectionAddProducts"} \subseteq {"collectionUpdate", "collectionAddProducts"}
    OBVIOUS
  <1>13. UpdateCollection(g) = p7
    BY DEF UpdateCollection
  <1> HIDE DEF p7, f, p, a
  <1> QED BY <1>9, <1>10, <1>11, <1>12, <1>13, Weaker

\* The plan of set_inventory is good.
LEMMA SetInventoryPlan ==
    ASSUME NEW g
    PROVE  Planned(SetInventory(g), {"read", "preview", "write", "confirm"}, {"inventorySetQuantities"},
                   {"quantity"})
  <1> DEFINE p1 == Scopes
             p2 == p1 \o Read("inventoryAt")
             p3 == p2 \o Preview
             p4 == p3 \o Write("inventorySetQuantities", {"quantity"})
             p5 == p4 \o <<Step("confirm", "inventoryAt", 0, {})>>
  <1>1. Facts(p1, {"read"}, {}, {})
    BY QuietSteps
  <1>2. Facts(p2, {"read"} \cup {"read"}, {}, {})
    BY <1>1, QuietSteps, QuietThen
  <1>3. PICK d : d = ({"read"} \cup {"read"}) \cup {"preview"}
    OBVIOUS
  <1>4. Planned(p3, d, {}, {})
    BY <1>2, <1>3, PreviewAfter
  <1>5. Planned(p4, d \cup {"write"},
                {} \cup {"inventorySetQuantities"},
                {} \cup {"quantity"})
    BY <1>4, ThenWrite
  <1>6. Facts(<<Step("confirm", "inventoryAt", 0, {})>>, {"confirm"}, {}, {})
    BY OneQuiet DEF Quiet
  <1>7. ({} \cup {"inventorySetQuantities"}) \cap {} = {}
    OBVIOUS
  <1>8. Planned(p5, d \cup {"write"} \cup {"confirm"},
                {} \cup {"inventorySetQuantities"} \cup {},
                {} \cup {"quantity"} \cup {})
    BY <1>5, <1>6, <1>7, Then
  <1>9. {} \cup {"quantity"} \cup {} = {"quantity"}
    BY DEF Optional, Neither, Used
  <1>10. d \cup {"write"} \cup {"confirm"} \subseteq {"read", "preview", "write", "confirm"}
    BY <1>3
  <1>11. {} \cup {"inventorySetQuantities"} \cup {} \subseteq {"inventorySetQuantities"}
    OBVIOUS
  <1>12. SetInventory(g) = p5
    BY DEF SetInventory
  <1> HIDE DEF p5
  <1> QED BY <1>8, <1>9, <1>10, <1>11, <1>12, Weaker

\* The plan of create_discount is good.
LEMMA CreateDiscountPlan ==
    ASSUME NEW g \in SUBSET Optional["create_discount"]
    PROVE  Planned(CreateDiscount(g), Plain, {"discountCodeBasicCreate"},
                   {"fields"} \cup Used(g))
  <1> DEFINE c  == "customerSegments" \in g
             a  == {"fields"} \cup g
             p1 == Check
             p2 == p1 \o Scopes
             p3 == p2 \o When(c, Read("segments"))
             p4 == p3 \o Preview
             p5 == p4 \o Create("discountCodeBasicCreate", a)
             p6 == p5 \o Read("discount")
  <1>1. c \in BOOLEAN
    BY DEF Optional, Neither
  <1>2. Facts(p1, {"check"}, {}, {})
    BY QuietSteps
  <1>3. Facts(p2, {"check"} \cup {"read"}, {}, {})
    BY <1>2, QuietSteps, QuietThen
  <1>4. Facts(p3, ({"check"} \cup {"read"}) \cup {"read"}, {}, {})
    BY <1>1, <1>3, QuietSteps, QuietWhen, QuietThen
  <1>5. PICK d : d = (({"check"} \cup {"read"}) \cup {"read"}) \cup {"preview"}
    OBVIOUS
  <1>6. Planned(p4, d, {}, {})
    BY <1>4, <1>5, PreviewAfter
  <1>7. Planned(p5, d \cup {"create"},
                {} \cup {"discountCodeBasicCreate"},
                {} \cup a)
    BY <1>1, <1>6, ThenWrite
  <1>8. Planned(p6, d \cup {"create"} \cup {"read"},
                {} \cup {"discountCodeBasicCreate"},
                {} \cup a)
    BY <1>7, ThenRead
  <1>9. {} \cup a = {"fields"} \cup Used(g)
    BY <1>1 DEF Optional, Neither, Used
  <1>10. d \cup {"create"} \cup {"read"} \subseteq Plain
    BY <1>5 DEF Plain
  <1>11. {} \cup {"discountCodeBasicCreate"} \subseteq {"discountCodeBasicCreate"}
    OBVIOUS
  <1>12. CreateDiscount(g) = p6
    BY DEF CreateDiscount
  <1> HIDE DEF p6, c, a
  <1> QED BY <1>8, <1>9, <1>10, <1>11, <1>12, Weaker

\* The plan of the metafield tools is good.
LEMMA MetafieldsPlan ==
    ASSUME NEW g \in SUBSET Optional["metafields"]
    PROVE  Planned(Metafields(g), Plain, {"metafieldsSet", "metafieldsDelete"},
                   g)
  <1> DEFINE s  == "set" \in g
             r  == "delete" \in g
             p1 == Check
             p2 == p1 \o Preview
             p3 == p2 \o When(s, Write("metafieldsSet", {"set"}))
             p4 == p3 \o When(r, Write("metafieldsDelete", {"delete"}))
  <1>1. s \in BOOLEAN /\ r \in BOOLEAN
    BY DEF Optional, Neither
  <1>2. Facts(p1, {"check"}, {}, {})
    BY QuietSteps
  <1>3. PICK d : d = {"check"} \cup {"preview"}
    OBVIOUS
  <1>4. Planned(p2, d, {}, {})
    BY <1>2, <1>3, PreviewAfter
  <1>5. Planned(p3, d \cup {"write"},
                {} \cup {"metafieldsSet"},
                {} \cup (IF s THEN {"set"} ELSE {}))
    BY <1>1, <1>4, ThenWrite
  <1>6. Planned(p4, d \cup {"write"} \cup {"write"},
                {} \cup {"metafieldsSet"} \cup {"metafieldsDelete"},
                {} \cup (IF s THEN {"set"} ELSE {}) \cup (IF r THEN {"delete"} ELSE {}))
    BY <1>1, <1>5, ThenWrite
  <1>7. {} \cup (IF s THEN {"set"} ELSE {}) \cup (IF r THEN {"delete"} ELSE {}) = g
    BY <1>1 DEF Optional, Neither, Used
  <1>8. d \cup {"write"} \cup {"write"} \subseteq Plain
    BY <1>3 DEF Plain
  <1>9. {} \cup {"metafieldsSet"} \cup {"metafieldsDelete"} \subseteq {"metafieldsSet", "metafieldsDelete"}
    OBVIOUS
  <1>10. Metafields(g) = p4
    BY DEF Metafields
  <1> HIDE DEF p4, s, r
  <1> QED BY <1>6, <1>7, <1>8, <1>9, <1>10, Weaker

\* The plan of a tool that updates the fields of an order or a customer is good.
LEMMA UpdateFieldsPlan ==
    ASSUME NEW g \in SUBSET {"fields", "replaceTags", "addTags", "removeTags"}, NEW read, NEW update,
           update \notin {"tagsAdd", "tagsRemove"}
    PROVE  Planned(UpdateFields(read, update, g), Plain, {update, "tagsAdd", "tagsRemove"},
                   g)
  <1> DEFINE f  == ~Neither(g, {"fields", "replaceTags"})
             a  == g \cap {"fields", "replaceTags"}
             p1 == Check
             p2 == p1 \o Scopes
             p3 == p2 \o Read(read)
             p4 == p3 \o Preview
             p5 == p4 \o When(f, Write(update, a))
             p6 == p5 \o TagChanges(g)
             p7 == p6 \o Read(read)
  <1>1. f \in BOOLEAN /\ update \notin {"tagsAdd", "tagsRemove"}
    BY DEF Optional, Neither
  <1>2. Facts(p1, {"check"}, {}, {})
    BY QuietSteps
  <1>3. Facts(p2, {"check"} \cup {"read"}, {}, {})
    BY <1>2, QuietSteps, QuietThen
  <1>4. Facts(p3, ({"check"} \cup {"read"}) \cup {"read"}, {}, {})
    BY <1>3, QuietSteps, QuietThen
  <1>5. PICK d : d = (({"check"} \cup {"read"}) \cup {"read"}) \cup {"preview"}
    OBVIOUS
  <1>6. Planned(p4, d, {}, {})
    BY <1>4, <1>5, PreviewAfter
  <1>7. Planned(p5, d \cup {"write"},
                {} \cup {update},
                {} \cup (IF f THEN a ELSE {}))
    BY <1>1, <1>6, ThenWrite
  <1>8. Facts(TagChanges(g), {"write"}, {"tagsAdd", "tagsRemove"}, (g \cap {"addTags", "removeTags"}))
    BY TagChangesFacts
  <1>9. ({} \cup {update}) \cap {"tagsAdd", "tagsRemove"} = {}
    BY <1>1
  <1>10. Planned(p6, d \cup {"write"} \cup {"write"},
                {} \cup {update} \cup {"tagsAdd", "tagsRemove"},
                {} \cup (IF f THEN a ELSE {}) \cup (g \cap {"addTags", "removeTags"}))
    BY <1>7, <1>8, <1>9, Then
  <1>11. Planned(p7, d \cup {"write"} \cup {"write"} \cup {"read"},
                {} \cup {update} \cup {"tagsAdd", "tagsRemove"},
                {} \cup (IF f THEN a ELSE {}) \cup (g \cap {"addTags", "removeTags"}))
    BY <1>10, ThenRead
  <1>12. {} \cup (IF f THEN a ELSE {}) \cup (g \cap {"addTags", "removeTags"}) = g
    BY <1>1 DEF Optional, Neither, Used
  <1>13. d \cup {"write"} \cup {"write"} \cup {"read"} \subseteq Plain
    BY <1>5 DEF Plain
  <1>14. {} \cup {update} \cup {"tagsAdd", "tagsRemove"} \subseteq {update, "tagsAdd", "tagsRemove"}
    OBVIOUS
  <1>15. UpdateFields(read, update, g) = p7
    BY DEF UpdateFields
  <1> HIDE DEF p7, f, a
  <1> QED BY <1>11, <1>12, <1>13, <1>14, <1>15, Weaker

\* The plan of the tag tools is good.
LEMMA TagsPlan ==
    ASSUME NEW g \in SUBSET Optional["tags"]
    PROVE  Planned(Tags(g), Plain, {"tagsAdd", "tagsRemove"},
                   g)
  <1> DEFINE s  == "add" \in g
             r  == "remove" \in g
             p1 == Check
             p2 == p1 \o Preview
             p3 == p2 \o When(s, Write("tagsAdd", {"add"}))
             p4 == p3 \o When(r, Write("tagsRemove", {"remove"}))
  <1>1. s \in BOOLEAN /\ r \in BOOLEAN
    BY DEF Optional, Neither
  <1>2. Facts(p1, {"check"}, {}, {})
    BY QuietSteps
  <1>3. PICK d : d = {"check"} \cup {"preview"}
    OBVIOUS
  <1>4. Planned(p2, d, {}, {})
    BY <1>2, <1>3, PreviewAfter
  <1>5. Planned(p3, d \cup {"write"},
                {} \cup {"tagsAdd"},
                {} \cup (IF s THEN {"add"} ELSE {}))
    BY <1>1, <1>4, ThenWrite
  <1>6. Planned(p4, d \cup {"write"} \cup {"write"},
                {} \cup {"tagsAdd"} \cup {"tagsRemove"},
                {} \cup (IF s THEN {"add"} ELSE {}) \cup (IF r THEN {"remove"} ELSE {}))
    BY <1>1, <1>5, ThenWrite
  <1>7. {} \cup (IF s THEN {"add"} ELSE {}) \cup (IF r THEN {"remove"} ELSE {}) = g
    BY <1>1 DEF Optional, Neither, Used
  <1>8. d \cup {"write"} \cup {"write"} \subseteq Plain
    BY <1>3 DEF Plain
  <1>9. {} \cup {"tagsAdd"} \cup {"tagsRemove"} \subseteq {"tagsAdd", "tagsRemove"}
    OBVIOUS
  <1>10. Tags(g) = p4
    BY DEF Tags
  <1> HIDE DEF p4, s, r
  <1> QED BY <1>6, <1>7, <1>8, <1>9, <1>10, Weaker

\* The plan of create_fulfillment is good.
LEMMA CreateFulfillmentPlan ==
    ASSUME NEW g
    PROVE  Planned(CreateFulfillment(g), Plain, {"fulfillmentCreateV2"},
                   {"fields"} \cup g)
  <1> DEFINE a  == {"fields"} \cup g
             p1 == Read("fulfillmentOrders")
             p2 == p1 \o Preview
             p3 == p2 \o Write("fulfillmentCreateV2", a)
  <1>1. Facts(p1, {"read"}, {}, {})
    BY QuietSteps
  <1>2. PICK d : d = {"read"} \cup {"preview"}
    OBVIOUS
  <1>3. Planned(p2, d, {}, {})
    BY <1>1, <1>2, PreviewAfter
  <1>4. Planned(p3, d \cup {"write"},
                {} \cup {"fulfillmentCreateV2"},
                {} \cup a)
    BY <1>3, ThenWrite
  <1>5. {} \cup a = {"fields"} \cup g
    BY DEF Optional, Neither, Used
  <1>6. d \cup {"write"} \subseteq Plain
    BY <1>2 DEF Plain
  <1>7. {} \cup {"fulfillmentCreateV2"} \subseteq {"fulfillmentCreateV2"}
    OBVIOUS
  <1>8. CreateFulfillment(g) = p3
    BY DEF CreateFulfillment
  <1> HIDE DEF p3, a
  <1> QED BY <1>4, <1>5, <1>6, <1>7, <1>8, Weaker

\* Neither readings of a file nor redirects.
LEMMA PlainOrder ==
    ASSUME NEW s, NEW d, NEW o, NEW a, Planned(s, d, o, a)
    PROVE  /\ "poll" \notin d => PollsLast(s)
           /\ "item" \notin d => ItemsLast(s)
  BY DEF Planned, Facts, PollsLast, ItemsLast

\* A planned tool that ends with the readings of a file.
LEMMA ThenPolls ==
    ASSUME NEW s, NEW o, NEW a, Planned(s, Plain, o, a), NEW t, Facts(t, {"poll"}, {}, {})
    PROVE  Planned(s \o t, Plain \cup {"poll"}, o, a) /\ PollsLast(s \o t)
  <1> DEFINE u == s \o t
  <1>1. Planned(u, Plain \cup {"poll"}, o \cup {}, a \cup {})
    BY Then, o \cap {} = {}
  <1>2. o \cup {} = o /\ a \cup {} = a
    OBVIOUS
  <1>3. /\ \A i \in DOMAIN s : i \in DOMAIN u /\ u[i] = s[i]
        /\ \A i \in DOMAIN u :
             i \notin DOMAIN s => i > Len(s) /\ i - Len(s) \in DOMAIN t /\ u[i] = t[i - Len(s)]
        /\ Len(s) \in Nat /\ DOMAIN s = 1..Len(s) /\ DOMAIN u \subseteq Nat
    BY Joined DEF Facts, Planned
  <1> HIDE DEF u
  <1>4. \A i \in DOMAIN s : s[i].do # "poll"
    BY DEF Planned, Facts, Plain
  <1>5. \A i \in DOMAIN t : t[i].do \notin Mutating
    BY DEF Facts, Mutating
  <1>6. PollsLast(u)
    <2> SUFFICES ASSUME NEW i \in DOMAIN u, NEW j \in DOMAIN u, u[i].do = "poll",
                        u[j].do \in Mutating
                 PROVE  j < i
      BY DEF PollsLast
    <2>1. i \notin DOMAIN s
      BY <1>3, <1>4
    <2>2. j \in DOMAIN s
      BY <1>3, <1>5
    <2> QED BY <2>1, <2>2, <1>3
  <1>7. Planned(u, Plain \cup {"poll"}, o, a)
    BY <1>1, <1>2 DEF u
  <1> QED BY <1>6, <1>7 DEF u

\* A planned tool that ends with its items.
LEMMA ThenItems ==
    ASSUME NEW s, NEW d, NEW o, NEW a, Planned(s, d, o, a), ItemsLast(s),
           NEW c \in BOOLEAN, NEW op, NEW w, op \notin o
    PROVE  LET u == s \o When(c, Times(Several, "item", op, w))
           IN  /\ Planned(u, d \cup {"item"}, o \cup {op}, a \cup (IF c THEN w ELSE {}))
               /\ ItemsLast(u)
  <1> DEFINE t == When(c, Times(Several, "item", op, w))
             u == s \o t
  <1>1. Facts(t, {"item"}, {op}, IF c THEN w ELSE {})
    <2>1. Several \in Nat /\ Several # 0
      BY MultiStepToolsAssumption
    <2>2. Facts(Times(Several, "item", op, w), {"item"},
                IF "item" = "item" THEN {op} ELSE {}, w)
      BY <2>1, TimesFacts
    <2>3. (IF "item" = "item" THEN {op} ELSE {}) = {op}
      OBVIOUS
    <2> QED BY <2>2, <2>3, WhenFacts
  <1> HIDE DEF t
  <1>2. o \cap {op} = {}
    OBVIOUS
  <1>3. Planned(u, d \cup {"item"}, o \cup {op}, a \cup (IF c THEN w ELSE {}))
    BY <1>1, <1>2, Then
  <1>4. /\ \A i \in DOMAIN s : i \in DOMAIN u /\ u[i] = s[i]
        /\ \A i \in DOMAIN u :
             i \notin DOMAIN s => i > Len(s) /\ i - Len(s) \in DOMAIN t /\ u[i] = t[i - Len(s)]
        /\ Len(s) \in Nat /\ DOMAIN s = 1..Len(s) /\ DOMAIN u \subseteq Nat
    BY <1>1, Joined DEF Facts, Planned
  <1> HIDE DEF u
  <1>5. \A i \in DOMAIN t : t[i].do = "item"
    BY <1>1 DEF Facts
  <1>6. ItemsLast(u)
    <2> SUFFICES ASSUME NEW i \in DOMAIN u, NEW j \in DOMAIN u, u[i].do = "item", i < j
                 PROVE  u[j].do = "item"
      BY DEF ItemsLast
    <2>1. CASE j \notin DOMAIN s
      BY <2>1, <1>4, <1>5
    <2>2. CASE j \in DOMAIN s
      <3>1. i \in DOMAIN s
        BY <2>2, <1>4
      <3> QED BY <3>1, <2>2, <1>4 DEF ItemsLast
    <2> QED BY <2>1, <2>2
  <1> QED BY <1>3, <1>6 DEF u, t

\* The plan of upload_image is good: it reads the file only after the preview.
LEMMA UploadImagePlan ==
    ASSUME NEW g
    PROVE  /\ Planned(UploadImage(g), Plain \cup {"poll"}, {"stagedUploadsCreate", "fileCreate"}, g)
           /\ PollsLast(UploadImage(g))
  <1> DEFINE c  == "imageFile" \in g
             x  == <<Step("post", "imageFile", 0, {})>>
             y  == Write("stagedUploadsCreate", {})
             z  == <<Step("post", "stagedTarget", 0, {})>>
             p1 == Check
             p2 == p1 \o Scopes
             p3 == p2 \o Preview
             p4 == p3 \o When(c, x \o y \o z)
             p5 == p4 \o Create("fileCreate", g)
             p6 == p5 \o Times(Polls, "poll", "file", {})
  <1>1. Facts(p1, {"check"}, {}, {})
    BY QuietSteps
  <1>2. Facts(p2, {"check"} \cup {"read"}, {}, {})
    BY <1>1, QuietSteps, QuietThen
  <1>3. PICK d : d = ({"check"} \cup {"read"}) \cup {"preview"}
    OBVIOUS
  <1>4. Planned(p3, d, {}, {})
    BY <1>2, <1>3, PreviewAfter
  <1>5. Facts(When(c, x \o y \o z), {"post", "write"}, {"stagedUploadsCreate"}, {})
    <2>1. Facts(x, {"post"}, {}, {}) /\ Facts(z, {"post"}, {}, {})
      BY OneQuiet DEF Quiet
    <2>2. Facts(y, {"write"}, {"stagedUploadsCreate"}, {})
      BY OneMutation DEF Write
    <2>3. {} \cap {"stagedUploadsCreate"} = {} /\ ({} \cup {"stagedUploadsCreate"}) \cap {} = {}
      OBVIOUS
    <2> HIDE DEF x, y, z
    <2>4. Facts(x \o y, {"post"} \cup {"write"}, {} \cup {"stagedUploadsCreate"}, {} \cup {})
      BY <2>1, <2>2, <2>3, JoinFacts
    <2>5. Facts(x \o y \o z, {"post"} \cup {"write"} \cup {"post"},
                {} \cup {"stagedUploadsCreate"} \cup {}, {} \cup {} \cup {})
      BY <2>1, <2>3, <2>4, JoinFacts
    <2>6. /\ {"post"} \cup {"write"} \cup {"post"} \subseteq {"post", "write"}
          /\ {} \cup {"stagedUploadsCreate"} \cup {} \subseteq {"stagedUploadsCreate"}
          /\ {} \cup {} \cup {} = {}
      OBVIOUS
    <2>7. Facts(x \o y \o z, {"post", "write"}, {"stagedUploadsCreate"}, {})
      BY <2>5, <2>6, Weaker
    <2>8. Facts(When(c, x \o y \o z), {"post", "write"}, {"stagedUploadsCreate"}, IF c THEN {} ELSE {})
      BY <2>7, WhenFacts, c \in BOOLEAN
    <2>9. (IF c THEN {} ELSE {}) = {}
      OBVIOUS
    <2> QED BY <2>8, <2>9
  <1>6. {} \cap {"stagedUploadsCreate"} = {}
    OBVIOUS
  <1>7. Planned(p4, d \cup {"post", "write"}, {} \cup {"stagedUploadsCreate"}, {} \cup {})
    BY <1>4, <1>5, <1>6, Then
  <1>8. Planned(p5, d \cup {"post", "write"} \cup {"create"},
                {} \cup {"stagedUploadsCreate"} \cup {"fileCreate"}, {} \cup {} \cup g)
    BY <1>7, ThenWrite
  <1>9. /\ d \cup {"post", "write"} \cup {"create"} \subseteq Plain
        /\ {} \cup {"stagedUploadsCreate"} \cup {"fileCreate"} \subseteq {"stagedUploadsCreate", "fileCreate"}
        /\ {} \cup {} \cup g = g
    BY <1>3 DEF Plain
  <1>10. Planned(p5, Plain, {"stagedUploadsCreate", "fileCreate"}, g)
    <2> HIDE DEF p5
    <2> QED BY <1>8, <1>9, Weaker
  <1>11. Facts(Times(Polls, "poll", "file", {}), {"poll"}, {}, {})
    <2>1. Polls \in Nat
      BY MultiStepToolsAssumption
    <2>2. Facts(Times(Polls, "poll", "file", {}), {"poll"}, IF "poll" = "item" THEN {"file"} ELSE {}, {})
      BY <2>1, TimesFacts
    <2>3. (IF "poll" = "item" THEN {"file"} ELSE {}) = {}
      OBVIOUS
    <2> QED BY <2>2, <2>3
  <1>12. UploadImage(g) = p6
    BY DEF UploadImage
  <1> HIDE DEF p5
  <1> QED BY <1>10, <1>11, <1>12, ThenPolls

\* The plan of the redirects is good: every redirect is sent once, after the preview.
LEMMA RedirectsPlan ==
    ASSUME NEW g \in SUBSET Optional["redirects"]
    PROVE  /\ Planned(Redirects(g), {"check", "read", "preview", "item"}, Redirect, g)
           /\ ItemsLast(Redirects(g))
  <1> DEFINE c  == "create" \in g
             r  == "delete" \in g
             p1 == Check
             p2 == p1 \o Scopes
             p3 == p2 \o Preview
             p4 == p3 \o When(c, Times(Several, "item", "urlRedirectCreate", {"create"}))
             p5 == p4 \o When(r, Times(Several, "item", "urlRedirectDelete", {"delete"}))
  <1>0. c \in BOOLEAN /\ r \in BOOLEAN
    OBVIOUS
  <1>1. Facts(p1, {"check"}, {}, {})
    BY QuietSteps
  <1>2. Facts(p2, {"check"} \cup {"read"}, {}, {})
    BY <1>1, QuietSteps, QuietThen
  <1>3. PICK d : d = ({"check"} \cup {"read"}) \cup {"preview"}
    OBVIOUS
  <1>4. Planned(p3, d, {}, {}) /\ ItemsLast(p3)
    <2>1. Planned(p3, d, {}, {})
      BY <1>2, <1>3, PreviewAfter
    <2>2. "item" \notin d
      BY <1>3
    <2> HIDE DEF p3
    <2> QED BY <2>1, <2>2, PlainOrder
  <1>5. /\ Planned(p4, d \cup {"item"}, {} \cup {"urlRedirectCreate"},
                   {} \cup (IF c THEN {"create"} ELSE {}))
        /\ ItemsLast(p4)
    <2> HIDE DEF p3
    <2>1. "urlRedirectCreate" \notin {}
      OBVIOUS
    <2> QED BY <1>0, <1>4, <2>1, ThenItems
  <1>6. "urlRedirectDelete" \notin {} \cup {"urlRedirectCreate"}
    OBVIOUS
  <1>7. /\ Planned(p5, d \cup {"item"} \cup {"item"}, {} \cup {"urlRedirectCreate"} \cup {"urlRedirectDelete"},
                   {} \cup (IF c THEN {"create"} ELSE {}) \cup (IF r THEN {"delete"} ELSE {}))
        /\ ItemsLast(p5)
    <2> HIDE DEF p4
    <2> QED BY <1>0, <1>5, <1>6, ThenItems
  <1>8. /\ d \cup {"item"} \cup {"item"} \subseteq {"check", "read", "preview", "item"}
        /\ {} \cup {"urlRedirectCreate"} \cup {"urlRedirectDelete"} \subseteq Redirect
    BY <1>3 DEF Redirect
  <1>9. {} \cup (IF c THEN {"create"} ELSE {}) \cup (IF r THEN {"delete"} ELSE {}) = g
    BY DEF Optional
  <1>10. Redirects(g) = p5
    BY DEF Redirects
  <1> HIDE DEF p5, c, r
  <1> QED BY <1>7, <1>8, <1>9, <1>10, Weaker

\* What a plan of the kinds and documents that dos and ops name is.
LEMMA GoodWhen ==
    ASSUME NEW tool, NEW g, NEW dos, NEW ops, NEW a,
           Planned(Plan(tool, g), dos, ops, a), PollsLast(Plan(tool, g)), ItemsLast(Plan(tool, g)),
           a \subseteq Shown(tool, g) \cup {"tracking"}, Shown(tool, g) \subseteq a,
           \/ "item" \notin dos /\ ops \cap Redirect = {}
           \/ dos \cap {"write", "create"} = {} /\ ops \subseteq Redirect,
           \/ "inventorySetQuantities" \notin ops /\ tool # "set_inventory"
           \/ ops = {"inventorySetQuantities"} /\ tool = "set_inventory" /\ dos \cap Mutating = {"write"}
    PROVE  GoodPlan(tool, g)
  <1> DEFINE s == Plan(tool, g)
  <1>1. s = Plan(tool, g) /\ Planned(s, dos, ops, a) /\ PollsLast(s) /\ ItemsLast(s)
    OBVIOUS
  <1> HIDE DEF s
  <1>2. Sequence(s) /\ Unique(s) /\ Previewed(s)
    BY <1>1 DEF Planned, Facts
  <1>3. \A i \in DOMAIN s :
          /\ Numbered(s[i]) /\ s[i].do \in dos /\ s[i].with \subseteq a
          /\ s[i].do \in Mutating => s[i].op \in ops
    BY <1>1 DEF Planned, Facts
  <1>4. \A i \in DOMAIN s :
          /\ s[i].do = "item" => s[i].op \in Redirect
          /\ s[i].do \in {"write", "create"} => s[i].op \notin Redirect
    BY <1>3 DEF Mutating
  <1>5. \A i \in DOMAIN s :
          /\ s[i].do \in Mutating /\ s[i].op = "inventorySetQuantities" =>
               s[i].do = "write" /\ tool = "set_inventory"
          /\ tool = "set_inventory" /\ s[i].do \in Mutating => s[i].op = "inventorySetQuantities"
    BY <1>3
  <1>6. \A i \in DOMAIN s : s[i].with \subseteq Shown(tool, g) \cup {"tracking"}
    BY <1>3
  <1>7. \A x \in Shown(tool, g) : \E i \in DOMAIN s : s[i].do \in Mutating /\ x \in s[i].with
    BY <1>1 DEF Planned, Facts
  <1> QED BY <1>1, <1>2, <1>3, <1>4, <1>5, <1>6, <1>7 DEF GoodPlan

\* Every plan is one.
LEMMA PlanGood ==
    ASSUME NEW tool \in Tools, NEW g \in SUBSET Optional[tool]
    PROVE  GoodPlan(tool, g)
  <1> DEFINE s == Plan(tool, g)
  <1>0. tool \in {"create_product", "update_product", "create_collection", "update_collection",
                "create_discount", "metafields", "update_order", "tags",
                "update_customer", "create_fulfillment", "upload_image", "redirects",
                "set_inventory"}
    BY DEF Tools, Optional
  <1>1. CASE tool = "create_product"
    <2> DEFINE ops == {"productCreate", "productVariantsBulkCreate", "collectionAddProducts"}
               a   == {"fields"} \cup Used(g)
    <2>1. Planned(s, Plain, ops, a)
      BY <1>1, CreateProductPlan DEF Plan
    <2>2. a \subseteq Shown(tool, g) \cup {"tracking"} /\ Shown(tool, g) \subseteq a
      BY <1>1 DEF Shown, Used, Optional
    <2>3. PollsLast(s) /\ ItemsLast(s)
      BY <2>1, PlainOrder DEF Plain
    <2>4. /\ "item" \notin Plain /\ ops \cap Redirect = {}
          /\ "inventorySetQuantities" \notin ops /\ tool # "set_inventory"
      BY <1>1 DEF Plain, Redirect
    <2> HIDE DEF s, ops, a
    <2> QED BY <2>1, <2>2, <2>3, <2>4, GoodWhen DEF s
  <1>2. CASE tool = "update_product"
    <2> DEFINE ops == {"productUpdate", "tagsAdd", "tagsRemove", "productVariantsBulkUpdate", "productDeleteMedia"}
               a   == g
    <2>1. Planned(s, Plain, ops, a)
      BY <1>2, UpdateProductPlan DEF Plan
    <2>2. a \subseteq Shown(tool, g) \cup {"tracking"} /\ Shown(tool, g) \subseteq a
      BY <1>2 DEF Shown, Optional
    <2>3. PollsLast(s) /\ ItemsLast(s)
      BY <2>1, PlainOrder DEF Plain
    <2>4. /\ "item" \notin Plain /\ ops \cap Redirect = {}
          /\ "inventorySetQuantities" \notin ops /\ tool # "set_inventory"
      BY <1>2 DEF Plain, Redirect
    <2> HIDE DEF s, ops, a
    <2> QED BY <2>1, <2>2, <2>3, <2>4, GoodWhen DEF s
  <1>3. CASE tool = "create_collection"
    <2> DEFINE ops == {"collectionCreate", "collectionAddProducts", "publishablePublish"}
               a   == {"fields"} \cup Used(g)
    <2>1. Planned(s, Plain, ops, a)
      BY <1>3, CreateCollectionPlan DEF Plan
    <2>2. a \subseteq Shown(tool, g) \cup {"tracking"} /\ Shown(tool, g) \subseteq a
      BY <1>3 DEF Shown, Used, Optional
    <2>3. PollsLast(s) /\ ItemsLast(s)
      BY <2>1, PlainOrder DEF Plain
    <2>4. /\ "item" \notin Plain /\ ops \cap Redirect = {}
          /\ "inventorySetQuantities" \notin ops /\ tool # "set_inventory"
      BY <1>3 DEF Plain, Redirect
    <2> HIDE DEF s, ops, a
    <2> QED BY <2>1, <2>2, <2>3, <2>4, GoodWhen DEF s
  <1>4. CASE tool = "update_collection"
    <2> DEFINE ops == {"collectionUpdate", "collectionAddProducts"}
               a   == g
    <2>1. Planned(s, Plain, ops, a)
      BY <1>4, UpdateCollectionPlan DEF Plan
    <2>2. a \subseteq Shown(tool, g) \cup {"tracking"} /\ Shown(tool, g) \subseteq a
      BY <1>4 DEF Shown, Optional
    <2>3. PollsLast(s) /\ ItemsLast(s)
      BY <2>1, PlainOrder DEF Plain
    <2>4. /\ "item" \notin Plain /\ ops \cap Redirect = {}
          /\ "inventorySetQuantities" \notin ops /\ tool # "set_inventory"
      BY <1>4 DEF Plain, Redirect
    <2> HIDE DEF s, ops, a
    <2> QED BY <2>1, <2>2, <2>3, <2>4, GoodWhen DEF s
  <1>5. CASE tool = "create_discount"
    <2> DEFINE ops == {"discountCodeBasicCreate"}
               a   == {"fields"} \cup Used(g)
    <2>1. Planned(s, Plain, ops, a)
      BY <1>5, CreateDiscountPlan DEF Plan
    <2>2. a \subseteq Shown(tool, g) \cup {"tracking"} /\ Shown(tool, g) \subseteq a
      BY <1>5 DEF Shown, Used, Optional
    <2>3. PollsLast(s) /\ ItemsLast(s)
      BY <2>1, PlainOrder DEF Plain
    <2>4. /\ "item" \notin Plain /\ ops \cap Redirect = {}
          /\ "inventorySetQuantities" \notin ops /\ tool # "set_inventory"
      BY <1>5 DEF Plain, Redirect
    <2> HIDE DEF s, ops, a
    <2> QED BY <2>1, <2>2, <2>3, <2>4, GoodWhen DEF s
  <1>6. CASE tool = "metafields"
    <2> DEFINE ops == {"metafieldsSet", "metafieldsDelete"}
               a   == g
    <2>1. Planned(s, Plain, ops, a)
      BY <1>6, MetafieldsPlan DEF Plan
    <2>2. a \subseteq Shown(tool, g) \cup {"tracking"} /\ Shown(tool, g) \subseteq a
      BY <1>6 DEF Shown, Optional
    <2>3. PollsLast(s) /\ ItemsLast(s)
      BY <2>1, PlainOrder DEF Plain
    <2>4. /\ "item" \notin Plain /\ ops \cap Redirect = {}
          /\ "inventorySetQuantities" \notin ops /\ tool # "set_inventory"
      BY <1>6 DEF Plain, Redirect
    <2> HIDE DEF s, ops, a
    <2> QED BY <2>1, <2>2, <2>3, <2>4, GoodWhen DEF s
  <1>7. CASE tool = "update_order"
    <2> DEFINE ops == {"orderUpdate", "tagsAdd", "tagsRemove"}
               a   == g
    <2>1. Planned(s, Plain, ops, a)
      BY <1>7, UpdateFieldsPlan DEF Plan, Optional
    <2>2. a \subseteq Shown(tool, g) \cup {"tracking"} /\ Shown(tool, g) \subseteq a
      BY <1>7 DEF Shown, Optional
    <2>3. PollsLast(s) /\ ItemsLast(s)
      BY <2>1, PlainOrder DEF Plain
    <2>4. /\ "item" \notin Plain /\ ops \cap Redirect = {}
          /\ "inventorySetQuantities" \notin ops /\ tool # "set_inventory"
      BY <1>7 DEF Plain, Redirect
    <2> HIDE DEF s, ops, a
    <2> QED BY <2>1, <2>2, <2>3, <2>4, GoodWhen DEF s
  <1>8. CASE tool = "tags"
    <2> DEFINE ops == {"tagsAdd", "tagsRemove"}
               a   == g
    <2>1. Planned(s, Plain, ops, a)
      BY <1>8, TagsPlan DEF Plan
    <2>2. a \subseteq Shown(tool, g) \cup {"tracking"} /\ Shown(tool, g) \subseteq a
      BY <1>8 DEF Shown, Optional
    <2>3. PollsLast(s) /\ ItemsLast(s)
      BY <2>1, PlainOrder DEF Plain
    <2>4. /\ "item" \notin Plain /\ ops \cap Redirect = {}
          /\ "inventorySetQuantities" \notin ops /\ tool # "set_inventory"
      BY <1>8 DEF Plain, Redirect
    <2> HIDE DEF s, ops, a
    <2> QED BY <2>1, <2>2, <2>3, <2>4, GoodWhen DEF s
  <1>9. CASE tool = "update_customer"
    <2> DEFINE ops == {"customerUpdate", "tagsAdd", "tagsRemove"}
               a   == g
    <2>1. Planned(s, Plain, ops, a)
      BY <1>9, UpdateFieldsPlan DEF Plan, Optional
    <2>2. a \subseteq Shown(tool, g) \cup {"tracking"} /\ Shown(tool, g) \subseteq a
      BY <1>9 DEF Shown, Optional
    <2>3. PollsLast(s) /\ ItemsLast(s)
      BY <2>1, PlainOrder DEF Plain
    <2>4. /\ "item" \notin Plain /\ ops \cap Redirect = {}
          /\ "inventorySetQuantities" \notin ops /\ tool # "set_inventory"
      BY <1>9 DEF Plain, Redirect
    <2> HIDE DEF s, ops, a
    <2> QED BY <2>1, <2>2, <2>3, <2>4, GoodWhen DEF s
  <1>10. CASE tool = "create_fulfillment"
    <2> DEFINE ops == {"fulfillmentCreateV2"}
               a   == {"fields"} \cup g
    <2>1. Planned(s, Plain, ops, a)
      BY <1>10, CreateFulfillmentPlan DEF Plan
    <2>2. a \subseteq Shown(tool, g) \cup {"tracking"} /\ Shown(tool, g) \subseteq a
      BY <1>10 DEF Shown, Optional
    <2>3. PollsLast(s) /\ ItemsLast(s)
      BY <2>1, PlainOrder DEF Plain
    <2>4. /\ "item" \notin Plain /\ ops \cap Redirect = {}
          /\ "inventorySetQuantities" \notin ops /\ tool # "set_inventory"
      BY <1>10 DEF Plain, Redirect
    <2> HIDE DEF s, ops, a
    <2> QED BY <2>1, <2>2, <2>3, <2>4, GoodWhen DEF s
  <1>11. CASE tool = "upload_image"
    <2> DEFINE ops == {"stagedUploadsCreate", "fileCreate"}
               a   == g
    <2>1. Planned(s, Plain \cup {"poll"}, ops, a) /\ PollsLast(s)
      BY <1>11, UploadImagePlan DEF Plan
    <2>2. a \subseteq Shown(tool, g) \cup {"tracking"} /\ Shown(tool, g) \subseteq a
      BY <1>11 DEF Shown, Optional
    <2>3. PollsLast(s) /\ ItemsLast(s)
      BY <2>1, PlainOrder DEF Plain
    <2>4. /\ "item" \notin Plain \cup {"poll"} /\ ops \cap Redirect = {}
          /\ "inventorySetQuantities" \notin ops /\ tool # "set_inventory"
      BY <1>11 DEF Plain, Redirect
    <2> HIDE DEF s, ops, a
    <2> QED BY <2>1, <2>2, <2>3, <2>4, GoodWhen DEF s
  <1>12. CASE tool = "redirects"
    <2> DEFINE ops == Redirect
               a   == g
    <2>1. Planned(s, {"check", "read", "preview", "item"}, ops, a) /\ ItemsLast(s)
      BY <1>12, RedirectsPlan DEF Plan
    <2>2. a \subseteq Shown(tool, g) \cup {"tracking"} /\ Shown(tool, g) \subseteq a
      BY <1>12 DEF Shown, Optional
    <2>3. PollsLast(s) /\ ItemsLast(s)
      BY <2>1, PlainOrder DEF Plain
    <2>4. /\ {"check", "read", "preview", "item"} \cap {"write", "create"} = {}
          /\ ops \subseteq Redirect /\ "inventorySetQuantities" \notin ops /\ tool # "set_inventory"
      BY <1>12 DEF Redirect
    <2> HIDE DEF s, ops, a
    <2> QED BY <2>1, <2>2, <2>3, <2>4, GoodWhen DEF s
  <1>13. CASE tool = "set_inventory"
    <2> DEFINE ops == {"inventorySetQuantities"}
               a   == {"quantity"}
    <2>1. Planned(s, {"read", "preview", "write", "confirm"}, ops, a)
      BY <1>13, SetInventoryPlan DEF Plan
    <2>2. a \subseteq Shown(tool, g) \cup {"tracking"} /\ Shown(tool, g) \subseteq a
      BY <1>13 DEF Shown, Optional
    <2>3. PollsLast(s) /\ ItemsLast(s)
      BY <2>1, PlainOrder DEF Plain
    <2>4. /\ "item" \notin {"read", "preview", "write", "confirm"} /\ ops \cap Redirect = {}
          /\ {"read", "preview", "write", "confirm"} \cap Mutating = {"write"}
          /\ ops = {"inventorySetQuantities"}
      BY DEF Redirect, Mutating
    <2> HIDE DEF s, ops, a
    <2> QED BY <1>13, <2>1, <2>2, <2>3, <2>4, GoodWhen DEF s
  <1> QED BY <1>0, <1>1, <1>2, <1>3, <1>4, <1>5, <1>6, <1>7, <1>8, <1>9, <1>10, <1>11, <1>12, <1>13

-----------------------------------------------------------------------------
(* What holds of every call.                                                  *)

MutationOf(i) == <<Steps[i].op, Steps[i].n>>
MutatingSteps == {i \in DOMAIN Steps : Steps[i].do \in Mutating}

\* The steps of the plan that the call has done: those before at, and with a
\* mutation whose answer had no ID the last one, too.
Over == {i \in MutatingSteps : i < at \/ (i = at /\ ~Running)}

Inventory == <<"inventorySetQuantities", 0>>

\* The completed mutations and the redirects with an outcome are of steps the call
\* is past, and no step is passed without.
Progress ==
    /\ \A m \in ToSet(completed) : HasRun(m) /\ \E i \in Over : m = MutationOf(i)
    /\ \A r \in Items : items[r] # "none" => \E i \in Over : i < at /\ r = MutationOf(i)
    /\ \A r \in Items : items[r] = "applied" => r \in ToSet(completed)
    /\ \A i \in MutatingSteps : i < at =>
         \/ Steps[i].do # "item" /\ MutationOf(i) \in ToSet(completed)
         \/ Steps[i].do = "item" /\ items[MutationOf(i)] # "none"

\* What ran or may still run is known to be done, or open, or was not answered.
Known ==
    \A m \in Mutations : MayHaveRun(m) =>
      \/ m \in doubtful
      \/ m \in ToSet(completed)
      \/ m \in Items /\ items[m] = "unknown"
      \/ /\ reply.kind = "error" /\ reply.outcome \in {"unknown", "rejected_or_partial"}
         /\ at \in MutatingSteps /\ m = Mutation
      \/ OwnKey(m) /\ calls > 1

\* A redirect that was rejected did not run, unless it was not answered.
RejectedNotRun == \A r \in Items : items[r] = "rejected" /\ r \notin doubtful => ~MayHaveRun(r)

\* Keys: a used key is that of a change that ran, the caller's own stays the same.
KeysUsed ==
    /\ keys # {} => HasRun(Inventory)
    /\ "idempotencyKey" \in args.given /\ HasRun(Inventory) => <<"caller", 0>> \in keys
    /\ \A l \in late : OwnKey(l[1]) => l[2] = <<"caller", 0>>

\* Nothing runs twice, now or later, but what was not answered or has a key.
RunsOnceMore ==
    /\ \A i, j \in DOMAIN ran : i # j /\ ran[i] = ran[j] => ran[i] \in doubtful /\ ~OwnKey(ran[i])
    /\ \A l \in late : HasRun(l[1]) => l[1] \in doubtful \/ OwnKey(l[1])
    /\ \A l, k \in late : l # k /\ l[1] = k[1] => l[1] \in doubtful \/ OwnKey(l[1])

\* A dry run is the first call; it has not passed its preview and sent nothing.
DryRunSendsNothing ==
    args.dryRun =>
      /\ ran = <<>> /\ late = {} /\ completed = <<>>
      /\ \A i \in DOMAIN Steps : i < at => Steps[i].do # "preview"

\* What the answer says of the whole call.
AnswerTrue ==
    /\ reply.kind = "none" => reply = NoReply
    /\ reply.kind = "preview" => args.dryRun
    /\ reply.kind = "error" =>
         /\ completed # <<>> => reply.notice
         /\ \A r \in Items : items[r] = "none"
    /\ reply.kind = "result" =>
         /\ at = Len(Steps) + 1
         /\ Named \ reply.items \subseteq {r \in Items : items[r] = "applied"}
         /\ reply.status = DeriveStatus({items[r] : r \in Named})

ShownWhole == shown \in {Shown(args.tool, args.given), {}}

CallInv ==
    /\ TypeOK /\ Progress /\ Known /\ RejectedNotRun /\ KeysUsed /\ RunsOnceMore
    /\ DryRunSendsNothing /\ AnswerTrue /\ ShownWhole /\ ~clobbered

-----------------------------------------------------------------------------
(* The plan of the call.                                                      *)

\* A mutation appended to a list without repetition that lacks it.
LEMMA AppendedTo ==
    ASSUME NEW S, NEW s \in Seq(S), NEW e \in S
    PROVE  /\ Append(s, e) \in Seq(S) /\ ToSet(Append(s, e)) = ToSet(s) \cup {e}
           /\ DOMAIN s = 1..Len(s) /\ Len(s) \in Nat
           /\ DOMAIN Append(s, e) = DOMAIN s \cup {Len(s) + 1}
           /\ Append(s, e)[Len(s) + 1] = e
           /\ \A i \in DOMAIN s : Append(s, e)[i] = s[i]
           /\ Append(s, e) # <<>>
  <1>1. /\ Append(s, e) \in Seq(S) /\ DOMAIN s = 1..Len(s) /\ Len(s) \in Nat
        /\ Len(Append(s, e)) = Len(s) + 1
    OBVIOUS
  <1>2. DOMAIN Append(s, e) = 1..(Len(s) + 1)
    BY <1>1
  <1>3. Append(s, e)[Len(s) + 1] = e /\ \A i \in DOMAIN s : Append(s, e)[i] = s[i]
    BY <1>1, <1>2
  <1>4. DOMAIN Append(s, e) = DOMAIN s \cup {Len(s) + 1}
    BY <1>1, <1>2
  <1>5. ToSet(Append(s, e)) = ToSet(s) \cup {e}
    BY <1>3, <1>4 DEF ToSet
  <1>6. Append(s, e) # <<>>
    BY <1>1
  <1> QED BY <1>1, <1>3, <1>4, <1>5, <1>6

\* What the arguments of a call name.
LEMMA ArgumentsAre ==
    ASSUME args \in Arguments
    PROVE  /\ args.tool \in Tools /\ args.given \in SUBSET Optional[args.tool]
           /\ args.dryRun \in BOOLEAN
           /\ args = [tool |-> args.tool, dryRun |-> args.dryRun, given |-> args.given,
                      from |-> args.from, to |-> args.to]
           /\ args.from \in (IF args.tool = "set_inventory" THEN Quantities ELSE {0})
           /\ args.to \in (IF args.tool = "set_inventory" THEN Quantities ELSE {0})
  <1>1. PICK t \in Tools :
          args \in [tool : {t}, dryRun : BOOLEAN, given : SUBSET Optional[t],
                    from : IF t = "set_inventory" THEN Quantities ELSE {0},
                    to   : IF t = "set_inventory" THEN Quantities ELSE {0}]
    BY DEF Arguments
  <1> HIDE DEF Tools, Optional
  <1>2. PICK q : q = IF t = "set_inventory" THEN Quantities ELSE {0}
    OBVIOUS
  <1>3. PICK o : o = Optional[t]
    OBVIOUS
  <1>4. args \in [tool : {t}, dryRun : BOOLEAN, given : SUBSET o, from : q, to : q]
    BY <1>1, <1>2, <1>3
  <1>5. /\ args.tool = t /\ args.dryRun \in BOOLEAN /\ args.given \in SUBSET o
        /\ args.from \in q /\ args.to \in q
        /\ args = [tool |-> args.tool, dryRun |-> args.dryRun, given |-> args.given,
                   from |-> args.from, to |-> args.to]
    BY <1>4
  <1> QED BY <1>2, <1>3, <1>5

\* GoodPlan, of the call's own plan and the mutations of it.
LEMMA PlanOfCall ==
    ASSUME args \in Arguments
    PROVE  /\ Len(Steps) \in Nat /\ DOMAIN Steps = 1..Len(Steps)
           /\ MutatingSteps \subseteq DOMAIN Steps
           /\ Mutations = {MutationOf(i) : i \in MutatingSteps}
           /\ \A i, j \in MutatingSteps : MutationOf(i) = MutationOf(j) => i = j
           /\ \A i \in MutatingSteps :
                /\ MutationOf(i) \in Items <=> Steps[i].do = "item"
                /\ IsInventory(MutationOf(i)) =>
                     MutationOf(i) = Inventory /\ Steps[i].do = "write" /\ args.tool = "set_inventory"
                /\ args.tool = "set_inventory" => IsInventory(MutationOf(i))
           /\ \A i \in DOMAIN Steps : i \in MutatingSteps \/ Steps[i].do = "poll" =>
                \E j \in DOMAIN Steps : j < i /\ Steps[j].do = "preview"
           /\ \A i, j \in DOMAIN Steps :
                /\ Steps[i].do = "poll" /\ j \in MutatingSteps => j < i
                /\ Steps[i].do = "item" /\ i < j => Steps[j].do = "item"
           /\ \A i \in DOMAIN Steps : Steps[i].with \subseteq Shown(args.tool, args.given) \cup {"tracking"}
           /\ \A x \in Shown(args.tool, args.given) : \E i \in MutatingSteps : x \in Steps[i].with
  <1> DEFINE s == Steps
             g == Shown(args.tool, args.given)
  <1>1. GoodPlan(args.tool, args.given)
    BY ArgumentsAre, PlanGood
  <1>2. /\ Sequence(s) /\ Unique(s) /\ Previewed(s) /\ PollsLast(s) /\ ItemsLast(s)
        /\ \A i \in DOMAIN s :
             /\ Numbered(s[i])
             /\ s[i].do = "item" => s[i].op \in Redirect
             /\ s[i].do \in {"write", "create"} => s[i].op \notin Redirect
             /\ s[i].do \in Mutating /\ s[i].op = "inventorySetQuantities" =>
                  s[i].do = "write" /\ args.tool = "set_inventory"
             /\ args.tool = "set_inventory" /\ s[i].do \in Mutating =>
                  s[i].op = "inventorySetQuantities"
             /\ s[i].with \subseteq g \cup {"tracking"}
        /\ \A x \in g : \E i \in DOMAIN s : s[i].do \in Mutating /\ x \in s[i].with
    BY <1>1 DEF GoodPlan, Steps
  <1> HIDE DEF s, g
  <1>3. Len(s) \in Nat /\ DOMAIN s = 1..Len(s)
    BY <1>2, LenProperties DEF Sequence
  <1>4. Steps = s /\ Shown(args.tool, args.given) = g
    BY DEF s, g
  <1>5. \A i : MutationOf(i) = <<s[i].op, s[i].n>>
    BY <1>4 DEF MutationOf
  <1>6. MutatingSteps = {i \in DOMAIN s : s[i].do \in Mutating}
    BY <1>4 DEF MutatingSteps
  <1>7. Mutations = {MutationOf(i) : i \in MutatingSteps}
    BY <1>4, <1>5, <1>6 DEF Mutations, Mutating
  <1>8. \A i, j \in MutatingSteps : MutationOf(i) = MutationOf(j) => i = j
    BY <1>2, <1>5, <1>6 DEF Unique
  <1>9. \A i \in MutatingSteps : MutationOf(i) \in Items <=> s[i].do = "item"
    BY <1>2, <1>5, <1>6 DEF Items, Redirect, Numbered, Mutating
  <1>10. \A i \in MutatingSteps :
           /\ IsInventory(MutationOf(i)) =>
                MutationOf(i) = Inventory /\ s[i].do = "write" /\ args.tool = "set_inventory"
           /\ args.tool = "set_inventory" => IsInventory(MutationOf(i))
    BY <1>2, <1>5, <1>6 DEF IsInventory, Inventory, Numbered
  <1>11. /\ \A i \in DOMAIN s : i \in MutatingSteps \/ s[i].do = "poll" =>
              \E j \in DOMAIN s : j < i /\ s[j].do = "preview"
         /\ \A i, j \in DOMAIN s :
              /\ s[i].do = "poll" /\ j \in MutatingSteps => j < i
              /\ s[i].do = "item" /\ i < j => s[j].do = "item"
    BY <1>2, <1>6 DEF Previewed, PollsLast, ItemsLast
  <1>12. /\ \A i \in DOMAIN s : s[i].with \subseteq g \cup {"tracking"}
         /\ \A x \in g : \E i \in MutatingSteps : x \in s[i].with
    BY <1>2, <1>6
  <1> QED BY <1>3, <1>4, <1>6, <1>7, <1>8, <1>9, <1>10, <1>11, <1>12

\* A call keeps its plan.
LEMMA PlanStays ==
    ASSUME args'.tool = args.tool, args'.given = args.given
    PROVE  /\ Steps' = Steps /\ MutatingSteps' = MutatingSteps /\ Mutations' = Mutations
           /\ \A i : MutationOf(i)' = MutationOf(i)
           /\ \A m : OwnKey(m)' <=> OwnKey(m)
           /\ Shown(args.tool, args.given)' = Shown(args.tool, args.given)
  <1>1. Steps' = Steps
    BY DEF Steps
  <1>2. MutatingSteps' = MutatingSteps /\ Mutations' = Mutations
    BY <1>1 DEF MutatingSteps, Mutations
  <1>3. \A i : MutationOf(i)' = MutationOf(i)
    BY <1>1 DEF MutationOf
  <1>4. \A m : OwnKey(m)' <=> OwnKey(m)
    BY DEF OwnKey
  <1> QED BY <1>1, <1>2, <1>3, <1>4

-----------------------------------------------------------------------------
(* The steps of a call, by what they change.                                  *)

\* The step of the plan that the call is at does what its request makes of it.
StepsQuietly ==
    /\ Running /\ at \in DOMAIN Steps \ MutatingSteps
    /\ args.dryRun => Steps[at].do # "preview"
    /\ Advance(completed) /\ UNCHANGED <<shop, calls, shown, doubtful>>

EndsQuietly ==
    /\ Running
    /\ at = 1 \/ (at \in DOMAIN Steps /\ Steps[at].do # "item")
    /\ \E outcome \in Outcomes : Fail(outcome, completed)
    /\ Idle

ShowsPreview ==
    /\ Running /\ args.dryRun
    /\ reply' \in Fitted([NoReply EXCEPT !.kind = "preview"])
    /\ shown' \in {Shown(args.tool, args.given), {}}
    /\ UNCHANGED <<args, at, completed, items, shop, calls, doubtful>>

\* What a mutation that Shopify runs now finds.
RunsNow ==
    /\ Accepts(Mutation) \/ IdempotencyKey \in keys \/ ~IsInventory(Mutation)
    /\ Run(Mutation, IdempotencyKey)

Sends ==
    /\ Running /\ at \in MutatingSteps /\ UNCHANGED <<args, calls, shown>>
    /\ \/ NotRun /\ late' \in {late, late \cup {<<Mutation, IdempotencyKey>>}}
       \/ RunsNow /\ UNCHANGED late
    /\ doubtful' \in {doubtful, doubtful \cup {Mutation}}

Completes ==
    /\ RunsNow
    /\ \/ Steps[at].do # "item" /\ Advance(Append(completed, Mutation))
       \/ Steps[at].do # "item" /\ Fail("none", Append(completed, Mutation))
       \/ Steps[at].do = "item" /\ ItemIs("applied") /\ completed' = Append(completed, Mutation)

LeavesOpen ==
    /\ UNCHANGED completed
    /\ \/ /\ Steps[at].do # "item"
          /\ \E outcome \in Outcomes :
               /\ Fail(outcome, completed)
               /\ outcome \in {"unknown", "rejected_or_partial"} \/ Mutation \in doubtful'
       \/ Steps[at].do = "item" /\ ItemIs("unknown")
       \/ /\ Steps[at].do = "item" /\ ItemIs("rejected")
          /\ Mutation \in doubtful' \/ (NotRun /\ UNCHANGED late)

\* Others change what the store holds.
Elsewhere ==
    /\ quantity' \in Quantities \cup {0}
    /\ UNCHANGED <<call, late, ran, keys, clobbered, calls, shown, doubtful>>

OtherStep ==
    \/ StepsQuietly \/ EndsQuietly \/ ShowsPreview \/ FileReady \/ Finish
    \/ \E l \in late : RunLate(l[1], l[2])
    \/ Elsewhere \/ Apply \/ Again

CallStep == OtherStep \/ (Sends /\ (Completes \/ LeavesOpen))

\* Every step of a call is of one of the classes above.
LEMMA CallSteps ==
    ASSUME TypeOK, Next
    PROVE  CallStep
  <1>0. /\ at \in 1..(Len(Steps) + 1) /\ Len(Steps) \in Nat /\ DOMAIN Steps = 1..Len(Steps)
        /\ MutatingSteps = {i \in DOMAIN Steps : Steps[i].do \in Mutating}
    BY PlanOfCall DEF TypeOK, MutatingSteps
  <1>1. \A kinds : Doing(kinds) =>
          /\ Running /\ at \in DOMAIN Steps /\ Steps[at].do \in kinds
          /\ at \in MutatingSteps <=> Steps[at].do \in Mutating
    BY <1>0 DEF Doing
  <1>2. /\ {"none", "failed", "unknown", "rejected_or_partial"} \subseteq Outcomes
        /\ \A do : Thrown(do) \in {"unknown", "failed"} /\ WithErrors(do) \in {"rejected_or_partial", "failed"}
        /\ \A do \in Mutating : Thrown(do) = "unknown" /\ WithErrors(do) = "rejected_or_partial"
    BY DEF Outcomes, Thrown, WithErrors, Mutating
  <1> HIDE DEF MutatingSteps, Steps, Outcomes
  <1>3. CASE NoStore
    BY <1>3, <1>2 DEF NoStore, EndsQuietly, CallStep, OtherStep
  <1>4. CASE NoLegacySchema
    BY <1>4, <1>1, <1>2 DEF NoLegacySchema, EndsQuietly, CallStep, OtherStep
  <1>5. CASE CheckArguments
    <2>1. CASE Conflict(args.tool, args.given)
      BY <2>1, <1>5, <1>1, <1>2 DEF CheckArguments, EndsQuietly, CallStep, OtherStep
    <2>2. CASE ~Conflict(args.tool, args.given)
      BY <2>2, <1>5, <1>1 DEF CheckArguments, StepsQuietly, Idle, CallStep, OtherStep, Mutating
    <2> QED BY <2>1, <2>2
  <1>6. CASE ShowPreview
    <2>1. CASE args.dryRun
      BY <2>1, <1>6, <1>1 DEF ShowPreview, ShowsPreview, CallStep, OtherStep
    <2>2. CASE ~args.dryRun
      BY <2>2, <1>6, <1>1 DEF ShowPreview, StepsQuietly, CallStep, OtherStep, Mutating, Idle
    <2> QED BY <2>1, <2>2
  <1>7. CASE ReadPasses
    BY <1>7, <1>1 DEF ReadPasses, StepsQuietly, CallStep, OtherStep, Mutating
  <1>8. CASE ReadDoesNotPass
    BY <1>8, <1>1, <1>2 DEF ReadDoesNotPass, EndsQuietly, CallStep, OtherStep
  <1>9. CASE ReadFails
    BY <1>9, <1>1, <1>2 DEF ReadFails, EndsQuietly, CallStep, OtherStep
  <1>10. CASE FileProcessing
    BY <1>10, <1>1 DEF FileProcessing, StepsQuietly, Idle, CallStep, OtherStep, Mutating
  <1>11. CASE Answered
    <2>1. Running /\ at \in MutatingSteps /\ Steps[at].do # "item" /\ RunsNow
      BY <1>11, <1>1 DEF Answered, Mutating, RunsNow
    <2>2. Sends
      BY <1>11, <2>1 DEF Answered, Sends, Advance
    <2> QED BY <2>1, <2>2, <1>11 DEF Answered, Completes, CallStep, OtherStep
  <1>12. CASE WithoutId
    <2>1. Running /\ at \in MutatingSteps /\ Steps[at].do = "create"
      BY <1>12, <1>1 DEF WithoutId, Mutating
    <2>2. ~IsInventory(Mutation)
      BY <2>1, PlanOfCall DEF Mutation, MutationOf, TypeOK
    <2>3. RunsNow
      BY <1>12, <2>2 DEF WithoutId, RunsNow
    <2>4. Sends
      BY <1>12, <2>1, <2>3 DEF WithoutId, Sends, Fail
    <2> QED BY <2>1, <2>3, <2>4, <1>12 DEF WithoutId, Completes, CallStep, OtherStep
  <1>13. CASE Rejected
    <2>1. Running /\ at \in MutatingSteps /\ Steps[at].do # "item" /\ Steps[at].do \in Mutating
      BY <1>13, <1>1 DEF Rejected, Mutating
    <2>2. Sends
      BY <1>13, <2>1 DEF Rejected, Sends, Fail, MayRun, RunsNow
    <2>3. LeavesOpen
      BY <1>13, <2>1, <1>2 DEF Rejected, LeavesOpen, Fail
    <2> QED BY <2>2, <2>3 DEF CallStep, OtherStep
  <1>14. CASE NoData
    <2>1. Running /\ at \in MutatingSteps /\ Steps[at].do # "item"
      BY <1>14, <1>1 DEF NoData, Mutating
    <2>2. Sends
      BY <1>14, <2>1 DEF NoData, Sends, Fail, MayRun, RunsNow
    <2>3. LeavesOpen
      BY <1>14, <2>1, <1>2 DEF NoData, LeavesOpen, Fail
    <2> QED BY <2>2, <2>3 DEF CallStep, OtherStep
  <1>15. CASE Invalid
    BY <1>15, <1>1, <1>2 DEF Invalid, EndsQuietly, CallStep, OtherStep
  <1>16. CASE GiveUp
    <2>1. Running /\ at \in MutatingSteps /\ Steps[at].do # "item" /\ Steps[at].do \in Mutating
      BY <1>16, <1>1 DEF GiveUp, Mutating
    <2>2. Sends
      BY <1>16, <2>1 DEF GiveUp, Sends, Fail
    <2>3. LeavesOpen
      BY <1>16, <2>1, <1>2 DEF GiveUp, LeavesOpen, Fail
    <2> QED BY <2>2, <2>3 DEF CallStep, OtherStep
  <1>17. ASSUME Doing({"item"})
         PROVE  /\ Running /\ at \in MutatingSteps /\ Steps[at].do = "item"
                /\ ~IsInventory(Mutation)
    <2>1. Running /\ at \in MutatingSteps /\ Steps[at].do = "item"
      BY <1>17, <1>1 DEF Mutating
    <2>2. ~IsInventory(Mutation)
      BY <2>1, PlanOfCall DEF Mutation, MutationOf, TypeOK
    <2> QED BY <2>1, <2>2
  <1>18. CASE ItemApplied
    <2>1. RunsNow
      BY <1>17, <1>18 DEF ItemApplied, RunsNow
    <2>2. Sends
      BY <1>17, <1>18, <2>1 DEF ItemApplied, Sends, ItemIs
    <2>3. Completes
      BY <1>17, <1>18, <2>1 DEF ItemApplied, Completes
    <2> QED BY <2>2, <2>3 DEF CallStep, OtherStep
  <1>19. CASE ItemRejected
    <2>1. Sends
      BY <1>17, <1>19 DEF ItemRejected, MayHaveApplied, Sends, ItemIs, RunsNow
    <2>2. FailedItem(WithErrors("item")) = "rejected"
      BY DEF FailedItem, WithErrors
    <2>3. LeavesOpen
      BY <1>17, <1>19, <2>2 DEF ItemRejected, MayHaveApplied, LeavesOpen
    <2> QED BY <2>1, <2>3 DEF CallStep, OtherStep
  <1>20. CASE ItemWithoutOutcome
    <2>1. Sends
      BY <1>17, <1>20 DEF ItemWithoutOutcome, MayHaveApplied, Sends, ItemIs, RunsNow
    <2>2. FailedItem("none") = "rejected"
      BY DEF FailedItem
    <2>3. LeavesOpen
      BY <1>17, <1>20, <2>2 DEF ItemWithoutOutcome, MayHaveApplied, LeavesOpen
    <2> QED BY <2>1, <2>3 DEF CallStep, OtherStep
  <1>21. CASE ItemGivenUp
    <2>1. Sends
      BY <1>17, <1>21 DEF ItemGivenUp, Sends, ItemIs
    <2>2. FailedItem(Thrown("item")) = "unknown"
      BY DEF FailedItem, Thrown
    <2>3. LeavesOpen
      BY <1>17, <1>21, <2>2 DEF ItemGivenUp, LeavesOpen
    <2> QED BY <2>1, <2>3 DEF CallStep, OtherStep
  <1>22. CASE Restock \/ OthersEdit
    <2>1. quantity \in Quantities \cup {0}
      BY DEF TypeOK
    <2>2. Elsewhere
      BY <1>22, <2>1 DEF Restock, OthersEdit, Elsewhere, shop
    <2> QED BY <2>2 DEF CallStep, OtherStep
  <1> QED BY <1>3, <1>4, <1>5, <1>6, <1>7, <1>8, <1>9, <1>10, <1>11, <1>12, <1>13, <1>14, <1>15,
             <1>16, <1>18, <1>19, <1>20, <1>21, <1>22 DEF Next, CallStep, OtherStep

-----------------------------------------------------------------------------
(* Answers.                                                                   *)

Replies == [kind : {"none", "preview", "error", "result"}, outcome : Outcomes, status : Statuses,
            listed : BOOLEAN, items : SUBSET Items, notice : BOOLEAN]

\* What is left of an answer that is cut.
LEMMA FittedIs ==
    ASSUME NEW r \in Replies, NEW q \in Fitted(r)
    PROVE  /\ q.kind = r.kind /\ q.outcome = r.outcome /\ q.status = r.status
           /\ q.notice = r.notice /\ q.listed \in BOOLEAN
           /\ q.items = r.items \/ q.items = {x \in r.items : items[x] # "applied"}
  <1> DEFINE s == {x \in r.items : items[x] # "applied"}
  <1>1. /\ r.kind \in {"none", "preview", "error", "result"} /\ r.outcome \in Outcomes
        /\ r.listed \in BOOLEAN
    BY DEF Replies
  <1>2. CASE q = r
    BY <1>1, <1>2
  <1>3. CASE q = [r EXCEPT !.items = s]
    BY <1>1, <1>3 DEF Replies
  <1>4. CASE q = [r EXCEPT !.items = s, !.listed = FALSE]
    BY <1>1, <1>4 DEF Replies
  <1> QED BY <1>2, <1>3, <1>4 DEF Fitted

\* What ending with an error leaves.
LEMMA FailIs ==
    ASSUME NEW outcome \in Outcomes, NEW done, Fail(outcome, done)
    PROVE  /\ completed' = done /\ UNCHANGED <<args, at, items>>
           /\ reply'.kind = "error" /\ reply'.items = {} /\ reply'.listed \in BOOLEAN
           /\ reply'.status \in Statuses
           /\ reply'.notice <=> (outcome = "unknown" \/ done # <<>>)
           /\ reply'.notice \in BOOLEAN
           /\ reply'.outcome \in Outcomes
           /\ outcome # "none" => reply'.outcome = outcome
  <1> DEFINE o == IF outcome # "none" THEN outcome
                  ELSE IF done # <<>> THEN "partial" ELSE "none"
             n == outcome = "unknown" \/ done # <<>>
             r == [NoReply EXCEPT !.kind = "error", !.listed = TRUE, !.outcome = o, !.notice = n]
  <1>1. o \in Outcomes /\ (outcome # "none" => o = outcome)
    BY DEF Outcomes
  <1>2. reply' \in Fitted(r)
    BY DEF Fail
  <1>3. /\ reply'.kind = "error" /\ reply'.outcome = o /\ reply'.status = "ok" /\ reply'.notice = n
        /\ reply'.listed \in BOOLEAN
        /\ reply'.items = {} \/ reply'.items = {x \in {} : items[x] # "applied"}
    <2>1. n \in BOOLEAN
      OBVIOUS
    <2> HIDE DEF o, n
    <2>2. /\ r \in Replies /\ r.kind = "error" /\ r.outcome = o /\ r.status = "ok" /\ r.notice = n
          /\ r.items = {}
      BY <1>1, <2>1 DEF NoReply, Replies, Statuses
    <2> HIDE DEF r
    <2> QED BY <1>2, <2>2, FittedIs
  <1>5. reply'.items = {}
    BY <1>3
  <1>6. n \in BOOLEAN
    OBVIOUS
  <1>7. completed' = done /\ UNCHANGED <<args, at, items>>
    BY DEF Fail
  <1>8. reply'.notice <=> (outcome = "unknown" \/ done # <<>>)
    BY <1>3, <1>6
  <1> HIDE DEF o, n
  <1> QED BY <1>1, <1>3, <1>5, <1>6, <1>7, <1>8 DEF Statuses

\* The result: what it names, and the status of what it does not.
LEMMA FinishIs ==
    ASSUME Finish
    PROVE  /\ UNCHANGED <<args, at, completed, items, shop, calls, shown, doubtful>>
           /\ Running /\ at > Len(Steps)
           /\ reply'.kind = "result" /\ reply'.outcome = "none" /\ reply'.listed \in BOOLEAN
           /\ reply'.status = DeriveStatus({items[i] : i \in Named})
           /\ reply'.status \in Statuses /\ reply'.notice \in BOOLEAN
           /\ reply'.items \subseteq Items
           /\ Named \ reply'.items \subseteq {r \in Items : items[r] = "applied"}
  <1>1. PICK s : s = DeriveStatus({items[i] : i \in Named})
    OBVIOUS
  <1>2. PICK n : n = (s \in {"unknown", "partial"})
    OBVIOUS
  <1> DEFINE r == [NoReply EXCEPT !.kind = "result", !.listed = TRUE, !.items = Named,
                                  !.status = s, !.notice = n]
  <1>3. Named \subseteq Items /\ s \in Statuses /\ n \in BOOLEAN
    BY <1>1, <1>2 DEF Named, DeriveStatus, Statuses
  <1>4. reply' \in Fitted(r)
    BY <1>1, <1>2 DEF Finish
  <1>5. /\ r \in Replies /\ r.kind = "result" /\ r.outcome = "none" /\ r.status = s /\ r.notice = n
        /\ r.items = Named
    BY <1>3 DEF NoReply, Replies, Outcomes
  <1> HIDE DEF r
  <1>6. /\ reply'.kind = "result" /\ reply'.outcome = "none" /\ reply'.status = s
        /\ reply'.notice = n /\ reply'.listed \in BOOLEAN
        /\ reply'.items = Named \/ reply'.items = {x \in Named : items[x] # "applied"}
    BY <1>4, <1>5, FittedIs
  <1>7. /\ reply'.items \subseteq Items
        /\ Named \ reply'.items \subseteq {x \in Items : items[x] = "applied"}
    BY <1>3, <1>6
  <1>8. UNCHANGED <<args, at, completed, items, shop, calls, shown, doubtful>> /\ Running /\ at > Len(Steps)
    BY DEF Finish, Idle
  <1> QED BY <1>1, <1>3, <1>6, <1>7, <1>8

\* What showing the preview leaves.
LEMMA PreviewIs ==
    ASSUME ShowsPreview
    PROVE  /\ reply'.kind = "preview" /\ reply'.outcome = "none" /\ reply'.status = "ok"
           /\ reply'.listed \in BOOLEAN /\ reply'.notice = FALSE /\ reply'.items = {}
  <1> DEFINE r == [NoReply EXCEPT !.kind = "preview"]
  <1>1. /\ r \in Replies /\ r.kind = "preview" /\ r.outcome = "none" /\ r.status = "ok"
        /\ r.notice = FALSE /\ r.items = {}
    BY DEF NoReply, Replies, Outcomes, Statuses
  <1>2. reply' \in Fitted(r)
    BY DEF ShowsPreview
  <1> HIDE DEF r
  <1>3. /\ reply'.kind = "preview" /\ reply'.outcome = "none" /\ reply'.status = "ok"
        /\ reply'.notice = FALSE /\ reply'.listed \in BOOLEAN
        /\ reply'.items = {} \/ reply'.items = {x \in {} : items[x] # "applied"}
    BY <1>1, <1>2, FittedIs
  <1>4. reply'.items = {}
    BY <1>3
  <1> QED BY <1>3, <1>4

-----------------------------------------------------------------------------
(* Types.                                                                     *)

\* A mutation that Shopify runs.
LEMMA RunIs ==
    ASSUME TypeOK, NEW m \in Mutations, NEW key, Run(m, key)
    PROVE  /\ ran' \in Seq(Mutations)
           /\ quantity' \in Quantities \cup {0} /\ clobbered' \in BOOLEAN
           /\ \A x : HasRun(x)' <=> HasRun(x) \/ (x = m /\ ~(IsInventory(m) /\ key \in keys))
           /\ keys' \in {keys, keys \cup {key}}
  <1>1. ran \in Seq(Mutations) /\ quantity \in Quantities \cup {0} /\ clobbered \in BOOLEAN
    BY DEF TypeOK
  <1>2. args.to \in Quantities \cup {0}
    BY ArgumentsAre DEF TypeOK
  <1>3. CASE IsInventory(m) /\ key \in keys
    BY <1>1, <1>3 DEF Run, HasRun
  <1>4. CASE ~(IsInventory(m) /\ key \in keys)
    <2>1. /\ ran' = Append(ran, m)
          /\ IF IsInventory(m)
             THEN /\ quantity' = args.to /\ keys' = keys \cup {key}
                  /\ clobbered' = (clobbered \/ quantity # args.from)
             ELSE UNCHANGED <<quantity, keys, clobbered>>
      BY <1>4 DEF Run
    <2>2. ran' \in Seq(Mutations) /\ ToSet(ran') = ToSet(ran) \cup {m}
      <3>1. PICK M : M = Mutations
        OBVIOUS
      <3>2. Append(ran, m) \in Seq(M) /\ ToSet(Append(ran, m)) = ToSet(ran) \cup {m}
        BY <3>1, <1>1, AppendedTo
      <3> QED BY <3>1, <3>2, <2>1
    <2>3. \A x : HasRun(x)' <=> HasRun(x) \/ x = m
      BY <2>2 DEF HasRun
    <2>4. quantity' \in Quantities \cup {0} /\ keys' \in {keys, keys \cup {key}}
      BY <1>1, <1>2, <2>1
    <2>5. clobbered' \in BOOLEAN
      BY <1>1, <2>1
    <2> QED BY <2>2, <2>3, <2>4, <2>5, <1>4
  <1> QED BY <1>3, <1>4

\* What a mutation changes, whether Shopify runs it or not.
LEMMA MayRunIs ==
    ASSUME TypeOK, NEW m \in Mutations, NEW key, NotRun \/ Run(m, key)
    PROVE  /\ ran' \in Seq(Mutations)
           /\ quantity' \in Quantities \cup {0} /\ clobbered' \in BOOLEAN
           /\ \A x : HasRun(x) => HasRun(x)'
           /\ \A x : HasRun(x)' => HasRun(x) \/ x = m
  <1>1. CASE NotRun
    BY <1>1 DEF NotRun, TypeOK, HasRun
  <1>2. CASE Run(m, key)
    BY <1>2, RunIs
  <1> QED BY <1>1, <1>2

\* The mutation that a call sends, and what becomes of it.
LEMMA SentIs ==
    ASSUME TypeOK, Sends
    PROVE  /\ Mutation = MutationOf(at) /\ Mutation \in Mutations /\ Running
           /\ at \in DOMAIN Steps /\ at \in Nat
           /\ NotRun \/ Run(Mutation, IdempotencyKey)
           /\ args' = args
  <1>1. Mutation = MutationOf(at)
    BY DEF Mutation, MutationOf
  <1>2. at \in MutatingSteps /\ Running /\ args' = args /\ (NotRun \/ RunsNow)
    BY DEF Sends
  <1>3. args \in Arguments
    BY DEF TypeOK
  <1>4. /\ Mutations = {MutationOf(i) : i \in MutatingSteps} /\ MutatingSteps \subseteq DOMAIN Steps
        /\ Len(Steps) \in Nat /\ DOMAIN Steps = 1..Len(Steps)
    BY <1>3, PlanOfCall
  <1>5. Mutation \in Mutations
    BY <1>1, <1>2, <1>4
  <1>6. at \in DOMAIN Steps /\ at \in Nat
    BY <1>2, <1>4
  <1> QED BY <1>1, <1>2, <1>5, <1>6 DEF RunsNow

\* What applying the call, or making it again, leaves.
LEMMA CallIs ==
    ASSUME TypeOK, Apply \/ Again
    PROVE  /\ args' \in Arguments /\ args'.tool = args.tool /\ args'.given = args.given
           /\ args'.dryRun = FALSE /\ args'.from = args.from /\ args'.to = args.to
           /\ calls < MaxCalls /\ calls' = calls + 1 /\ at' = 1 /\ completed' = <<>> /\ reply' = NoReply
           /\ items' = [i \in Items |-> "none"] /\ UNCHANGED <<shop, shown, doubtful>>
  <1>1. Call(FALSE)
    BY DEF Apply, Again
  <1>2. args' = [args EXCEPT !.dryRun = FALSE]
    BY <1>1 DEF Call
  <1>3. PICK t \in Tools :
          args \in [tool : {t}, dryRun : BOOLEAN, given : SUBSET Optional[t],
                    from : IF t = "set_inventory" THEN Quantities ELSE {0},
                    to   : IF t = "set_inventory" THEN Quantities ELSE {0}]
    BY DEF TypeOK, Arguments
  <1>4. PICK q, o : q = (IF t = "set_inventory" THEN Quantities ELSE {0}) /\ o = SUBSET Optional[t]
    OBVIOUS
  <1>5. args \in [tool : {t}, dryRun : BOOLEAN, given : o, from : q, to : q]
    BY <1>3, <1>4
  <1>6. /\ args' \in [tool : {t}, dryRun : BOOLEAN, given : o, from : q, to : q]
        /\ args'.tool = args.tool /\ args'.given = args.given /\ args'.dryRun = FALSE
        /\ args'.from = args.from /\ args'.to = args.to
    BY <1>2, <1>5
  <1>7. args' \in Arguments
    BY <1>4, <1>6 DEF Arguments
  <1> QED BY <1>1, <1>6, <1>7 DEF Call

\* What a preview shows: fields, the fulfillment order, the quantity or arguments given.
LEMMA ShownType ==
    ASSUME NEW tool \in Tools, NEW g \in SUBSET Optional[tool]
    PROVE  Shown(tool, g) \subseteq {"fields", "quantity"} \cup Optional[tool]
  BY DEF Shown, Used

\* Of the type invariant, what a step of a call leaves alone.
LEMMA TypesKept ==
    ASSUME TypeOK, UNCHANGED args,
           at' \in 1..(Len(Steps) + 1), completed' \in Seq(Mutations),
           items' \in [Items -> {"none", "applied", "rejected", "unknown"}],
           reply' = reply \/ (/\ reply'.kind \in {"preview", "error", "result"}
                              /\ reply'.outcome \in Outcomes /\ reply'.status \in Statuses
                              /\ reply'.listed \in BOOLEAN /\ reply'.notice \in BOOLEAN
                              /\ reply'.items \subseteq Items),
           ran' \in Seq(Mutations), quantity' \in Quantities \cup {0}, clobbered' \in BOOLEAN,
           \A l \in late' : l \in late \/ l[1] \in Mutations,
           doubtful' \subseteq Mutations, calls' = calls,
           shown' \subseteq {"fields", "quantity"} \cup Optional[args.tool]
    PROVE  TypeOK'
  <1>1. Steps' = Steps /\ Mutations' = Mutations
    BY PlanStays
  <1>2. /\ reply'.kind \in {"none", "preview", "error", "result"}
        /\ reply'.outcome \in Outcomes /\ reply'.status \in Statuses
        /\ reply'.listed \in BOOLEAN /\ reply'.notice \in BOOLEAN /\ reply'.items \subseteq Items
    BY DEF TypeOK
  <1>3. \A l \in late' : l[1] \in Mutations'
    BY <1>1 DEF TypeOK
  <1>4. args' \in Arguments /\ calls' \in 1..MaxCalls
    BY DEF TypeOK
  <1>5. shown' \subseteq {"fields", "quantity"} \cup Optional[args'.tool]
    OBVIOUS
  <1> QED BY <1>1, <1>2, <1>3, <1>4, <1>5 DEF TypeOK

\* Every step keeps the types.
LEMMA TypesHold ==
    ASSUME TypeOK, CallStep
    PROVE  TypeOK'
  <1>0. /\ Len(Steps) \in Nat /\ DOMAIN Steps = 1..Len(Steps) /\ MutatingSteps \subseteq DOMAIN Steps
        /\ at \in 1..(Len(Steps) + 1) /\ completed \in Seq(Mutations)
        /\ items \in [Items -> {"none", "applied", "rejected", "unknown"}]
        /\ ran \in Seq(Mutations) /\ quantity \in Quantities \cup {0} /\ clobbered \in BOOLEAN
        /\ doubtful \subseteq Mutations
        /\ shown \subseteq {"fields", "quantity"} \cup Optional[args.tool]
    BY PlanOfCall DEF TypeOK
  <1> HIDE DEF Steps, Mutations, MutatingSteps
  <1>1. CASE StepsQuietly
    <2>1. UNCHANGED <<args, completed, items, reply, shop, calls, shown, doubtful>> /\ at' = at + 1
      BY <1>1 DEF StepsQuietly, Advance, Idle
    <2>2. at' \in 1..(Len(Steps) + 1)
      BY <1>0, <1>1, <2>1 DEF StepsQuietly
    <2> QED BY <1>0, <2>1, <2>2, TypesKept DEF shop
  <1>2. CASE EndsQuietly
    <2>1. PICK outcome \in Outcomes : Fail(outcome, completed)
      BY <1>2 DEF EndsQuietly
    <2>2. UNCHANGED <<shop, calls, shown, doubtful>>
      BY <1>2 DEF EndsQuietly, Idle
    <2>3. /\ completed' = completed /\ UNCHANGED <<args, at, items>>
          /\ reply'.kind = "error" /\ reply'.items = {} /\ reply'.listed \in BOOLEAN
          /\ reply'.status \in Statuses /\ reply'.notice \in BOOLEAN /\ reply'.outcome \in Outcomes
      BY <2>1, FailIs
    <2> QED BY <1>0, <2>2, <2>3, TypesKept DEF shop
  <1>3. CASE ShowsPreview
    <2>1. Shown(args.tool, args.given) \subseteq {"fields", "quantity"} \cup Optional[args.tool]
      BY ArgumentsAre, ShownType DEF TypeOK
    <2>2. shown' \subseteq {"fields", "quantity"} \cup Optional[args.tool]
      BY <1>3, <2>1 DEF ShowsPreview
    <2>3. UNCHANGED <<args, at, completed, items, shop, calls, doubtful>>
      BY <1>3 DEF ShowsPreview
    <2>4. reply'.outcome \in Outcomes /\ reply'.status \in Statuses
      BY <1>3, PreviewIs DEF Outcomes, Statuses
    <2> QED BY <1>0, <1>3, <2>2, <2>3, <2>4, PreviewIs, TypesKept DEF shop
  <1>4. CASE FileReady
    <2>1. UNCHANGED <<args, completed, items, reply, shop, calls, shown, doubtful>> /\ at' = Len(Steps) + 1
      BY <1>4 DEF FileReady, Idle
    <2>2. at' \in 1..(Len(Steps) + 1)
      BY <1>0, <2>1
    <2> QED BY <1>0, <2>1, <2>2, TypesKept DEF shop
  <1>5. CASE Finish
    <2>1. reply'.outcome \in Outcomes
      BY <1>5, FinishIs DEF Outcomes
    <2> QED BY <1>0, <1>5, <2>1, FinishIs, TypesKept DEF shop
  <1>6. CASE Sends /\ (Completes \/ LeavesOpen)
    <2>1. /\ Mutation \in Mutations /\ at \in DOMAIN Steps /\ args' = args
          /\ NotRun \/ Run(Mutation, IdempotencyKey)
      BY <1>6, SentIs
    <2>2. ran' \in Seq(Mutations) /\ quantity' \in Quantities \cup {0} /\ clobbered' \in BOOLEAN
      BY <2>1, MayRunIs
    <2>3. /\ late' \in {late, late \cup {<<Mutation, IdempotencyKey>>}}
          /\ doubtful' \in {doubtful, doubtful \cup {Mutation}} /\ UNCHANGED <<args, calls, shown>>
      BY <1>6 DEF Sends
    <2>4. (\A l \in late' : l \in late \/ l[1] \in Mutations) /\ doubtful' \subseteq Mutations
      BY <1>0, <2>1, <2>3
    <2>5. at' \in {at, at + 1} => at' \in 1..(Len(Steps) + 1)
      BY <1>0, <2>1
    <2>6. Append(completed, Mutation) \in Seq(Mutations)
      BY <1>0, <2>1
    <2>7. ASSUME NEW outcome \in Outcomes, NEW done \in Seq(Mutations), Fail(outcome, done)
          PROVE  TypeOK'
      <3>1. /\ completed' = done /\ UNCHANGED <<args, at, items>>
            /\ reply'.kind = "error" /\ reply'.items = {} /\ reply'.listed \in BOOLEAN
            /\ reply'.status \in Statuses /\ reply'.notice \in BOOLEAN /\ reply'.outcome \in Outcomes
        BY <2>7, FailIs
      <3> QED BY <1>0, <2>2, <2>3, <2>4, <3>1, TypesKept
    <2>8. ASSUME NEW outcome \in {"applied", "rejected", "unknown"}, ItemIs(outcome),
                 completed' \in Seq(Mutations)
          PROVE  TypeOK'
      <3>1. items' = [items EXCEPT ![Mutation] = outcome] /\ at' = at + 1 /\ reply' = reply
        BY <2>8 DEF ItemIs
      <3>2. items' \in [Items -> {"none", "applied", "rejected", "unknown"}]
        BY <1>0, <3>1
      <3> QED BY <1>0, <2>2, <2>3, <2>4, <2>5, <2>8, <3>1, <3>2, TypesKept
    <2>9. CASE Completes
      <3>1. CASE Advance(Append(completed, Mutation))
        <4>1. completed' = Append(completed, Mutation) /\ at' = at + 1 /\ UNCHANGED <<items, reply>>
          BY <3>1 DEF Advance
        <4> QED BY <1>0, <2>2, <2>3, <2>4, <2>5, <2>6, <4>1, TypesKept
      <3>2. CASE Fail("none", Append(completed, Mutation))
        BY <2>6, <2>7, <3>2 DEF Outcomes
      <3>3. CASE ItemIs("applied") /\ completed' = Append(completed, Mutation)
        BY <2>6, <2>8, <3>3
      <3> QED BY <2>9, <3>1, <3>2, <3>3 DEF Completes
    <2>10. CASE LeavesOpen
      <3>1. completed' = completed
        BY <2>10 DEF LeavesOpen
      <3> QED BY <1>0, <2>7, <2>8, <2>10, <3>1 DEF LeavesOpen
    <2> QED BY <1>6, <2>9, <2>10
  <1>7. CASE \E l \in late : RunLate(l[1], l[2])
    <2>1. PICK l \in late : RunLate(l[1], l[2])
      BY <1>7
    <2>2. PICK m, k : m = l[1] /\ k = l[2] /\ m \in Mutations
      BY DEF TypeOK
    <2>3. /\ late' \subseteq late
          /\ NotRun \/ Run(m, k)
          /\ UNCHANGED <<args, at, completed, items, reply, calls, shown, doubtful>>
      BY <2>1, <2>2 DEF RunLate, MayRun, call
    <2>4. ran' \in Seq(Mutations) /\ quantity' \in Quantities \cup {0} /\ clobbered' \in BOOLEAN
      BY <2>2, <2>3, MayRunIs
    <2>5. \A x \in late' : x \in late
      BY <2>3
    <2> QED BY <1>0, <2>3, <2>4, <2>5, TypesKept
  <1>8. CASE Elsewhere
    <2>1. quantity' \in Quantities \cup {0} /\ UNCHANGED <<call, late, ran, keys, clobbered, calls, shown, doubtful>>
      BY <1>8 DEF Elsewhere
    <2> QED BY <1>0, <2>1, TypesKept DEF call
  <1>9. CASE Apply \/ Again
    <2>1. /\ args' \in Arguments /\ args'.tool = args.tool /\ args'.given = args.given
          /\ calls < MaxCalls /\ calls' = calls + 1 /\ at' = 1 /\ completed' = <<>> /\ reply' = NoReply
          /\ items' = [i \in Items |-> "none"] /\ UNCHANGED <<shop, shown, doubtful>>
      BY <1>9, CallIs
    <2>2. Steps' = Steps /\ Mutations' = Mutations
      BY <2>1, PlanStays
    <2>3. calls' \in 1..MaxCalls
      BY <2>1, MultiStepToolsAssumption DEF TypeOK
    <2>4. at' \in 1..(Len(Steps') + 1)
      BY <1>0, <2>1, <2>2
    <2>5. /\ reply'.kind = "none" /\ reply'.outcome \in Outcomes /\ reply'.status \in Statuses
          /\ reply'.listed \in BOOLEAN /\ reply'.notice \in BOOLEAN /\ reply'.items \subseteq Items
      BY <2>1 DEF NoReply, Outcomes, Statuses
    <2>6. completed' \in Seq(Mutations') /\ items' \in [Items -> {"none", "applied", "rejected", "unknown"}]
      BY <2>1
    <2>7. UNCHANGED <<quantity, late, ran, keys, clobbered>>
      BY <2>1 DEF shop
    <2> QED BY <1>0, <2>1, <2>2, <2>3, <2>4, <2>5, <2>6, <2>7 DEF TypeOK
  <1> QED BY <1>1, <1>2, <1>3, <1>4, <1>5, <1>6, <1>7, <1>8, <1>9 DEF CallStep, OtherStep

-----------------------------------------------------------------------------
(* What Shopify runs.                                                         *)

\* The next mutation of a call has not run, but for one that was not answered
\* and a change of inventory with a key of its own.
LEMMA NotSent ==
    ASSUME CallInv, Running, at \in MutatingSteps
    PROVE  /\ MayHaveRun(Mutation) => Mutation \in doubtful \/ OwnKey(Mutation)
           /\ Mutation \notin ToSet(completed)
           /\ Mutation \in Items => items[Mutation] = "none"
           /\ ~args.dryRun
  <1>1. Mutation = MutationOf(at)
    BY DEF Mutation, MutationOf
  <1>2. /\ Mutations = {MutationOf(i) : i \in MutatingSteps} /\ MutatingSteps \subseteq DOMAIN Steps
        /\ \A i, j \in MutatingSteps : MutationOf(i) = MutationOf(j) => i = j
        /\ Len(Steps) \in Nat /\ DOMAIN Steps = 1..Len(Steps)
        /\ \A i \in DOMAIN Steps : i \in MutatingSteps \/ Steps[i].do = "poll" =>
             \E j \in DOMAIN Steps : j < i /\ Steps[j].do = "preview"
    BY PlanOfCall DEF CallInv, TypeOK
  <1>3. \A i \in Over : i \in MutatingSteps /\ i < at /\ i # at
    BY <1>2 DEF Over
  <1>4. Mutation \notin ToSet(completed) /\ (Mutation \in Items => items[Mutation] = "none")
    BY <1>1, <1>2, <1>3 DEF CallInv, Progress
  <1>5. MayHaveRun(Mutation) => Mutation \in doubtful \/ OwnKey(Mutation)
    BY <1>1, <1>2, <1>4 DEF CallInv, Known, Running
  <1>6. ~args.dryRun
    BY <1>2 DEF CallInv, DryRunSendsNothing
  <1> QED BY <1>4, <1>5, <1>6

ShopInv == KeysUsed /\ RunsOnceMore /\ ~clobbered

\* What leaves the requests and the shop alone keeps what is known of the shop.
LEMMA ShopKept ==
    ASSUME ShopInv, args'.tool = args.tool, args'.given = args.given,
           UNCHANGED <<ran, late, keys, clobbered, doubtful>>
    PROVE  ShopInv'
  <1>1. \A m : OwnKey(m)' <=> OwnKey(m)
    BY PlanStays
  <1>2. \A m : HasRun(m)' <=> HasRun(m)
    BY DEF HasRun
  <1>3. KeysUsed'
    BY <1>1, <1>2 DEF ShopInv, KeysUsed
  <1>4. RunsOnceMore'
    BY <1>1, <1>2 DEF ShopInv, RunsOnceMore
  <1> QED BY <1>3, <1>4 DEF ShopInv

\* Nothing runs, or a mutation that has no answer yet may run later.
LEMMA ShopWaits ==
    ASSUME TypeOK, ShopInv, NEW m \in Mutations, NEW key, UNCHANGED args, NotRun, doubtful \subseteq doubtful',
           late' \subseteq late \cup {<<m, key>>},
           MayHaveRun(m) => m \in doubtful \/ OwnKey(m), OwnKey(m) => key = <<"caller", 0>>
    PROVE  ShopInv'
  <1>1. \A x : OwnKey(x)' <=> OwnKey(x)
    BY PlanStays
  <1>2. UNCHANGED <<ran, keys, clobbered>>
    BY DEF NotRun
  <1>3. \A x : HasRun(x)' <=> HasRun(x)
    BY <1>2 DEF HasRun
  <1>4. \A l \in late' : l \in late \/ (l[1] = m /\ l[2] = key /\ l = <<m, key>>)
    OBVIOUS
  <1>5. KeysUsed'
    BY <1>1, <1>2, <1>3, <1>4 DEF ShopInv, KeysUsed
  <1>6. \A l \in late : l[1] = m => m \in doubtful \/ OwnKey(m)
    BY DEF MayHaveRun
  <1>7. HasRun(m) => m \in doubtful \/ OwnKey(m)
    BY DEF MayHaveRun
  <1>8. RunsOnceMore'
    <2>1. \A i, j \in DOMAIN ran' :
            i # j /\ ran'[i] = ran'[j] => ran'[i] \in doubtful' /\ ~OwnKey(ran[i])'
      BY <1>2 DEF ShopInv, RunsOnceMore, OwnKey, IsInventory
    <2>2. \A l \in late' : HasRun(l[1])' => l[1] \in doubtful' \/ OwnKey(l[1])'
      BY <1>1, <1>3, <1>4, <1>7 DEF ShopInv, RunsOnceMore
    <2>3. \A l, k \in late' : l # k /\ l[1] = k[1] => l[1] \in doubtful' \/ OwnKey(l[1])'
      <3> SUFFICES ASSUME NEW l \in late', NEW k \in late', l # k, l[1] = k[1]
                   PROVE  l[1] \in doubtful' \/ OwnKey(l[1])
        BY <1>1
      <3>1. CASE l \in late /\ k \in late
        BY <3>1 DEF ShopInv, RunsOnceMore
      <3>2. CASE l \notin late \/ k \notin late
        BY <3>2, <1>4, <1>6
      <3> QED BY <3>1, <3>2
    <2> QED BY <2>1, <2>2, <2>3 DEF RunsOnceMore
  <1> QED BY <1>2, <1>5, <1>8 DEF ShopInv

\* A mutation runs.
LEMMA ShopRuns ==
    ASSUME TypeOK, ShopInv, NEW m \in Mutations, NEW key, UNCHANGED args, doubtful \subseteq doubtful',
           late' \subseteq late, Run(m, key),
           IsInventory(m) => quantity = args.from \/ key \in keys,
           HasRun(m) \/ (\E l \in late' : l[1] = m) => m \in doubtful \/ OwnKey(m),
           OwnKey(m) => key = <<"caller", 0>>
    PROVE  ShopInv'
  <1>0. IsInventory(m) => m = Inventory
    BY PlanOfCall DEF TypeOK
  <1>1. \A x : OwnKey(x)' <=> OwnKey(x)
    BY PlanStays
  <1>2. CASE IsInventory(m) /\ key \in keys
    <2>1. NotRun
      BY <1>2 DEF Run, NotRun
    <2>2. UNCHANGED <<ran, keys, clobbered>>
      BY <2>1 DEF NotRun
    <2>3. \A x : HasRun(x)' <=> HasRun(x)
      BY <2>2 DEF HasRun
    <2>4. KeysUsed'
      BY <1>1, <2>2, <2>3 DEF ShopInv, KeysUsed
    <2>5. RunsOnceMore'
      BY <1>1, <2>2, <2>3 DEF ShopInv, RunsOnceMore
    <2> QED BY <2>2, <2>4, <2>5 DEF ShopInv
  <1>3. CASE ~(IsInventory(m) /\ key \in keys)
    <2>1. /\ ran' = Append(ran, m)
          /\ IsInventory(m) => /\ keys' = keys \cup {key}
                               /\ clobbered' = (clobbered \/ quantity # args.from)
          /\ ~IsInventory(m) => UNCHANGED <<keys, clobbered>>
      BY <1>3 DEF Run
    <2>2. ~clobbered'
      BY <1>3, <2>1 DEF ShopInv
    <2>3. \A x : HasRun(x)' <=> HasRun(x) \/ x = m
      BY <1>3, RunIs
    <2>4. HasRun(m) => m \in doubtful /\ ~OwnKey(m)
      <3>1. HasRun(m) /\ OwnKey(m) => key \in keys /\ IsInventory(m)
        BY <1>0 DEF ShopInv, KeysUsed, OwnKey
      <3> QED BY <3>1, <1>3
    <2>5. KeysUsed'
      <3>1. keys' # {} => HasRun(Inventory)'
        BY <1>0, <2>1, <2>3 DEF ShopInv, KeysUsed
      <3>2. "idempotencyKey" \in args.given /\ HasRun(Inventory)' => <<"caller", 0>> \in keys'
        <4>1. CASE IsInventory(m)
          BY <4>1, <1>0, <2>1, <2>3 DEF ShopInv, KeysUsed, OwnKey
        <4>2. CASE ~IsInventory(m)
          <5>1. m # Inventory
            BY <4>2 DEF IsInventory, Inventory
          <5> QED BY <4>2, <5>1, <2>1, <2>3 DEF ShopInv, KeysUsed
        <4> QED BY <4>1, <4>2
      <3>3. \A l \in late' : OwnKey(l[1])' => l[2] = <<"caller", 0>>
        BY <1>1 DEF ShopInv, KeysUsed
      <3> QED BY <3>1, <3>2, <3>3 DEF KeysUsed
    <2>6. /\ DOMAIN ran' = DOMAIN ran \cup {Len(ran) + 1} /\ ran'[Len(ran) + 1] = m
          /\ \A i \in DOMAIN ran : ran'[i] = ran[i] /\ i # Len(ran) + 1
      <3>1. PICK M : M = Mutations
        OBVIOUS
      <3>2. ran \in Seq(M) /\ m \in M
        BY <3>1 DEF TypeOK
      <3>3. /\ DOMAIN Append(ran, m) = DOMAIN ran \cup {Len(ran) + 1}
            /\ Append(ran, m)[Len(ran) + 1] = m /\ DOMAIN ran = 1..Len(ran) /\ Len(ran) \in Nat
            /\ \A i \in DOMAIN ran : Append(ran, m)[i] = ran[i]
        BY <3>2, AppendedTo
      <3> QED BY <3>3, <2>1
    <2>7. \A i \in DOMAIN ran : HasRun(ran[i])
      BY DEF HasRun, ToSet
    <2>8. \A i, j \in DOMAIN ran' :
            i # j /\ ran'[i] = ran'[j] => ran'[i] \in doubtful' /\ ~OwnKey(ran[i])'
      <3> SUFFICES ASSUME NEW i \in DOMAIN ran', NEW j \in DOMAIN ran', i # j, ran'[i] = ran'[j]
                   PROVE  ran'[i] \in doubtful' /\ ~OwnKey(ran'[i])
        BY DEF OwnKey, IsInventory
      <3>1. CASE i \in DOMAIN ran /\ j \in DOMAIN ran
        BY <3>1, <2>6 DEF ShopInv, RunsOnceMore
      <3>2. CASE ~(i \in DOMAIN ran /\ j \in DOMAIN ran)
        <4>1. ran'[i] = m /\ HasRun(m)
          BY <3>2, <2>6, <2>7
        <4> QED BY <4>1, <2>4
      <3> QED BY <3>1, <3>2
    <2>9. \A l \in late' : HasRun(l[1])' => l[1] \in doubtful' \/ OwnKey(l[1])'
      <3> SUFFICES ASSUME NEW l \in late', HasRun(l[1])' PROVE l[1] \in doubtful' \/ OwnKey(l[1])
        BY <1>1
      <3>1. CASE l[1] = m
        BY <3>1
      <3>2. CASE l[1] # m
        BY <3>2, <2>3 DEF ShopInv, RunsOnceMore
      <3> QED BY <3>1, <3>2
    <2>10. \A l, k \in late' : l # k /\ l[1] = k[1] => l[1] \in doubtful' \/ OwnKey(l[1])'
      BY <1>1 DEF ShopInv, RunsOnceMore
    <2> QED BY <2>2, <2>5, <2>8, <2>9, <2>10 DEF ShopInv, RunsOnceMore
  <1> QED BY <1>2, <1>3

\* Every step keeps what is known of the shop.
LEMMA ShopStep ==
    ASSUME CallInv, CallStep
    PROVE  ShopInv'
  <1>0. TypeOK /\ ShopInv
    BY DEF CallInv, ShopInv
  <1>1. CASE StepsQuietly \/ EndsQuietly \/ ShowsPreview \/ FileReady \/ Finish
    <2>1. UNCHANGED <<shop, doubtful>>
      BY <1>1, FinishIs DEF StepsQuietly, EndsQuietly, ShowsPreview, FileReady, Idle
    <2>2. args' = args
      BY <1>1, FinishIs DEF StepsQuietly, EndsQuietly, ShowsPreview, FileReady, Advance, Fail
    <2>3. UNCHANGED <<ran, late, keys, clobbered, doubtful>>
      BY <2>1 DEF shop
    <2> QED BY <1>0, <2>2, <2>3, ShopKept
  <1>2. CASE Sends /\ (Completes \/ LeavesOpen)
    <2>1. Running /\ at \in MutatingSteps /\ args' = args /\ doubtful \subseteq doubtful'
      BY <1>2 DEF Sends
    <2>2. Mutation \in Mutations
      BY <1>0, <1>2, SentIs
    <2>3. MayHaveRun(Mutation) => Mutation \in doubtful \/ OwnKey(Mutation)
      BY <2>1, NotSent
    <2>4. OwnKey(Mutation) => IdempotencyKey = <<"caller", 0>>
      BY DEF OwnKey, IdempotencyKey
    <2>5. CASE NotRun /\ late' \in {late, late \cup {<<Mutation, IdempotencyKey>>}}
      BY <1>0, <2>1, <2>2, <2>3, <2>4, <2>5, ShopWaits
    <2>6. CASE RunsNow /\ UNCHANGED late
      <3>1. /\ Run(Mutation, IdempotencyKey)
            /\ IsInventory(Mutation) => quantity = args.from \/ IdempotencyKey \in keys
        BY <2>6 DEF RunsNow, Accepts, ChangeFrom
      <3>2. HasRun(Mutation) \/ (\E l \in late' : l[1] = Mutation) =>
              Mutation \in doubtful \/ OwnKey(Mutation)
        BY <2>3, <2>6 DEF MayHaveRun
      <3> QED BY <1>0, <2>1, <2>2, <2>4, <2>6, <3>1, <3>2, ShopRuns
    <2> QED BY <1>2, <2>5, <2>6 DEF Sends
  <1>3. CASE \E l \in late : RunLate(l[1], l[2])
    <2>1. PICK l \in late : RunLate(l[1], l[2])
      BY <1>3
    <2>2. PICK m, k : m = l[1] /\ k = l[2] /\ m \in Mutations
      BY <1>0 DEF TypeOK
    <2>3. /\ <<m, k>> \in late /\ late' = late \ {<<m, k>>}
          /\ \/ NotRun
             \/ (Accepts(m) \/ k \in keys) /\ Run(m, k)
          /\ UNCHANGED <<args, doubtful>>
      BY <2>1, <2>2 DEF RunLate, MayRun, call
    <2>4. OwnKey(m) => k = <<"caller", 0>>
      <3>1. PICK x : x = <<m, k>>
        OBVIOUS
      <3>2. x \in late /\ x[1] = m /\ x[2] = k
        BY <2>3, <3>1
      <3> QED BY <3>2 DEF CallInv, KeysUsed
    <2>5. HasRun(m) \/ (\E x \in late' : x[1] = m) => m \in doubtful \/ OwnKey(m)
      <3>1. PICK x : x = <<m, k>>
        OBVIOUS
      <3>2. x \in late /\ x \notin late' /\ late' \subseteq late /\ x[1] = m
        BY <2>3, <3>1
      <3> QED BY <3>2 DEF CallInv, RunsOnceMore
    <2>6. CASE NotRun
      <3>1. UNCHANGED <<ran, keys, clobbered>> /\ late' \subseteq late
        BY <2>3, <2>6 DEF NotRun
      <3>2. \A x : OwnKey(x)' <=> OwnKey(x)
        BY <2>3, PlanStays
      <3>3. \A x : HasRun(x)' <=> HasRun(x)
        BY <3>1 DEF HasRun
      <3>4. KeysUsed'
        BY <2>3, <3>1, <3>2, <3>3 DEF CallInv, KeysUsed
      <3>5. RunsOnceMore'
        BY <2>3, <3>1, <3>2, <3>3 DEF CallInv, RunsOnceMore
      <3> QED BY <3>1, <3>4, <3>5 DEF CallInv, ShopInv
    <2>7. CASE (Accepts(m) \/ k \in keys) /\ Run(m, k)
      <3>1. IsInventory(m) => quantity = args.from \/ k \in keys
        BY <2>7 DEF Accepts, ChangeFrom
      <3>2. doubtful \subseteq doubtful' /\ late' \subseteq late
        BY <2>3
      <3> QED BY <1>0, <2>2, <2>3, <2>4, <2>5, <2>7, <3>1, <3>2, ShopRuns
    <2> QED BY <2>3, <2>6, <2>7
  <1>4. CASE Elsewhere
    <2>1. UNCHANGED <<args, ran, late, keys, clobbered, doubtful>>
      BY <1>4 DEF Elsewhere, call
    <2> QED BY <1>0, <2>1, ShopKept
  <1>5. CASE Apply \/ Again
    <2>1. /\ args'.tool = args.tool /\ args'.given = args.given
          /\ UNCHANGED <<ran, late, keys, clobbered, doubtful>>
      BY <1>0, <1>5, CallIs DEF shop
    <2> QED BY <1>0, <2>1, ShopKept
  <1> QED BY <1>1, <1>2, <1>3, <1>4, <1>5 DEF CallStep, OtherStep

-----------------------------------------------------------------------------
(* How far a call is.                                                         *)

\* What ran, and what may, after a request of the call.
LEMMA SendsRuns ==
    ASSUME CallInv, Sends
    PROVE  /\ \A x : HasRun(x) => HasRun(x)'
           /\ \A x : MayHaveRun(x)' => MayHaveRun(x) \/ x = Mutation
           /\ RunsNow => \A x : x = Mutation => HasRun(x)'
           /\ NotRun /\ UNCHANGED late => \A x : MayHaveRun(x)' => MayHaveRun(x)
  <1>1. TypeOK /\ Mutation \in Mutations /\ (NotRun \/ Run(Mutation, IdempotencyKey))
    BY SentIs DEF CallInv
  <1>2. /\ \A x : HasRun(x) => HasRun(x)'
        /\ \A x : HasRun(x)' => HasRun(x) \/ x = Mutation
    BY <1>1, MayRunIs
  <1>3. \A l \in late' : l \in late \/ l[1] = Mutation
    BY DEF Sends
  <1>4. \A x : MayHaveRun(x)' => MayHaveRun(x) \/ x = Mutation
    BY <1>2, <1>3 DEF MayHaveRun
  <1>5. RunsNow => \A x : x = Mutation => HasRun(x)'
    <2>1. IsInventory(Mutation) => Mutation = Inventory
      BY <1>1, PlanOfCall DEF TypeOK
    <2>2. IsInventory(Mutation) /\ IdempotencyKey \in keys => HasRun(Mutation)
      BY <2>1 DEF CallInv, KeysUsed
    <2> SUFFICES ASSUME RunsNow, NEW x, x = Mutation PROVE HasRun(x)'
      OBVIOUS
    <2>3. Run(Mutation, IdempotencyKey)
      BY DEF RunsNow
    <2>4. HasRun(x)' <=> HasRun(x) \/ ~(IsInventory(Mutation) /\ IdempotencyKey \in keys)
      BY <1>1, <2>3, RunIs
    <2> QED BY <2>2, <2>4
  <1>6. NotRun /\ UNCHANGED late => \A x : MayHaveRun(x)' => MayHaveRun(x)
    BY DEF NotRun, MayHaveRun, HasRun
  <1> QED BY <1>2, <1>4, <1>5, <1>6

\* What ran, and what may, after any other step.
LEMMA OthersRun ==
    ASSUME TypeOK, OtherStep
    PROVE  /\ \A x : HasRun(x) => HasRun(x)'
           /\ \A x : MayHaveRun(x)' => MayHaveRun(x)
           /\ doubtful' = doubtful
           /\ ran = <<>> /\ late = {} => ran' = <<>> /\ late' = {}
  <1>1. CASE StepsQuietly \/ EndsQuietly \/ ShowsPreview \/ FileReady \/ Finish \/ Elsewhere
             \/ Apply \/ Again
    <2>1. UNCHANGED <<ran, late, doubtful>>
      BY <1>1, FinishIs, CallIs DEF StepsQuietly, EndsQuietly, ShowsPreview, FileReady, Elsewhere, Idle, shop
    <2> QED BY <2>1 DEF HasRun, MayHaveRun
  <1>2. CASE \E l \in late : RunLate(l[1], l[2])
    <2>1. PICK l \in late : RunLate(l[1], l[2])
      BY <1>2
    <2>2. PICK m, k : m = l[1] /\ k = l[2] /\ m \in Mutations
      BY DEF TypeOK
    <2>3. /\ late' \subseteq late /\ doubtful' = doubtful
          /\ NotRun \/ Run(m, k)
      BY <2>1, <2>2 DEF RunLate, MayRun
    <2>4. /\ \A x : HasRun(x) => HasRun(x)'
          /\ \A x : HasRun(x)' => HasRun(x) \/ x = m
      BY <2>2, <2>3, MayRunIs
    <2>5. MayHaveRun(m)
      BY <2>2 DEF MayHaveRun
    <2>6. \A x : MayHaveRun(x)' => MayHaveRun(x)
      BY <2>3, <2>4, <2>5 DEF MayHaveRun
    <2>7. late # {}
      OBVIOUS
    <2> QED BY <2>3, <2>4, <2>6, <2>7
  <1> QED BY <1>1, <1>2 DEF OtherStep

\* The steps that are over, in each state of a call.
LEMMA ProgressIs ==
    ASSUME args'.tool = args.tool, args'.given = args.given,
           \A m \in ToSet(completed') :
             /\ HasRun(m)'
             /\ \E i \in MutatingSteps : (i < at' \/ (i = at' /\ reply'.kind # "none")) /\ m = MutationOf(i),
           \A r \in Items : items'[r] # "none" => \E i \in MutatingSteps : i < at' /\ r = MutationOf(i),
           \A r \in Items : items'[r] = "applied" => r \in ToSet(completed'),
           \A i \in MutatingSteps : i < at' =>
             \/ Steps[i].do # "item" /\ MutationOf(i) \in ToSet(completed')
             \/ Steps[i].do = "item" /\ items'[MutationOf(i)] # "none"
    PROVE  Progress'
  <1>1. /\ Steps' = Steps /\ MutatingSteps' = MutatingSteps
        /\ \A i : MutationOf(i)' = MutationOf(i)
    BY PlanStays
  <1>2. \A i : i \in Over' <=> i \in MutatingSteps /\ (i < at' \/ (i = at' /\ reply'.kind # "none"))
    BY <1>1 DEF Over, Running
  <1>3. \A m \in ToSet(completed') : HasRun(m)' /\ \E i \in Over' : m = MutationOf(i)'
    BY <1>1, <1>2
  <1>4. \A r \in Items : items'[r] # "none" => \E i \in Over' : i < at' /\ r = MutationOf(i)'
    BY <1>1, <1>2
  <1>5. \A i \in MutatingSteps' : i < at' =>
          \/ Steps'[i].do # "item" /\ MutationOf(i)' \in ToSet(completed')
          \/ Steps'[i].do = "item" /\ items'[MutationOf(i)'] # "none"
    BY <1>1
  <1> QED BY <1>3, <1>4, <1>5 DEF Progress

\* As it is in a state in which the call goes on.
LEMMA ProgressNow ==
    ASSUME CallInv, Running
    PROVE  /\ \A m \in ToSet(completed) :
                HasRun(m) /\ \E i \in MutatingSteps : i < at /\ m = MutationOf(i)
           /\ \A r \in Items : items[r] # "none" => \E i \in MutatingSteps : i < at /\ r = MutationOf(i)
           /\ \A r \in Items : items[r] = "applied" => r \in ToSet(completed)
           /\ \A i \in MutatingSteps : i < at =>
                \/ Steps[i].do # "item" /\ MutationOf(i) \in ToSet(completed)
                \/ Steps[i].do = "item" /\ items[MutationOf(i)] # "none"
  BY DEF CallInv, Progress, Over

\* A call that ended stays where it is, until it is called again.
LEMMA Rests ==
    ASSUME CallInv, CallStep, UNCHANGED <<args, at, completed, items, reply>>,
           \A x : HasRun(x) => HasRun(x)'
    PROVE  Progress'
  <1>1. /\ MutatingSteps' = MutatingSteps /\ Steps' = Steps /\ \A i : MutationOf(i)' = MutationOf(i)
    BY PlanStays
  <1>2. Over' = Over
    BY <1>1 DEF Over, Running
  <1> QED BY <1>1, <1>2 DEF CallInv, Progress

\* Every step keeps the progress through the plan.
LEMMA ProgressStep ==
    ASSUME CallInv, CallStep
    PROVE  Progress'
  <1>0. /\ TypeOK /\ Len(Steps) \in Nat /\ DOMAIN Steps = 1..Len(Steps)
        /\ MutatingSteps \subseteq DOMAIN Steps /\ at \in Nat
        /\ \A i, j \in DOMAIN Steps : Steps[i].do = "poll" /\ j \in MutatingSteps => j < i
        /\ \A i \in MutatingSteps : MutationOf(i) \in Items <=> Steps[i].do = "item"
        /\ \A i \in MutatingSteps : Steps[i].do \in Mutating
        /\ \A i \in DOMAIN Steps : Steps[i].do \in Mutating => i \in MutatingSteps
        /\ completed \in Seq(Mutations)
    BY PlanOfCall DEF CallInv, TypeOK, MutatingSteps
  <1>1. CASE StepsQuietly
    <2>1. /\ UNCHANGED <<args, completed, items, reply>> /\ at' = at + 1 /\ Running
          /\ at \notin MutatingSteps /\ \A x : HasRun(x)' <=> HasRun(x)
      BY <1>1 DEF StepsQuietly, Advance, Idle, shop, HasRun
    <2>2. \A i \in MutatingSteps : i < at' <=> i < at
      BY <1>0, <2>1
    <2> QED BY <2>1, <2>2, ProgressNow, ProgressIs
  <1>2. CASE EndsQuietly
    <2>1. PICK outcome \in Outcomes : Fail(outcome, completed)
      BY <1>2 DEF EndsQuietly
    <2>2. /\ UNCHANGED <<args, at, completed, items>> /\ Running
          /\ \A x : HasRun(x)' <=> HasRun(x)
      BY <1>2, <2>1, FailIs DEF EndsQuietly, Idle, shop, HasRun
    <2> QED BY <2>2, ProgressNow, ProgressIs
  <1>3. CASE ShowsPreview
    <2>1. /\ UNCHANGED <<args, at, completed, items>> /\ Running
          /\ \A x : HasRun(x)' <=> HasRun(x)
      BY <1>3 DEF ShowsPreview, shop, HasRun
    <2> QED BY <2>1, ProgressNow, ProgressIs
  <1>4. CASE FileReady
    <2>1. /\ UNCHANGED <<args, completed, items, reply>> /\ at' = Len(Steps) + 1 /\ Running
          /\ at \in DOMAIN Steps /\ Steps[at].do = "poll"
          /\ \A x : HasRun(x)' <=> HasRun(x)
      BY <1>0, <1>4 DEF FileReady, Idle, shop, HasRun, Doing, CallInv, TypeOK
    <2>2. \A i \in MutatingSteps : i < at' /\ i < at
      BY <1>0, <2>1
    <2> QED BY <2>1, <2>2, ProgressNow, ProgressIs
  <1>5. CASE Finish
    <2>1. /\ UNCHANGED <<args, at, completed, items>> /\ Running
          /\ \A x : HasRun(x)' <=> HasRun(x)
      BY <1>5, FinishIs DEF shop, HasRun
    <2> QED BY <2>1, ProgressNow, ProgressIs
  <1>6. CASE Sends /\ (Completes \/ LeavesOpen)
    <2>1. /\ Running /\ at \in MutatingSteps /\ Mutation = MutationOf(at) /\ args' = args
          /\ Mutation \in Mutations
      BY <1>0, <1>6, SentIs DEF Sends
    <2>2. /\ \A x : HasRun(x) => HasRun(x)'
          /\ RunsNow => \A x : x = Mutation => HasRun(x)'
      BY <1>6, SendsRuns
    <2>3. PICK M : M = Mutations
      OBVIOUS
    <2>4. ToSet(Append(completed, Mutation)) = ToSet(completed) \cup {Mutation}
      <3>1. completed \in Seq(M) /\ Mutation \in M
        BY <1>0, <2>1, <2>3
      <3> QED BY <3>1, AppendedTo
    <2>5. \A i \in MutatingSteps : i < at + 1 <=> i < at \/ i = at
      BY <1>0
    <2>6. \A i \in MutatingSteps : i \in Nat
      BY <1>0
    <2>7. CASE RunsNow /\ Steps[at].do # "item" /\ Advance(Append(completed, Mutation))
      <3>1. /\ completed' = Append(completed, Mutation) /\ at' = at + 1
            /\ UNCHANGED <<items, reply>>
        BY <2>7 DEF Advance
      <3>2. ToSet(completed') = ToSet(completed) \cup {Mutation}
        BY <2>4, <3>1
      <3>3. \A m \in ToSet(completed') :
              HasRun(m)' /\ \E i \in MutatingSteps : i < at' /\ m = MutationOf(i)
        BY <2>1, <2>2, <2>5, <2>7, <3>1, <3>2, ProgressNow
      <3>4. \A i \in MutatingSteps : i < at' =>
              \/ Steps[i].do # "item" /\ MutationOf(i) \in ToSet(completed')
              \/ Steps[i].do = "item" /\ items'[MutationOf(i)] # "none"
        BY <2>1, <2>5, <2>7, <3>1, <3>2, ProgressNow
      <3>5. \A r \in Items : items'[r] # "none" => \E i \in MutatingSteps : i < at' /\ r = MutationOf(i)
        BY <2>1, <2>5, <3>1, ProgressNow
      <3>6. \A r \in Items : items'[r] = "applied" => r \in ToSet(completed')
        BY <2>1, <3>1, <3>2, ProgressNow
      <3> QED BY <2>1, <3>3, <3>4, <3>5, <3>6, ProgressIs
    <2>8. CASE RunsNow /\ Steps[at].do # "item" /\ Fail("none", Append(completed, Mutation))
      <3>1. /\ completed' = Append(completed, Mutation) /\ at' = at
            /\ UNCHANGED items /\ reply'.kind = "error"
        BY <2>8, FailIs DEF Outcomes
      <3>2. ToSet(completed') = ToSet(completed) \cup {Mutation}
        BY <2>4, <3>1
      <3>3. \A m \in ToSet(completed') :
              /\ HasRun(m)'
              /\ \E i \in MutatingSteps : (i < at' \/ (i = at' /\ reply'.kind # "none")) /\ m = MutationOf(i)
        <4>1. reply'.kind # "none"
          BY <3>1
        <4> QED BY <2>1, <2>2, <2>8, <3>1, <3>2, <4>1, ProgressNow
      <3>4. \A i \in MutatingSteps : i < at' =>
              \/ Steps[i].do # "item" /\ MutationOf(i) \in ToSet(completed')
              \/ Steps[i].do = "item" /\ items'[MutationOf(i)] # "none"
        BY <2>1, <3>1, <3>2, ProgressNow
      <3>5. \A r \in Items : items'[r] # "none" => \E i \in MutatingSteps : i < at' /\ r = MutationOf(i)
        BY <2>1, <3>1, ProgressNow
      <3>6. \A r \in Items : items'[r] = "applied" => r \in ToSet(completed')
        BY <2>1, <3>1, <3>2, ProgressNow
      <3> QED BY <2>1, <3>3, <3>4, <3>5, <3>6, ProgressIs
    <2>9. ASSUME NEW outcome \in {"applied", "rejected", "unknown"}, ItemIs(outcome),
                 Steps[at].do = "item",
                 IF outcome = "applied" THEN RunsNow /\ completed' = Append(completed, Mutation)
                 ELSE completed' = completed
          PROVE  Progress'
      <3>1. items' = [items EXCEPT ![Mutation] = outcome] /\ at' = at + 1 /\ UNCHANGED <<args, reply>>
        BY <2>9 DEF ItemIs
      <3>2. /\ items'[Mutation] = outcome
            /\ \A r \in Items : r # Mutation => items'[r] = items[r]
        BY <1>0, <2>1, <2>9, <3>1 DEF TypeOK
      <3>3. ToSet(completed') = IF outcome = "applied" THEN ToSet(completed) \cup {Mutation}
                                ELSE ToSet(completed)
        BY <2>4, <2>9
      <3>4. outcome # "none"
        OBVIOUS
      <3>5. \A m \in ToSet(completed') :
              /\ HasRun(m)'
              /\ \E i \in MutatingSteps : i < at' /\ m = MutationOf(i)
        <4>1. CASE outcome = "applied"
          <5>1. ToSet(completed') = ToSet(completed) \cup {Mutation} /\ RunsNow
            BY <2>9, <3>3, <4>1
          <5> QED BY <2>1, <2>2, <2>5, <3>1, <5>1, ProgressNow
        <4>2. CASE outcome # "applied"
          <5>1. ToSet(completed') = ToSet(completed)
            BY <3>3, <4>2
          <5> QED BY <2>1, <2>2, <2>5, <3>1, <5>1, ProgressNow
        <4> QED BY <4>1, <4>2
      <3>6. \A r \in Items : items'[r] # "none" => \E i \in MutatingSteps : i < at' /\ r = MutationOf(i)
        BY <2>1, <2>5, <3>1, <3>2, ProgressNow
      <3>7. \A r \in Items : items'[r] = "applied" => r \in ToSet(completed')
        BY <2>1, <3>2, <3>3, ProgressNow
      <3>8. \A i \in MutatingSteps : i < at' =>
              \/ Steps[i].do # "item" /\ MutationOf(i) \in ToSet(completed')
              \/ Steps[i].do = "item" /\ items'[MutationOf(i)] # "none"
        <4> SUFFICES ASSUME NEW i \in MutatingSteps, i < at'
                     PROVE  \/ Steps[i].do # "item" /\ MutationOf(i) \in ToSet(completed')
                            \/ Steps[i].do = "item" /\ items'[MutationOf(i)] # "none"
          OBVIOUS
        <4>1. CASE i = at
          BY <4>1, <2>1, <2>9, <3>2, <3>4
        <4>2. CASE i < at
          BY <4>2, <1>0, <2>1, <3>2, <3>3, <3>4, ProgressNow
        <4> QED BY <4>1, <4>2, <2>5, <3>1
      <3> QED BY <2>1, <3>1, <3>5, <3>6, <3>7, <3>8, ProgressIs
    <2>10. CASE Completes
      BY <2>7, <2>8, <2>9, <2>10 DEF Completes
    <2>11. CASE LeavesOpen
      <3>1. ASSUME NEW outcome \in Outcomes, Fail(outcome, completed) PROVE Progress'
        <4>1. UNCHANGED <<args, at, completed, items>>
          BY <3>1, FailIs
        <4> QED BY <2>1, <2>2, <4>1, ProgressNow, ProgressIs
      <3> QED BY <2>9, <2>11, <3>1 DEF LeavesOpen
    <2> QED BY <1>6, <2>10, <2>11
  <1>7. CASE (\E l \in late : RunLate(l[1], l[2])) \/ Elsewhere
    <2>1. UNCHANGED <<args, at, completed, items, reply>>
      BY <1>7 DEF RunLate, Elsewhere, call
    <2>2. \A x : HasRun(x) => HasRun(x)'
      BY <1>0, <1>7, OthersRun DEF OtherStep
    <2> QED BY <2>1, <2>2, Rests
  <1>8. CASE Apply \/ Again
    <2>1. /\ args'.tool = args.tool /\ args'.given = args.given /\ at' = 1 /\ completed' = <<>>
          /\ items' = [i \in Items |-> "none"]
      BY <1>0, <1>8, CallIs
    <2>2. ToSet(completed') = {}
      BY <2>1 DEF ToSet
    <2>3. \A i \in MutatingSteps : ~(i < at')
      BY <1>0, <2>1
    <2> QED BY <2>1, <2>2, <2>3, ProgressIs
  <1> QED BY <1>1, <1>2, <1>3, <1>4, <1>5, <1>6, <1>7, <1>8 DEF CallStep, OtherStep

-----------------------------------------------------------------------------
(* What a call knows of what ran.                                             *)

\* Every mutation that may have run is accounted for when the next state does so for each.
LEMMA KnownIs ==
    ASSUME args'.tool = args.tool, args'.given = args.given,
           \A m \in Mutations : MayHaveRun(m)' =>
             \/ m \in doubtful'
             \/ m \in ToSet(completed')
             \/ m \in Items /\ items'[m] = "unknown"
             \/ /\ reply'.kind = "error" /\ reply'.outcome \in {"unknown", "rejected_or_partial"}
                /\ at' = at /\ at \in MutatingSteps /\ m = Mutation
             \/ OwnKey(m) /\ calls' > 1
    PROVE  Known'
  <1>1. /\ Steps' = Steps /\ Mutations' = Mutations /\ MutatingSteps' = MutatingSteps
        /\ \A m : OwnKey(m)' <=> OwnKey(m)
    BY PlanStays
  <1>2. at' = at => Mutation' = Mutation
    BY <1>1 DEF Mutation
  <1> QED BY <1>1, <1>2 DEF Known

\* As it is in a state in which the call goes on.
LEMMA KnownNow ==
    ASSUME CallInv, Running, NEW m \in Mutations, MayHaveRun(m)
    PROVE  \/ m \in doubtful
           \/ m \in ToSet(completed)
           \/ m \in Items /\ items[m] = "unknown"
           \/ OwnKey(m) /\ calls > 1
  BY DEF CallInv, Known, Running

\* An item is a redirect, which needs no key of its own.
LEMMA ItemsOnlyRedirects ==
    ASSUME CallInv, at \in MutatingSteps, Steps[at].do = "item"
    PROVE  ~OwnKey(Mutation) /\ Mutation \in Items
  BY PlanOfCall DEF CallInv, TypeOK, Mutation, MutationOf, OwnKey

\* Every step keeps what the call knows of its mutations.
LEMMA KnownStep ==
    ASSUME CallInv, CallStep
    PROVE  Known'
  <1>0. TypeOK /\ items \in [Items -> {"none", "applied", "rejected", "unknown"}]
               /\ calls \in Nat /\ completed \in Seq(Mutations)
    BY DEF CallInv, TypeOK
  <1>1. CASE StepsQuietly \/ EndsQuietly \/ ShowsPreview \/ FileReady \/ Finish
    <2>1. UNCHANGED <<args, completed, items, calls, doubtful, ran, late>> /\ Running
      <3>1. CASE EndsQuietly
        BY <3>1 DEF EndsQuietly, Fail, Idle, shop
      <3>2. CASE StepsQuietly
        BY <3>2 DEF StepsQuietly, Advance, Idle, shop
      <3>3. CASE ShowsPreview \/ FileReady \/ Finish
        BY <3>3, FinishIs DEF ShowsPreview, FileReady, Idle, shop, Doing
      <3> QED BY <1>1, <3>1, <3>2, <3>3
    <2>2. \A x : MayHaveRun(x)' => MayHaveRun(x)
      BY <2>1 DEF MayHaveRun, HasRun
    <2> QED BY <2>1, <2>2, KnownNow, KnownIs
  <1>2. CASE Sends /\ (Completes \/ LeavesOpen)
    <2>1. /\ Running /\ at \in MutatingSteps /\ UNCHANGED <<args, calls>>
          /\ doubtful \subseteq doubtful' /\ Mutation \in Mutations
      BY <1>0, <1>2, SentIs DEF Sends
    <2>2. /\ \A x : MayHaveRun(x)' => MayHaveRun(x) \/ x = Mutation
          /\ NotRun /\ UNCHANGED late => \A x : MayHaveRun(x)' => MayHaveRun(x)
      BY <1>2, SendsRuns
    <2>3. PICK M : M = Mutations
      OBVIOUS
    <2>4. ToSet(Append(completed, Mutation)) = ToSet(completed) \cup {Mutation}
      <3>1. completed \in Seq(M) /\ Mutation \in M
        BY <1>0, <2>1, <2>3
      <3> QED BY <3>1, AppendedTo
    <2>5. ToSet(completed) \subseteq ToSet(completed')
      BY <1>2, <2>4 DEF Completes, LeavesOpen, Advance, Fail
    <2>6. \A x \in Items : x # Mutation => items'[x] = items[x]
      <3>1. items' = items \/ \E outcome : items' = [items EXCEPT ![Mutation] = outcome]
        BY <1>2 DEF Completes, LeavesOpen, Advance, Fail, ItemIs
      <3> QED BY <1>0, <3>1
    <2>7. \A m \in Mutations : m # Mutation /\ MayHaveRun(m)' =>
            \/ m \in doubtful' \/ m \in ToSet(completed')
            \/ m \in Items /\ items'[m] = "unknown"
            \/ OwnKey(m) /\ calls' > 1
      <3> SUFFICES ASSUME NEW m \in Mutations, m # Mutation, MayHaveRun(m)'
                   PROVE  \/ m \in doubtful' \/ m \in ToSet(completed')
                          \/ m \in Items /\ items'[m] = "unknown"
                          \/ OwnKey(m) /\ calls' > 1
        OBVIOUS
      <3>1. MayHaveRun(m)
        BY <2>2
      <3>2. \/ m \in doubtful \/ m \in ToSet(completed)
            \/ m \in Items /\ items[m] = "unknown"
            \/ OwnKey(m) /\ calls > 1
        BY <2>1, <3>1, KnownNow
      <3> QED BY <2>1, <2>5, <2>6, <3>2
    <2>8. CASE Completes
      <3>1. Mutation \in ToSet(completed')
        BY <2>4, <2>8 DEF Completes, Advance, Fail
      <3> QED BY <2>1, <2>7, <3>1, KnownIs
    <2>9. CASE LeavesOpen
      <3>1. ASSUME NEW outcome \in Outcomes, Fail(outcome, completed),
                   outcome \in {"unknown", "rejected_or_partial"} \/ Mutation \in doubtful'
            PROVE  Known'
        <4>1. reply'.kind = "error" /\ at' = at /\ (outcome # "none" => reply'.outcome = outcome)
          BY <3>1, FailIs
        <4>2. \/ reply'.outcome \in {"unknown", "rejected_or_partial"} \/ Mutation \in doubtful'
          BY <3>1, <4>1
        <4> QED BY <2>1, <2>7, <4>1, <4>2, KnownIs
      <3>2. CASE Steps[at].do = "item" /\ ItemIs("unknown")
        <4>1. Mutation \in Items
          BY <2>1, <3>2, ItemsOnlyRedirects
        <4>2. items'[Mutation] = "unknown"
          BY <1>0, <3>2, <4>1 DEF ItemIs
        <4> QED BY <2>1, <2>7, <4>1, <4>2, KnownIs
      <3>3. CASE /\ Steps[at].do = "item" /\ ItemIs("rejected")
                 /\ Mutation \in doubtful' \/ (NotRun /\ UNCHANGED late)
        <4>1. MayHaveRun(Mutation) => Mutation \in doubtful
          BY <2>1, <3>3, NotSent, ItemsOnlyRedirects
        <4>2. \A m : m = Mutation /\ MayHaveRun(m)' => m \in doubtful'
          BY <2>1, <2>2, <3>3, <4>1
        <4> QED BY <2>1, <2>7, <4>2, KnownIs
      <3> QED BY <2>9, <3>1, <3>2, <3>3 DEF LeavesOpen
    <2> QED BY <1>2, <2>8, <2>9
  <1>3. CASE (\E l \in late : RunLate(l[1], l[2])) \/ Elsewhere
    <2>1. UNCHANGED <<args, at, completed, items, reply, calls, doubtful>>
      BY <1>3 DEF RunLate, Elsewhere, call
    <2>2. \A x : MayHaveRun(x)' => MayHaveRun(x)
      BY <1>0, <1>3, OthersRun DEF OtherStep
    <2> QED BY <2>1, <2>2, KnownIs DEF CallInv, Known
  <1>4. CASE Apply
    <2>1. args.dryRun
      BY <1>4 DEF Apply, CallInv, AnswerTrue
    <2>2. /\ args'.tool = args.tool /\ args'.given = args.given /\ ran' = ran /\ late' = late
      BY <1>0, <1>4, CallIs DEF shop
    <2>3. ran' = <<>> /\ late' = {}
      BY <2>1, <2>2 DEF CallInv, DryRunSendsNothing
    <2>4. \A x : ~MayHaveRun(x)'
      BY <2>3 DEF MayHaveRun, HasRun, ToSet
    <2> QED BY <2>2, <2>4, KnownIs
  <1>5. CASE Again
    <2>1. /\ args'.tool = args.tool /\ args'.given = args.given /\ calls' = calls + 1 /\ doubtful' = doubtful
          /\ UNCHANGED <<ran, late>> /\ calls \in 1..MaxCalls
      BY <1>0, <1>5, CallIs DEF shop, TypeOK
    <2>2. \A x : MayHaveRun(x)' => MayHaveRun(x)
      BY <2>1 DEF MayHaveRun, HasRun
    <2>3. calls' > 1
      BY <2>1, MultiStepToolsAssumption
    <2>4. CASE reply.outcome \in {"none", "failed"} /\ ~reply.notice
      <3>1. completed = <<>> /\ \A r \in Items : items[r] = "none"
        BY <1>5, <2>4 DEF Again, CallInv, AnswerTrue
      <3>2. ToSet(completed) = {}
        BY <3>1 DEF ToSet
      <3>3. \A m \in Mutations : MayHaveRun(m) => m \in doubtful \/ OwnKey(m)
        BY <2>4, <3>1, <3>2 DEF CallInv, Known
      <3> QED BY <2>1, <2>2, <2>3, <3>3, KnownIs
    <2>5. CASE args.tool = "set_inventory" /\ "idempotencyKey" \in args.given
      <3>1. \A m \in Mutations : OwnKey(m)
        BY <1>0, <2>5, PlanOfCall DEF TypeOK, OwnKey
      <3> QED BY <2>1, <2>3, <3>1, KnownIs
    <2> QED BY <1>5, <2>4, <2>5 DEF Again
  <1> QED BY <1>1, <1>2, <1>3, <1>4, <1>5 DEF CallStep, OtherStep

\* Every step keeps that a rejected mutation did not run.
LEMMA RejectedStep ==
    ASSUME CallInv, CallStep
    PROVE  RejectedNotRun'
  <1>0. TypeOK /\ items \in [Items -> {"none", "applied", "rejected", "unknown"}]
    BY DEF CallInv, TypeOK
  <1>1. CASE OtherStep
    <2>1. \A x : MayHaveRun(x)' => MayHaveRun(x)
      BY <1>0, <1>1, OthersRun
    <2>2. doubtful' = doubtful
      BY <1>0, <1>1, OthersRun
    <2>3. items' = items \/ items' = [i \in Items |-> "none"]
      BY <1>0, <1>1, FinishIs, CallIs
         DEF OtherStep, StepsQuietly, EndsQuietly, ShowsPreview, FileReady, RunLate, Elsewhere, call, Advance, Fail
    <2>4. \A r \in Items : items'[r] = "rejected" => items[r] = "rejected"
      BY <2>3
    <2> QED BY <2>1, <2>2, <2>4 DEF CallInv, RejectedNotRun
  <1>2. CASE Sends /\ (Completes \/ LeavesOpen)
    <2>1. /\ Running /\ at \in MutatingSteps /\ doubtful \subseteq doubtful' /\ Mutation = MutationOf(at)
      BY <1>0, <1>2, SentIs DEF Sends
    <2>2. /\ \A x : MayHaveRun(x)' => MayHaveRun(x) \/ x = Mutation
          /\ NotRun /\ UNCHANGED late => \A x : MayHaveRun(x)' => MayHaveRun(x)
      BY <1>2, SendsRuns
    <2>3. Mutation \in Items => Steps[at].do = "item" /\ items[Mutation] = "none"
      BY <2>1, NotSent, PlanOfCall DEF CallInv, TypeOK
    <2>4. \A x \in Items : x # Mutation => items'[x] = items[x]
      <3>1. items' = items \/ \E outcome : items' = [items EXCEPT ![Mutation] = outcome]
        BY <1>2 DEF Completes, LeavesOpen, Advance, Fail, ItemIs
      <3> QED BY <1>0, <3>1
    <2>5. \A r \in Items : r # Mutation /\ items'[r] = "rejected" /\ r \notin doubtful' => ~MayHaveRun(r)'
      BY <2>1, <2>2, <2>4 DEF CallInv, RejectedNotRun
    <2>6. ASSUME Mutation \in Items, items'[Mutation] = "rejected", Mutation \notin doubtful'
          PROVE  \A r : r = Mutation => ~MayHaveRun(r)'
      <3>1. Steps[at].do = "item"
        BY <2>3, <2>6
      <3>2. ~ItemIs("applied") /\ ~ItemIs("unknown")
        BY <1>0, <2>6 DEF ItemIs
      <3>3. NotRun /\ UNCHANGED late
        BY <1>2, <2>6, <3>1, <3>2 DEF Completes, LeavesOpen
      <3>4. ~MayHaveRun(Mutation)
        BY <2>1, <2>6, <3>1, NotSent, ItemsOnlyRedirects
      <3> QED BY <2>2, <3>3, <3>4
    <2> QED BY <2>5, <2>6 DEF RejectedNotRun
  <1> QED BY <1>1, <1>2 DEF CallStep

\* Every step keeps that a dry run sends nothing.
LEMMA DryRunStep ==
    ASSUME CallInv, CallStep
    PROVE  DryRunSendsNothing'
  <1>0. /\ TypeOK /\ at \in Nat /\ DOMAIN Steps \subseteq Nat
        /\ \A i \in DOMAIN Steps : i \in MutatingSteps \/ Steps[i].do = "poll" =>
             \E j \in DOMAIN Steps : j < i /\ Steps[j].do = "preview"
    BY PlanOfCall DEF CallInv, TypeOK
  <1>1. CASE Sends /\ (Completes \/ LeavesOpen)
    <2>1. ~args'.dryRun
      BY <1>1, NotSent DEF Sends
    <2> QED BY <2>1 DEF DryRunSendsNothing
  <1>2. CASE Apply \/ Again
    BY <1>0, <1>2, CallIs DEF DryRunSendsNothing
  <1>3. CASE OtherStep /\ ~(Apply \/ Again)
    <2>1. args' = args /\ completed' = completed
      BY <1>3, FinishIs
         DEF OtherStep, StepsQuietly, EndsQuietly, ShowsPreview, FileReady, RunLate, Elsewhere, call, Advance, Fail
    <2> SUFFICES ASSUME args.dryRun PROVE DryRunSendsNothing'
      BY <2>1 DEF DryRunSendsNothing
    <2>2. /\ ran = <<>> /\ late = {} /\ completed = <<>>
          /\ \A i \in DOMAIN Steps : i < at => Steps[i].do # "preview"
      BY DEF CallInv, DryRunSendsNothing
    <2>3. ran' = <<>> /\ late' = {} /\ completed' = <<>>
      BY <1>0, <1>3, <2>1, <2>2, OthersRun
    <2>4. ~FileReady
      <3> SUFFICES ASSUME FileReady PROVE FALSE
        OBVIOUS
      <3>1. at \in DOMAIN Steps /\ Steps[at].do = "poll"
        BY <1>0, PlanOfCall DEF FileReady, Doing, TypeOK
      <3> QED BY <1>0, <2>2, <3>1
    <2>5. at' = at \/ (StepsQuietly /\ at' = at + 1)
      BY <1>3, <2>4, FinishIs
         DEF OtherStep, StepsQuietly, EndsQuietly, ShowsPreview, RunLate, Elsewhere, call, Advance, Fail
    <2>6. \A i \in DOMAIN Steps : i < at' => Steps[i].do # "preview"
      <3>1. StepsQuietly => Steps[at].do # "preview"
        BY DEF StepsQuietly
      <3> QED BY <1>0, <2>2, <2>5, <3>1
    <2>7. Steps' = Steps
      BY <2>1, PlanStays
    <2> QED BY <2>3, <2>6, <2>7 DEF DryRunSendsNothing
  <1> QED BY <1>1, <1>2, <1>3 DEF CallStep

\* A call that fails has no redirect with an outcome.
LEMMA NoItemsYet ==
    ASSUME CallInv, Running, at = 1 \/ (at \in DOMAIN Steps /\ Steps[at].do # "item")
    PROVE  \A r \in Items : items[r] = "none"
  <1>1. /\ Len(Steps) \in Nat /\ DOMAIN Steps = 1..Len(Steps) /\ MutatingSteps \subseteq DOMAIN Steps
        /\ \A i \in MutatingSteps : MutationOf(i) \in Items <=> Steps[i].do = "item"
        /\ \A i, j \in DOMAIN Steps : Steps[i].do = "item" /\ i < j => Steps[j].do = "item"
    BY PlanOfCall DEF CallInv, TypeOK
  <1> SUFFICES ASSUME NEW r \in Items, items[r] # "none" PROVE FALSE
    OBVIOUS
  <1>2. PICK i \in MutatingSteps : i < at /\ r = MutationOf(i)
    BY ProgressNow
  <1> QED BY <1>1, <1>2

\* Every step keeps that an answer is derived from the outcomes.
LEMMA AnswerStep ==
    ASSUME CallInv, CallStep
    PROVE  AnswerTrue'
  <1>0. TypeOK /\ Len(Steps) \in Nat /\ at \in 1..(Len(Steps) + 1)
    BY PlanOfCall DEF CallInv, TypeOK
  <1>1. ASSUME Running, at = 1 \/ (at \in DOMAIN Steps /\ Steps[at].do # "item"),
               NEW outcome \in Outcomes, NEW done, Fail(outcome, done)
        PROVE  AnswerTrue'
    <2>1. reply'.kind = "error" /\ completed' = done /\ items' = items /\ (done # <<>> => reply'.notice)
      BY <1>1, FailIs
    <2>2. \A r \in Items : items'[r] = "none"
      BY <1>1, <2>1, NoItemsYet
    <2> QED BY <2>1, <2>2 DEF AnswerTrue
  <1>2. ASSUME Running, reply' = reply PROVE AnswerTrue'
    <2>1. reply' = NoReply /\ reply'.kind = "none"
      BY <1>2 DEF CallInv, AnswerTrue, Running, NoReply
    <2> QED BY <2>1 DEF AnswerTrue
  <1>3. CASE Sends /\ (Completes \/ LeavesOpen)
    <2>1. Running /\ at \in DOMAIN Steps
      BY <1>0, <1>3, SentIs
    <2>2. "none" \in Outcomes
      BY DEF Outcomes
    <2>3. CASE reply' = reply
      BY <1>2, <2>1, <2>3
    <2>4. CASE Steps[at].do # "item" /\ \E outcome \in Outcomes : \E done : Fail(outcome, done)
      BY <1>1, <2>1, <2>4
    <2> QED BY <1>3, <2>2, <2>3, <2>4 DEF Completes, LeavesOpen, Advance, ItemIs
  <1>4. CASE EndsQuietly
    BY <1>1, <1>4 DEF EndsQuietly
  <1>5. CASE StepsQuietly \/ FileReady
    BY <1>2, <1>5 DEF StepsQuietly, FileReady, Advance, Doing
  <1>6. CASE ShowsPreview
    <2>1. reply'.kind = "preview" /\ args'.dryRun
      BY <1>6, PreviewIs DEF ShowsPreview
    <2> QED BY <2>1 DEF AnswerTrue
  <1>7. CASE Finish
    <2>1. /\ UNCHANGED <<args, at, items>> /\ at > Len(Steps) /\ reply'.kind = "result"
          /\ reply'.status = DeriveStatus({items[i] : i \in Named})
          /\ Named \ reply'.items \subseteq {r \in Items : items[r] = "applied"}
      BY <1>7, FinishIs
    <2>2. at' = Len(Steps') + 1
      BY <1>0, <2>1, PlanStays
    <2>3. Named' = Named
      BY <2>1 DEF Named
    <2>4. reply'.status = DeriveStatus({items'[i] : i \in Named'})
      BY <2>1, <2>3
    <2>5. Named' \ reply'.items \subseteq {r \in Items : items'[r] = "applied"}
      BY <2>1, <2>3
    <2> QED BY <2>1, <2>2, <2>4, <2>5 DEF AnswerTrue
  <1>8. CASE (\E l \in late : RunLate(l[1], l[2])) \/ Elsewhere
    <2>1. UNCHANGED <<args, at, completed, items, reply>>
      BY <1>8 DEF RunLate, Elsewhere, call
    <2>2. Steps' = Steps /\ Named' = Named
      BY <2>1, PlanStays DEF Named
    <2> QED BY <2>1, <2>2 DEF CallInv, AnswerTrue
  <1>9. CASE Apply \/ Again
    <2>0. reply' = NoReply
      BY <1>0, <1>9, CallIs
    <2>1. reply' = NoReply /\ reply'.kind = "none"
      BY <2>0 DEF NoReply
    <2> QED BY <2>1 DEF AnswerTrue
  <1> QED BY <1>3, <1>4, <1>5, <1>6, <1>7, <1>8, <1>9 DEF CallStep, OtherStep

\* Every step keeps that the preview shows the whole change.
LEMMA ShownStep ==
    ASSUME CallInv, CallStep
    PROVE  ShownWhole'
  <1>0. TypeOK
    BY DEF CallInv
  <1>1. args'.tool = args.tool /\ args'.given = args.given
    BY <1>0, CallIs, FinishIs
       DEF CallStep, OtherStep, StepsQuietly, EndsQuietly, ShowsPreview, FileReady, RunLate, Elsewhere,
           call, Advance, Fail, Sends
  <1>2. shown' \in {shown, Shown(args.tool, args.given), {}}
    BY <1>0, CallIs, FinishIs
       DEF CallStep, OtherStep, StepsQuietly, EndsQuietly, ShowsPreview, FileReady, RunLate, Elsewhere,
           Idle, Sends
  <1> QED BY <1>1, <1>2 DEF CallInv, ShownWhole

-----------------------------------------------------------------------------
(* What a call looks up.                                                      *)

\* A plan that looks something up does so before its mutation, and has neither
\* redirects nor readings of a file.
Searches(s) ==
    /\ \A i \in DOMAIN s : s[i].op \in Lookups => s[i].do = "read"
    /\ \A i \in DOMAIN s : s[i].do \notin {"item", "poll"}
    /\ \A i \in DOMAIN s : s[i].do \in Mutating => \E j \in DOMAIN s : j < i /\ s[j].op \in Lookups

\* The plan of create_fulfillment is <<read, preview, write>>.
LEMMA FulfillmentSearches ==
    ASSUME NEW g
    PROVE  Searches(CreateFulfillment(g))
  <1> DEFINE a == Step("read", "fulfillmentOrders", 0, {})
             b == Step("preview", "dryRun", 0, {})
             c == Step("write", "fulfillmentCreateV2", 0, {"fields"} \cup g)
             s == <<a>> \o <<b>> \o <<c>>
  <1>1. /\ a.do = "read" /\ a.op \in Lookups
        /\ b.do = "preview" /\ b.op \notin Lookups
        /\ c.do = "write" /\ c.op \notin Lookups
    BY DEF Step, Lookups
  <1>2. CreateFulfillment(g) = s
    BY DEF CreateFulfillment, Read, Preview, Write
  <1> HIDE DEF a, b, c
  <1>3. DOMAIN s = 1..3 /\ s[1] = a /\ s[2] = b /\ s[3] = c
    OBVIOUS
  <1> HIDE DEF s
  <1> QED BY <1>1, <1>2, <1>3 DEF Searches, Mutating

\* The plan of create_discount with segments is <<check, read, read, preview,
\* create, read>>.
LEMMA DiscountSearches ==
    ASSUME NEW g, "customerSegments" \in g
    PROVE  Searches(CreateDiscount(g))
  <1> DEFINE a == Step("check", "arguments", 0, {})
             b == Step("read", "capabilities", 0, {})
             c == Step("read", "segments", 0, {})
             d == Step("preview", "dryRun", 0, {})
             e == Step("create", "discountCodeBasicCreate", 0, {"fields"} \cup g)
             f == Step("read", "discount", 0, {})
             s == <<a>> \o <<b>> \o <<c>> \o <<d>> \o <<e>> \o <<f>>
  <1>1. /\ a.do = "check" /\ a.op \notin Lookups
        /\ b.do = "read" /\ b.op \notin Lookups
        /\ c.do = "read" /\ c.op \in Lookups
        /\ d.do = "preview" /\ d.op \notin Lookups
        /\ e.do = "create" /\ e.op \notin Lookups
        /\ f.do = "read" /\ f.op \notin Lookups
    BY DEF Step, Lookups
  <1>2. CreateDiscount(g) = s
    BY DEF CreateDiscount, Check, Scopes, Read, Preview, Create, When
  <1> HIDE DEF a, b, c, d, e, f
  <1>3. /\ DOMAIN s = 1..6 /\ s[1] = a /\ s[2] = b /\ s[3] = c
        /\ s[4] = d /\ s[5] = e /\ s[6] = f
    OBVIOUS
  <1> HIDE DEF s
  <1> QED BY <1>1, <1>2, <1>3 DEF Searches, Mutating

\* What the call has looked up and what it has sent of it was there during this
\* call, and is still there, as is what the preview showed, unless others changed
\* it; and the mutation is sent with it.
LookupInv ==
    /\ LookupTypeOK
    /\ found \in present /\ lookedUp \in present \cup {{}} /\ sent \in present \cup {{}}
    /\ ~changed => {lookedUp, previewed, sent} \subseteq {{}, found}
    /\ args.dryRun => sent = {} /\ (Running => previewed = {})
    /\ LooksUp =>
         /\ found # {}
         /\ \A i \in DOMAIN Steps : i < at /\ Steps[i].op \in Lookups => lookedUp # {}
         /\ completed # <<>> => sent # {}

\* A call that looks up has a plan that does.
LEMMA CallSearches ==
    ASSUME args \in Arguments, LooksUp
    PROVE  Searches(Steps)
  <1>1. args.tool \in Tools /\ args.given \in SUBSET Optional[args.tool]
    BY ArgumentsAre
  <1>2. CASE args.tool = "create_fulfillment"
    <2>1. Steps = CreateFulfillment(args.given)
      BY <1>2 DEF Steps, Plan
    <2> QED BY <2>1, FulfillmentSearches
  <1>3. CASE args.tool # "create_fulfillment"
    <2>1. "customerSegments" \in args.given
      BY <1>3 DEF LooksUp
    <2>2. args.tool = "create_discount"
      BY <1>1, <2>1 DEF Tools, Optional
    <2>3. Steps = CreateDiscount(args.given)
      BY <2>2 DEF Steps, Plan
    <2> QED BY <2>1, <2>3, DiscountSearches
  <1> QED BY <1>2, <1>3

\* A step that sends nothing and looks nothing up.
LEMMA LookupKept ==
    ASSUME LookupInv, args' = args, UNCHANGED <<finds, completed>>, Running' => Running,
           LooksUp => \A i \in DOMAIN Steps :
                        i < at' /\ Steps[i].op \in Lookups => i < at \/ lookedUp # {}
    PROVE  LookupInv'
  <1>1. UNCHANGED <<found, lookedUp, previewed, sent, present, changed>>
    BY DEF finds
  <1>2. (LooksUp' <=> LooksUp) /\ Steps' = Steps
    BY DEF LooksUp, Steps
  <1>3. LookupTypeOK'
    BY <1>1 DEF LookupInv, LookupTypeOK
  <1>4. /\ found' \in present' /\ lookedUp' \in present' \cup {{}} /\ sent' \in present' \cup {{}}
        /\ ~changed' => {lookedUp', previewed', sent'} \subseteq {{}, found'}
        /\ args'.dryRun => sent' = {} /\ (Running' => previewed' = {})
    BY <1>1 DEF LookupInv
  <1>5. LooksUp =>
         /\ found' # {}
         /\ \A i \in DOMAIN Steps : i < at' /\ Steps[i].op \in Lookups => lookedUp' # {}
         /\ completed' # <<>> => sent' # {}
    BY <1>1 DEF LookupInv
  <1> QED BY <1>2, <1>3, <1>4, <1>5 DEF LookupInv

\* A step of a plan that looks nothing up there.
LEMMA PassesNoLookup ==
    ASSUME CallInv, Running, at \in DOMAIN Steps, LooksUp => Steps[at].op \notin Lookups
    PROVE  LooksUp => \A i \in DOMAIN Steps :
                        i < at + 1 /\ Steps[i].op \in Lookups => i < at \/ lookedUp # {}
  <1>1. DOMAIN Steps = 1..Len(Steps) /\ Len(Steps) \in Nat /\ at \in 1..(Len(Steps) + 1)
    BY PlanOfCall DEF CallInv, TypeOK
  <1> QED BY <1>1

\* A mutation is sent with what was looked up.
LEMMA LookupSent ==
    ASSUME CallInv, LookupInv, Running, at \in MutatingSteps, args' = args, Sent,
           at' \in {at, at + 1}
    PROVE  LookupInv'
  <1>1. /\ sent' = lookedUp /\ UNCHANGED <<found, lookedUp, previewed, present, changed>>
    BY DEF Sent
  <1>2. (LooksUp' <=> LooksUp) /\ Steps' = Steps
    BY DEF LooksUp, Steps
  <1>3. ~args.dryRun
    BY NotSent
  <1>4. LookupTypeOK'
    BY <1>1 DEF LookupInv, LookupTypeOK
  <1>5. ~changed' => {lookedUp', previewed', sent'} \subseteq {{}, found'}
    BY <1>1 DEF LookupInv
  <1>6. LooksUp => lookedUp # {}
    <2> SUFFICES ASSUME LooksUp PROVE lookedUp # {}
      OBVIOUS
    <2>1. Searches(Steps)
      BY CallSearches DEF CallInv, TypeOK
    <2>2. PICK j \in DOMAIN Steps : j < at /\ Steps[j].op \in Lookups
      BY <2>1 DEF Searches, MutatingSteps
    <2> QED BY <2>2 DEF LookupInv
  <1> QED BY <1>1, <1>2, <1>3, <1>4, <1>5, <1>6 DEF LookupInv

\* A redirect is of a call that looks nothing up.
LEMMA NoLookupOfItems ==
    ASSUME CallInv, LookupInv, Doing({"item"}), UNCHANGED finds, args' = args
    PROVE  LookupInv'
  <1>1. at \in DOMAIN Steps /\ Steps[at].do = "item"
    BY PlanOfCall DEF Doing, CallInv, TypeOK
  <1>2. ~LooksUp
    BY <1>1, CallSearches DEF Searches, CallInv, TypeOK
  <1>3. ~args.dryRun
    <2>1. Running /\ at \in MutatingSteps
      BY <1>1 DEF Doing, MutatingSteps, Mutating
    <2> QED BY <2>1, NotSent
  <1>4. UNCHANGED <<found, lookedUp, previewed, sent, present, changed>> /\ ~LooksUp'
    BY <1>2 DEF finds, LooksUp
  <1>5. LookupTypeOK'
    BY <1>4 DEF LookupInv, LookupTypeOK
  <1> QED BY <1>3, <1>4, <1>5 DEF LookupInv

\* An error ends the call.
LEMMA FailEnds ==
    ASSUME NEW outcome, NEW done, Fail(outcome, done)
    PROVE  completed' = done /\ UNCHANGED <<args, at, items>> /\ ~Running'
  <1>1. reply'.kind = "error"
    BY DEF Fail, Fitted, NoReply
  <1> QED BY <1>1 DEF Fail, Running

\* A preview that is shown ends the dry run.
LEMMA PreviewEnds ==
    ASSUME reply' \in Fitted([NoReply EXCEPT !.kind = "preview"])
    PROVE  ~Running'
  <1>1. reply'.kind = "preview"
    BY DEF Fitted, NoReply
  <1> QED BY <1>1 DEF Running

\* Every step keeps it.
LEMMA LookupStep ==
    ASSUME CallInv, LookupInv, [Next]_vars
    PROVE  LookupInv'
  <1>0. /\ TypeOK /\ DOMAIN Steps = 1..Len(Steps) /\ Len(Steps) \in Nat
        /\ at \in 1..(Len(Steps) + 1)
    BY PlanOfCall DEF CallInv, TypeOK
  <1>1. \A kinds : Doing(kinds) => Running /\ at \in DOMAIN Steps /\ Steps[at].do \in kinds
    BY <1>0 DEF Doing
  <1>2. LooksUp => Searches(Steps)
    BY CallSearches DEF CallInv, TypeOK
  <1>3. ASSUME NEW outcome, Fail(outcome, completed), UNCHANGED finds PROVE LookupInv'
    <2>1. args' = args /\ at' = at /\ completed' = completed /\ ~Running'
      BY <1>3, FailEnds
    <2> QED BY <2>1, <1>3, LookupKept
  <1>4. ASSUME NEW kinds, Doing(kinds), "read" \notin kinds, Advance(completed), UNCHANGED finds
        PROVE  LookupInv'
    <2>1. args' = args /\ at' = at + 1 /\ completed' = completed /\ Running' = Running
      BY <1>4 DEF Advance, Running
    <2>2. LooksUp => Steps[at].op \notin Lookups
      BY <1>1, <1>2, <1>4 DEF Searches
    <2> QED BY <2>1, <2>2, <1>1, <1>4, PassesNoLookup, LookupKept
  <1>5. ASSUME NEW kinds, Doing(kinds), kinds \subseteq Mutating, Sent,
               \/ Advance(Append(completed, Mutation))
               \/ \E outcome, done : Fail(outcome, done)
        PROVE  LookupInv'
    <2>1. Running /\ at \in MutatingSteps
      BY <1>1, <1>5 DEF MutatingSteps
    <2>2. args' = args /\ at' \in {at, at + 1}
      BY <1>5 DEF Advance, Fail
    <2> QED BY <2>1, <2>2, <1>5, LookupSent
  <1>6. CASE NoStore
    BY <1>6, <1>3 DEF NoStore, Idle
  <1>7. CASE NoLegacySchema
    BY <1>7, <1>3 DEF NoLegacySchema, Idle
  <1>8. CASE CheckArguments
    BY <1>8, <1>3, <1>4 DEF CheckArguments, Idle
  <1>9. CASE ShowPreview
    <2>1. CASE ~args.dryRun
      BY <2>1, <1>9, <1>4 DEF ShowPreview, finds
    <2>2. CASE args.dryRun
      <3>1. /\ previewed' \in {{}, lookedUp} /\ UNCHANGED <<found, lookedUp, sent, present, changed>>
            /\ UNCHANGED <<args, at, completed>> /\ ~Running'
        BY <2>2, <1>9, PreviewEnds DEF ShowPreview
      <3>2. (LooksUp' <=> LooksUp) /\ Steps' = Steps
        BY <3>1 DEF LooksUp, Steps
      <3>3. LookupTypeOK'
        BY <3>1 DEF LookupInv, LookupTypeOK
      <3>4. ~changed' => {lookedUp', previewed', sent'} \subseteq {{}, found'}
        BY <3>1 DEF LookupInv
      <3> QED BY <3>1, <3>2, <3>3, <3>4 DEF LookupInv
    <2> QED BY <2>1, <2>2
  <1>10. CASE ReadPasses
    <2>0. /\ Running /\ at \in DOMAIN Steps /\ Remember
          /\ args' = args /\ at' = at + 1 /\ completed' = completed /\ Running' = Running
      BY <1>10, <1>1 DEF ReadPasses, Advance, Running
    <2>1. CASE Steps[at].op \notin Lookups
      BY <2>0, <2>1, PassesNoLookup, LookupKept DEF Remember
    <2>2. CASE Steps[at].op \in Lookups
      <3>1. /\ lookedUp' = found /\ changed' = (changed /\ ~args.dryRun)
            /\ UNCHANGED <<found, previewed, sent, present>>
        BY <2>0, <2>2 DEF Remember, FoundNow
      <3>2. (LooksUp' <=> LooksUp) /\ Steps' = Steps
        BY <2>0 DEF LooksUp, Steps
      <3>3. LookupTypeOK'
        BY <3>1 DEF LookupInv, LookupTypeOK
      <3>4. ~changed' => {lookedUp', previewed', sent'} \subseteq {{}, found'}
        <4>1. CASE args.dryRun
          BY <4>1, <2>0, <3>1 DEF LookupInv
        <4>2. CASE ~args.dryRun
          <5>1. changed' <=> changed
            BY <4>2, <3>1
          <5> QED BY <5>1, <3>1 DEF LookupInv
        <4> QED BY <4>1, <4>2
      <3>5. LooksUp => found # {} /\ lookedUp' # {} /\ (completed' # <<>> => sent' # {})
        BY <2>0, <3>1 DEF LookupInv
      <3>6. /\ found' \in present' /\ lookedUp' \in present' \cup {{}}
            /\ sent' \in present' \cup {{}}
            /\ args'.dryRun => sent' = {} /\ (Running' => previewed' = {})
        BY <2>0, <3>1 DEF LookupInv
      <3> QED BY <3>1, <3>2, <3>3, <3>4, <3>5, <3>6 DEF LookupInv
    <2> QED BY <2>1, <2>2
  <1>11. CASE ReadDoesNotPass
    BY <1>11, <1>3 DEF ReadDoesNotPass, Idle
  <1>12. CASE ReadFails
    BY <1>12, <1>3 DEF ReadFails, Idle
  <1>13. CASE FileReady
    <2>1. ~LooksUp
      BY <1>13, <1>1, <1>2 DEF FileReady, Searches
    <2>2. UNCHANGED <<args, completed, reply, finds>> /\ (Running' <=> Running)
      BY <1>13 DEF FileReady, Idle, Running
    <2> QED BY <2>1, <2>2, LookupKept
  <1>14. CASE FileProcessing
    BY <1>14, <1>4 DEF FileProcessing, Idle
  <1>15. CASE Answered
    BY <1>15, <1>5 DEF Answered, Mutating
  <1>16. CASE WithoutId
    BY <1>16, <1>5 DEF WithoutId, Mutating
  <1>17. CASE Rejected
    BY <1>17, <1>5 DEF Rejected, Mutating
  <1>18. CASE NoData
    BY <1>18, <1>5 DEF NoData, Mutating
  <1>19. CASE Invalid
    BY <1>19, <1>3 DEF Invalid, Idle
  <1>20. CASE GiveUp
    BY <1>20, <1>5 DEF GiveUp, Mutating
  <1>21. CASE ItemApplied
    BY <1>21, NoLookupOfItems DEF ItemApplied, ItemIs
  <1>22. CASE ItemRejected
    BY <1>22, NoLookupOfItems DEF ItemRejected, ItemIs
  <1>23. CASE ItemWithoutOutcome
    BY <1>23, NoLookupOfItems DEF ItemWithoutOutcome, ItemIs
  <1>24. CASE ItemGivenUp
    BY <1>24, NoLookupOfItems DEF ItemGivenUp, ItemIs
  <1>25. CASE Finish
    <2>1. UNCHANGED <<args, at, completed, finds>> /\ Running
      BY <1>25 DEF Finish, Idle
    <2> QED BY <2>1, LookupKept
  <1>26. CASE \E l \in late : RunLate(l[1], l[2])
    <2>1. UNCHANGED <<call, finds>>
      BY <1>26 DEF RunLate
    <2>2. UNCHANGED <<args, at, completed, reply, finds>> /\ (Running' <=> Running)
      BY <2>1 DEF call, Running
    <2> QED BY <2>2, LookupKept
  <1>27. CASE Restock
    <2>1. UNCHANGED <<args, at, completed, reply, finds>> /\ (Running' <=> Running)
      BY <1>27 DEF Restock, call, Running
    <2> QED BY <2>1, LookupKept
  <1>28. CASE OthersEdit
    <2>1. PICK f \in Findings \ {found} : found' = f /\ present' = present \cup {f}
      BY <1>28 DEF OthersEdit
    <2>2. /\ changed' = TRUE /\ UNCHANGED <<lookedUp, previewed, sent>>
          /\ UNCHANGED <<args, at, completed, reply>> /\ (Running' <=> Running)
      BY <1>28 DEF OthersEdit, call, Running
    <2>3. (LooksUp' <=> LooksUp) /\ Steps' = Steps
      BY <2>2 DEF LooksUp, Steps
    <2>4. LookupTypeOK'
      BY <2>1, <2>2 DEF LookupInv, LookupTypeOK
    <2>5. found' # {}
      BY <2>1, MultiStepToolsAssumption
    <2>6. /\ found' \in present' /\ lookedUp' \in present' \cup {{}}
          /\ sent' \in present' \cup {{}}
      BY <2>1, <2>2 DEF LookupInv
    <2> QED BY <2>2, <2>3, <2>4, <2>5, <2>6 DEF LookupInv
  <1>29. CASE Apply \/ Again
    <2>1. /\ args'.tool = args.tool /\ args'.given = args.given /\ ~args'.dryRun
          /\ at' = 1 /\ completed' = <<>>
          /\ lookedUp' = {} /\ sent' = {} /\ present' = {found}
          /\ UNCHANGED <<found, previewed, changed>>
      BY <1>29, ArgumentsAre DEF Apply, Again, Call, TypeOK, CallInv
    <2>2. (LooksUp' <=> LooksUp) /\ Steps' = Steps
      BY <2>1, PlanStays DEF LooksUp
    <2>3. LookupTypeOK'
      BY <2>1 DEF LookupInv, LookupTypeOK
    <2>4. LooksUp => \A i \in DOMAIN Steps : ~(i < at')
      BY <1>0, <2>1
    <2>5. ~changed' => {lookedUp', previewed', sent'} \subseteq {{}, found'}
      BY <2>1 DEF LookupInv
    <2> QED BY <2>1, <2>2, <2>3, <2>4, <2>5 DEF LookupInv
  <1>30. CASE UNCHANGED vars
    <2>1. UNCHANGED <<args, at, completed, reply, finds>> /\ (Running' <=> Running)
      BY <1>30 DEF vars, call, Running
    <2> QED BY <2>1, LookupKept
  <1> QED BY <1>6, <1>7, <1>8, <1>9, <1>10, <1>11, <1>12, <1>13, <1>14, <1>15, <1>16,
             <1>17, <1>18, <1>19, <1>20, <1>21, <1>22, <1>23, <1>24, <1>25, <1>26, <1>27,
             <1>28, <1>29, <1>30 DEF Next

-----------------------------------------------------------------------------
(* The inductive invariant.                                                   *)

\* The invariant is inductive.
LEMMA CallInductive ==
    ASSUME CallInv, [Next]_vars
    PROVE  CallInv'
  <1>1. CASE Next
    <2>1. CallStep
      BY <1>1, CallSteps DEF CallInv
    <2>2. TypeOK'
      BY <2>1, TypesHold DEF CallInv
    <2>3. KeysUsed' /\ RunsOnceMore' /\ ~clobbered'
      BY <2>1, ShopStep DEF ShopInv
    <2> QED BY <2>1, <2>2, <2>3, ProgressStep, KnownStep, RejectedStep, DryRunStep, AnswerStep,
               ShownStep DEF CallInv
  <1>2. CASE UNCHANGED vars
    <2>1. UNCHANGED <<args, at, completed, items, reply, quantity, late, ran, keys, clobbered,
                      calls, shown, doubtful>>
      BY <1>2 DEF vars, call, shop
    <2> QED BY <2>1 DEF CallInv, TypeOK, Progress, Known, RejectedNotRun, KeysUsed, RunsOnceMore,
               DryRunSendsNothing, AnswerTrue, ShownWhole, Arguments, Steps, Mutations, MutatingSteps,
               MutationOf, Mutation, Over, Running, HasRun, MayHaveRun, OwnKey, Named
  <1> QED BY <1>1, <1>2

\* Before a call no mutation has run.
LEMMA NothingRan ==
    ASSUME ran = <<>>, late = {}
    PROVE  \A m : ~MayHaveRun(m) /\ ~HasRun(m)
  BY DEF MayHaveRun, HasRun, ToSet

\* Before its first request a call has nothing to tell.
LEMMA FreshCall ==
    ASSUME args \in Arguments, at = 1, completed = <<>>, items = [i \in Items |-> "none"],
           quantity \in Quantities \cup {0}, late = {}, ran = <<>>, keys = {}, clobbered = FALSE,
           calls = 1, shown = {}, doubtful = {}, reply.outcome \in Outcomes, reply.status \in Statuses,
           reply.listed \in BOOLEAN, reply.notice \in BOOLEAN, reply.items = {},
           reply = NoReply \/ reply.kind = "error"
    PROVE  CallInv
  <1>1. /\ Len(Steps) \in Nat /\ MutatingSteps \subseteq DOMAIN Steps
        /\ DOMAIN Steps = 1..Len(Steps)
    BY PlanOfCall
  <1>2. reply.kind \in {"none", "error"} /\ (reply.kind = "none" => reply = NoReply)
    BY DEF NoReply
  <1>3. ToSet(completed) = {}
    BY DEF ToSet
  <1>4. TypeOK
    <2>1. at \in 1..(Len(Steps) + 1) /\ calls \in 1..MaxCalls
      BY <1>1, MultiStepToolsAssumption
    <2>2. completed \in Seq(Mutations) /\ ran \in Seq(Mutations)
      OBVIOUS
    <2>3. items \in [Items -> {"none", "applied", "rejected", "unknown"}]
      OBVIOUS
    <2> QED BY <1>2, <2>1, <2>2, <2>3 DEF TypeOK
  <1>5. \A i \in MutatingSteps : ~(i < at)
    BY <1>1
  <1>6. Progress
    BY <1>3, <1>5 DEF Progress
  <1>7. Known /\ RejectedNotRun
    BY NothingRan DEF Known, RejectedNotRun
  <1>8. KeysUsed /\ RunsOnceMore
    BY NothingRan DEF KeysUsed, RunsOnceMore
  <1>9. DryRunSendsNothing
    BY <1>1 DEF DryRunSendsNothing
  <1>10. AnswerTrue
    BY <1>2 DEF AnswerTrue
  <1> QED BY <1>4, <1>6, <1>7, <1>8, <1>9, <1>10 DEF CallInv, ShownWhole

\* The invariant holds at first.
LEMMA CallInitInv ==
    ASSUME ToolInit
    PROVE  CallInv
  <1>1. CASE Init
    <2>1. quantity \in Quantities \cup {0}
      BY <1>1 DEF Init
    <2>2. /\ reply = NoReply /\ reply.outcome \in Outcomes /\ reply.status \in Statuses
          /\ reply.listed \in BOOLEAN /\ reply.notice \in BOOLEAN /\ reply.items = {}
      BY <1>1 DEF Init, NoReply, Outcomes, Statuses
    <2> QED BY <1>1, <2>1, <2>2, FreshCall DEF Init
  <1>2. CASE NoTool
    <2>1. args \in Arguments
      <3>1. "tags" \in Tools /\ Optional["tags"] = {"add", "remove"}
        BY DEF Tools, Optional
      <3>2. PICK a, o : a = args /\ o = SUBSET Optional["tags"]
        OBVIOUS
      <3>3. a \in [tool : {"tags"}, dryRun : BOOLEAN, given : o, from : {0}, to : {0}]
        BY <1>2, <3>1, <3>2 DEF NoTool
      <3>4. (IF "tags" = "set_inventory" THEN Quantities ELSE {0}) = {0}
        OBVIOUS
      <3> QED BY <3>1, <3>2, <3>3, <3>4 DEF Arguments
    <2>2. /\ reply.kind = "error" /\ reply.outcome \in Outcomes /\ reply.status \in Statuses
          /\ reply.listed \in BOOLEAN /\ reply.notice \in BOOLEAN /\ reply.items = {}
      BY <1>2 DEF NoTool, NoReply, Outcomes, Statuses
    <2> QED BY <1>2, <2>1, <2>2, FreshCall DEF NoTool
  <1> QED BY <1>1, <1>2 DEF ToolInit

\* Every state of a call satisfies CallInv.
THEOREM CallInvariant == ToolSpec => []CallInv
  <1>1. ToolInit => CallInv
    BY CallInitInv
  <1>2. CallInv /\ [ToolNext]_<<vars, reports>> => CallInv'
    <2> SUFFICES ASSUME CallInv, [ToolNext]_<<vars, reports>> PROVE CallInv'
      OBVIOUS
    <2>1. [Next]_vars
      BY DEF ToolNext
    <2> QED BY <2>1, CallInductive
  <1> QED BY <1>1, <1>2, PTL DEF ToolSpec

\* What a call looks up is what there was, and the mutation is sent with it.
LEMMA LookupHolds == ToolSpec => []LookupInv
  <1>1. ToolInit => LookupInv
    <2> SUFFICES ASSUME ToolInit PROVE LookupInv
      OBVIOUS
    <2>1. CallInv
      BY CallInitInv
    <2>2. DOMAIN Steps = 1..Len(Steps)
      BY <2>1, PlanOfCall DEF CallInv, TypeOK
    <2>3. /\ at = 1 /\ completed = <<>> /\ lookedUp = {} /\ previewed = {} /\ sent = {}
          /\ present = {found} /\ changed = FALSE
          /\ found \in IF LooksUp THEN Findings ELSE {{}}
      <3>1. CASE Init
        BY <3>1 DEF Init
      <3>2. CASE NoTool
        <4>1. ~LooksUp
          BY <3>2 DEF NoTool, LooksUp
        <4> QED BY <3>2, <4>1 DEF NoTool
      <3> QED BY <3>1, <3>2 DEF ToolInit
    <2>4. LookupTypeOK
      BY <2>3 DEF LookupTypeOK
    <2>5. LooksUp => found # {}
      BY <2>3, MultiStepToolsAssumption
    <2>6. \A i \in DOMAIN Steps : ~(i < at)
      BY <2>2, <2>3
    <2> QED BY <2>3, <2>4, <2>5, <2>6 DEF LookupInv
  <1>2. CallInv /\ LookupInv /\ [ToolNext]_<<vars, reports>> => LookupInv'
    <2> SUFFICES ASSUME CallInv, LookupInv, [ToolNext]_<<vars, reports>> PROVE LookupInv'
      OBVIOUS
    <2>1. [Next]_vars
      BY DEF ToolNext
    <2> QED BY <2>1, LookupStep
  <1> QED BY <1>1, <1>2, CallInvariant, PTL DEF ToolSpec

\* The status of an answer says what became of the redirects.
LEMMA StatusSays ==
    ASSUME NEW os, os \subseteq {"applied", "rejected", "unknown"}
    PROVE  /\ DeriveStatus(os) = "ok" => os \subseteq {"applied"}
           /\ DeriveStatus(os) = "failed" => os \subseteq {"rejected"}
  BY DEF DeriveStatus

\* The invariant makes every reply tell all.
LEMMA TellsAll ==
    ASSUME CallInv
    PROVE  ReplyTellsAll
  <1> SUFFICES ASSUME ~Running PROVE ReplyTellsAll
    BY DEF ReplyTellsAll
  <1>0. /\ reply.kind \in {"preview", "error", "result"} /\ completed \in Seq(Mutations)
        /\ items \in [Items -> {"none", "applied", "rejected", "unknown"}]
        /\ args.dryRun \in BOOLEAN
    BY ArgumentsAre DEF CallInv, TypeOK, Running
  <1>1. reply.kind = "preview" => completed = <<>> /\ ToSet(completed) = {} /\ \A m : ~MayHaveRun(m)
    BY NothingRan DEF CallInv, AnswerTrue, DryRunSendsNothing, ToSet
  <1>2. reply.kind = "error" =>
          /\ completed # <<>> => reply.notice
          /\ \A r \in Items : items[r] = "none"
    BY DEF CallInv, AnswerTrue
  <1>3. reply.kind = "result" =>
          /\ at = Len(Steps) + 1
          /\ Named \ reply.items \subseteq {r \in Items : items[r] = "applied"}
          /\ reply.status = DeriveStatus({items[r] : r \in Named})
    BY DEF CallInv, AnswerTrue
  <1>4. \A m \in ToSet(completed) : HasRun(m)
    BY DEF CallInv, Progress
  <1>5. \A r \in Items : items[r] = "applied" => HasRun(r)
    BY <1>4 DEF CallInv, Progress
  <1>6. \A m \in ToSet(completed) : reply.listed \/ reply.notice \/ reply.kind = "result"
    <2>1. completed = <<>> => ToSet(completed) = {}
      BY DEF ToSet
    <2> QED BY <1>0, <1>1, <1>2, <2>1
  <1>7. \A m \in Mutations : MayHaveRun(m) =>
          \/ m \in doubtful
          \/ m \in ToSet(completed) /\ (reply.listed \/ reply.notice \/ reply.kind = "result")
          \/ m \in Items /\ items[m] = "unknown" /\ m \in reply.items
          \/ reply.outcome \in {"unknown", "rejected_or_partial"} /\ m = Mutation
          \/ OwnKey(m) /\ calls > 1
    <2> SUFFICES ASSUME NEW m \in Mutations, MayHaveRun(m)
                 PROVE  \/ m \in doubtful
                        \/ m \in ToSet(completed) /\ (reply.listed \/ reply.notice \/ reply.kind = "result")
                        \/ m \in Items /\ items[m] = "unknown" /\ m \in reply.items
                        \/ reply.outcome \in {"unknown", "rejected_or_partial"} /\ m = Mutation
                        \/ OwnKey(m) /\ calls > 1
      OBVIOUS
    <2>1. m \in Items /\ items[m] = "unknown" => m \in reply.items
      BY <1>0, <1>1, <1>2, <1>3 DEF Named
    <2> QED BY <1>6, <2>1 DEF CallInv, Known
  <1>8. \A i \in Named :
          /\ items[i] = "applied" => HasRun(i)
          /\ items[i] = "rejected" /\ i \notin doubtful => ~MayHaveRun(i)
    BY <1>5 DEF CallInv, RejectedNotRun, Named
  <1>9. reply.kind = "result" =>
          /\ \A i \in Named \ reply.items : HasRun(i)
          /\ reply.status = "ok" => \A m \in Mutations : HasRun(m)
          /\ reply.status = "failed" => \A i \in Named \ doubtful : ~MayHaveRun(i)
    <2> SUFFICES ASSUME reply.kind = "result"
                 PROVE  /\ \A i \in Named \ reply.items : HasRun(i)
                        /\ reply.status = "ok" => \A m \in Mutations : HasRun(m)
                        /\ reply.status = "failed" => \A i \in Named \ doubtful : ~MayHaveRun(i)
      OBVIOUS
    <2> DEFINE os == {items[r] : r \in Named}
    <2>1. Named \subseteq Items /\ os \subseteq {"applied", "rejected", "unknown"}
      BY <1>0 DEF Named
    <2>2. reply.status = DeriveStatus(os)
      BY <1>3
    <2>3. \A r \in Named : items[r] \in os
      OBVIOUS
    <2> HIDE DEF os
    <2>4. /\ reply.status = "ok" => \A r \in Named : items[r] = "applied"
          /\ reply.status = "failed" => \A r \in Named : items[r] = "rejected"
      BY <2>1, <2>2, <2>3, StatusSays
    <2>5. \A i \in Named \ reply.items : HasRun(i)
      BY <1>3, <1>5
    <2>6. ASSUME reply.status = "ok", NEW m \in Mutations PROVE HasRun(m)
      <3>1. /\ Len(Steps) \in Nat /\ DOMAIN Steps = 1..Len(Steps) /\ MutatingSteps \subseteq DOMAIN Steps
            /\ Mutations = {MutationOf(i) : i \in MutatingSteps}
            /\ \A i \in MutatingSteps : MutationOf(i) \in Items <=> Steps[i].do = "item"
        BY PlanOfCall DEF CallInv, TypeOK
      <3>2. PICK i \in MutatingSteps : m = MutationOf(i)
        BY <3>1
      <3>3. i < at
        BY <1>3, <3>1
      <3>4. CASE m \in ToSet(completed)
        BY <3>4, <1>4
      <3>5. CASE Steps[i].do = "item" /\ items[m] # "none"
        <4>1. m \in Named
          BY <3>1, <3>2, <3>5 DEF Named
        <4> QED BY <2>1, <2>4, <2>6, <4>1, <1>5
      <3> QED BY <3>2, <3>3, <3>4, <3>5 DEF CallInv, Progress
    <2>7. reply.status = "failed" => \A i \in Named \ doubtful : ~MayHaveRun(i)
      BY <1>8, <2>4
    <2> QED BY <2>5, <2>6, <2>7
  <1>10. reply.kind = "error" /\ completed # <<>> => reply.notice
    BY <1>2
  <1>11. reply.kind = "preview" => \A m \in Mutations : MayHaveRun(m) => m \in doubtful
    BY <1>1
  <1> QED BY <1>4, <1>7, <1>8, <1>9, <1>10, <1>11 DEF ReplyTellsAll

\* The invariant makes a call apply its preview.
LEMMA AppliesPreview ==
    ASSUME CallInv, LookupInv
    PROVE  PreviewIsApplied
  <1> DEFINE done == {j \in DOMAIN Steps : <<Steps[j].op, Steps[j].n>> \in ToSet(completed)}
             given == UNION {Steps[i].with : i \in done}
             whole == /\ given \subseteq shown \cup {"tracking"}
                      /\ reply.kind = "result" /\ reply.status = "ok" => shown \subseteq given
  <1>0. ASSUME shown # {} => whole PROVE PreviewIsApplied
    <2>1. /\ LooksUp /\ completed # <<>> => sent # {}
          /\ sent # {} => sent \in present /\ (previewed \in {{}, sent} \/ changed)
      BY DEF LookupInv
    <2> QED BY <1>0, <2>1 DEF PreviewIsApplied
  <1> SUFFICES ASSUME shown # {} PROVE whole
    BY <1>0
  <1>1. shown = Shown(args.tool, args.given)
    BY DEF CallInv, ShownWhole
  <1>2. /\ \A i \in DOMAIN Steps : Steps[i].with \subseteq shown \cup {"tracking"}
        /\ \A x \in shown : \E i \in MutatingSteps : x \in Steps[i].with
        /\ Len(Steps) \in Nat /\ DOMAIN Steps = 1..Len(Steps) /\ MutatingSteps \subseteq DOMAIN Steps
        /\ \A i \in MutatingSteps : MutationOf(i) \in Items <=> Steps[i].do = "item"
    BY <1>1, PlanOfCall DEF CallInv, TypeOK
  <1>3. given \subseteq shown \cup {"tracking"}
    BY <1>2
  <1>4. ASSUME reply.kind = "result", reply.status = "ok", NEW x \in shown PROVE x \in given
    <2>1. PICK i \in MutatingSteps : x \in Steps[i].with
      BY <1>2
    <2>2. at = Len(Steps) + 1 /\ reply.status = DeriveStatus({items[r] : r \in Named})
      BY <1>4 DEF CallInv, AnswerTrue
    <2>3. i < at
      BY <1>2, <2>2
    <2>4. MutationOf(i) \in ToSet(completed)
      <3>1. CASE Steps[i].do = "item" /\ items[MutationOf(i)] # "none"
        <4>1. MutationOf(i) \in Named /\ MutationOf(i) \in Items
          BY <1>2, <3>1 DEF Named
        <4>2. items \in [Items -> {"none", "applied", "rejected", "unknown"}]
          BY DEF CallInv, TypeOK
        <4> DEFINE os == {items[r] : r \in Named}
        <4>3. os \subseteq {"applied", "rejected", "unknown"} /\ items[MutationOf(i)] \in os
          BY <4>1, <4>2 DEF Named
        <4>4. DeriveStatus(os) = "ok"
          BY <1>4, <2>2
        <4> HIDE DEF os
        <4>5. items[MutationOf(i)] = "applied"
          BY <4>3, <4>4, StatusSays
        <4> QED BY <4>1, <4>5 DEF CallInv, Progress
      <3> QED BY <2>3, <3>1 DEF CallInv, Progress
    <2>5. i \in done
      BY <1>2, <2>4 DEF MutationOf
    <2> QED BY <2>1, <2>5
  <1> QED BY <1>3, <1>4

\* Whatever happens to its requests, what a call answers tells every mutation
\* that ran or may still run, and says of none that it ran when it did not; with
\* the two exceptions of ReplyTellsAll: a mutation whose answer, with no data or,
\* for a redirect, with errors, is taken for one that did nothing, and what an
\* earlier call did with the same key.
THEOREM CallReplyTellsAll == ToolSpec => []ReplyTellsAll
  <1>1. CallInv => ReplyTellsAll
    BY TellsAll
  <1> QED BY <1>1, CallInvariant, PTL

\* A call that is applied sends the arguments its preview showed, but for the
\* tracking of a fulfillment that no preview shows, and all of them once it
\* succeeds; and with them what it looked up itself, which differs from what the
\* preview showed only when others changed it since.
THEOREM CallPreviewIsApplied == ToolSpec => []PreviewIsApplied
  <1>1. CallInv /\ LookupInv => PreviewIsApplied
    BY AppliesPreview
  <1> QED BY <1>1, CallInvariant, LookupHolds, PTL

\* Repeated calls run no mutation twice and replace no quantity that was not
\* compared.
THEOREM CallRepeatRunsOnce == ToolSpec => []RepeatRunsOnce
  <1>1. CallInv => RepeatRunsOnce
    BY DEF CallInv, RunsOnceMore, RepeatRunsOnce
  <1> QED BY <1>1, CallInvariant, PTL
-----------------------------------------------------------------------------
(* Reports: the invariant of a report.                                        *)

\* What the reading of a store that is under way, or done, looks for.
Listing(s) ==
    {n \in R!Has(s) : report = "low_stock" =>
       IF round = 1 THEN n[2] <= Threshold ELSE R!KeyOf(n[1]) \in first.skus}

\* A record was read, or is among the variants that are still to be read.
Covered(s, n) == n \in nodes[s] \/ \E c \in R!Cursors : <<R!KeyOf(n[1]), c>> \in more[s] /\ n[1] > c

\* A store that answered as it should was read without a gap as far as its
\* reading is.
Coverage(s) ==
    s \notin erred \cup strayed \cup blank => \A n \in Listing(s) : n[1] \notin moved[s] =>
      /\ report = "gap" /\ phase[s] = "read" => s \in cut \/ R!Shows(s, R!KeyOf(n[1])) # {}
      /\ report # "gap" /\ phase[s] = "list" /\ R!Place(n) <= after[s] => Covered(s, n)
      /\ report # "gap" /\ phase[s] \in {"variants", "read"} => Covered(s, n)

\* Where a reading is, and what is left of it.
Reading(s) ==
    /\ phase[s] = "variants" <=> (more[s] # {} /\ phase[s] # "list")
    /\ phase[s] # "list" \/ report = "gap" => after[s] = 0
    /\ report # "catalog" => more[s] = {}
    /\ phase[s] = "failed" => nodes[s] = {}
    /\ round = 0 /\ report # "low_stock" => phase[s] \in {"read", "failed"}

\* What a store has had.
History(s) ==
    /\ R!Has(s) \subseteq held[s] /\ nodes[s] \subseteq held[s]
    /\ changes = 0 => moved[s] = {} /\ held[s] = R!Has(s)

StoreInv(s) == Reading(s) /\ History(s) /\ Coverage(s)

\* What the first round of a low stock report came to.
FirstRound ==
    report = "low_stock" /\ round # 1 =>
      /\ \A s \in Stores : first.nodes[s] \subseteq held[s]
      /\ first.skus \subseteq R!OutOfStock(first.nodes)
      /\ R!Cardinality(first.skus) =
           R!Min({SkuLimit, R!Cardinality(R!OutOfStock(first.nodes))})
      /\ \A s \in first.ok \ (strayed \cup blank) : \A n \in R!Has(s) :
           n[1] \notin moved[s] /\ n[2] <= Threshold => n \in first.nodes[s]

ReportTypes ==
    /\ report \in R!Reports /\ round \in 0..2
    /\ content \in [Stores -> [Records -> Values \cup {None}]]
    /\ phase \in [Stores -> R!Phases] /\ after \in [Stores -> R!Cursors \cup {0}]
    /\ seen \in [Stores -> SUBSET R!Cursors]
    /\ nodes \in [Stores -> SUBSET (Records \X Values)]
    /\ more \in [Stores -> SUBSET (R!Keys \X R!Cursors)]
    /\ held \in [Stores -> SUBSET (Records \X Values)] /\ moved \in [Stores -> SUBSET Records]
    /\ erred \subseteq Stores /\ cut \subseteq Stores
    /\ first \in [ok : SUBSET Stores, nodes : [Stores -> SUBSET (Records \X Values)],
                  skus : SUBSET R!Keys]
    /\ changes \in 0..MaxChanges /\ strayed \subseteq Stores /\ blank \subseteq Stores

ReportInv == ReportTypes /\ FirstRound /\ \A s \in Stores : StoreInv(s)

-----------------------------------------------------------------------------
(* Reports: pages.                                                            *)

\* Finiteness and cardinality, as Reports has them, are those of the library.
LEMMA SameFinite == \A S : R!IsFiniteSet(S) = IsFiniteSet(S)
  BY DEF R!IsFiniteSet, IsFiniteSet

LEMMA SameCardinality == \A S : R!Cardinality(S) = Cardinality(S)
  BY DEF R!Cardinality, Cardinality

\* A finite set of numbers that is not empty has a greatest element.
LEMMA Greatest ==
    ASSUME NEW S \in SUBSET Int, IsFiniteSet(S), S # {}
    PROVE  R!Max(S) \in S /\ \A x \in S : x <= R!Max(S)
  <1> DEFINE Above(p) == {q \in S : q > p}
             T == {Above(p) : p \in S}
  <1>1. T # {} /\ T \subseteq FiniteSubsetsOf(S)
    <2>1. \A p \in S : Above(p) \in SUBSET S
      OBVIOUS
    <2>2. FiniteSubsetsOf(S) = SUBSET S
      BY FS_FiniteSubsetsOfFinite
    <2>3. PICK p \in S : TRUE
      OBVIOUS
    <2>4. Above(p) \in T
      OBVIOUS
    <2>5. \A y \in T : y \in SUBSET S
      BY <2>1
    <2> QED BY <2>4, <2>5, <2>1, <2>2
  <1>2. PICK t \in T : \A y \in T : <<y, t>> \notin StrictSubsetOrdering(S)
    <2> HIDE DEF T
    <2> QED BY <1>1, WFMin, FS_StrictSubsetOrderingWellFounded
  <1>3. PICK p \in S : t = Above(p)
    BY <1>2
  <1>4. \A q \in S : q <= p
    <2> SUFFICES ASSUME NEW q \in S, q > p PROVE FALSE
      OBVIOUS
    <2> p \in Int /\ q \in Int
      OBVIOUS
    <2>0. \A x \in S : x \in Int
      OBVIOUS
    <2>1. Above(q) \in T /\ Above(q) \subseteq t /\ q \in t /\ q \notin Above(q)
      <3>1. \A x \in S : x > q => x > p
        BY <2>0
      <3>2. ~(q > q)
        OBVIOUS
      <3> QED BY <1>3, <3>1, <3>2
    <2>2. <<Above(q), t>> \in StrictSubsetOrdering(S)
      BY <2>1, <1>3 DEF StrictSubsetOrdering
    <2> QED BY <2>1, <2>2, <1>2
  <1>5. \E x \in S : \A y \in S : x >= y
    BY <1>4
  <1>6. R!Max(S) \in S /\ \A y \in S : R!Max(S) >= y
    BY <1>5 DEF R!Max
  <1> QED BY <1>6

\* And a least one.
LEMMA Least ==
    ASSUME NEW S \in SUBSET Int, IsFiniteSet(S), S # {}
    PROVE  R!Min(S) \in S /\ \A x \in S : R!Min(S) <= x
  <1> DEFINE Below(p) == {q \in S : q < p}
             T == {Below(p) : p \in S}
  <1>1. T # {} /\ T \subseteq FiniteSubsetsOf(S)
    <2>1. \A p \in S : Below(p) \in SUBSET S
      OBVIOUS
    <2>2. FiniteSubsetsOf(S) = SUBSET S
      BY FS_FiniteSubsetsOfFinite
    <2>3. PICK p \in S : TRUE
      OBVIOUS
    <2>4. Below(p) \in T
      OBVIOUS
    <2>5. \A y \in T : y \in SUBSET S
      BY <2>1
    <2> QED BY <2>4, <2>5, <2>1, <2>2
  <1>2. PICK t \in T : \A y \in T : <<y, t>> \notin StrictSubsetOrdering(S)
    <2> HIDE DEF T
    <2> QED BY <1>1, WFMin, FS_StrictSubsetOrderingWellFounded
  <1>3. PICK p \in S : t = Below(p)
    BY <1>2
  <1>4. \A q \in S : p <= q
    <2> SUFFICES ASSUME NEW q \in S, q < p PROVE FALSE
      OBVIOUS
    <2> p \in Int /\ q \in Int
      OBVIOUS
    <2>0. \A x \in S : x \in Int
      OBVIOUS
    <2>1. Below(q) \in T /\ Below(q) \subseteq t /\ q \in t /\ q \notin Below(q)
      <3>1. \A x \in S : x < q => x < p
        BY <2>0
      <3>2. ~(q < q)
        OBVIOUS
      <3> QED BY <1>3, <3>1, <3>2
    <2>2. <<Below(q), t>> \in StrictSubsetOrdering(S)
      BY <2>1, <1>3 DEF StrictSubsetOrdering
    <2> QED BY <2>1, <2>2, <1>2
  <1>5. \E x \in S : \A y \in S : x =< y
    BY <1>4
  <1>6. R!Min(S) \in S /\ \A y \in S : R!Min(S) =< y
    BY <1>5 DEF R!Min
  <1> QED BY <1>6

\* The constants that are numbers.
LEMMA Numbers ==
    ASSUME R!ReportsConstants
    PROVE  /\ \A r \in Records : r \in Nat /\ r > 0
           /\ Records \in SUBSET Int /\ IsFiniteSet(Records) /\ Records # {}
           /\ \A v \in Values : v \in Nat
           /\ Values \in SUBSET Int /\ IsFiniteSet(Values) /\ Values # {}
           /\ PerKey \in Nat /\ PerKey > 0 /\ PageSize \in Nat /\ PageSize > 0
           /\ SkuLimit \in Nat /\ Threshold \in Int
  <1>1. IsFiniteSet(Records) /\ IsFiniteSet(Values)
    BY SameFinite DEF R!ReportsConstants
  <1>2. /\ Records \subseteq Nat \ {0} /\ Records # {}
        /\ Values \subseteq Nat /\ Values # {}
        /\ PerKey \in Nat \ {0} /\ PageSize \in Nat \ {0} /\ SkuLimit \in Nat
        /\ Threshold \in Int
    BY DEF R!ReportsConstants
  <1> QED BY <1>1, <1>2

\* A page is the beginning of what is ahead: what is not on it comes after all
\* that is, and it is empty only when nothing is ahead.
LEMMA PageFirst ==
    ASSUME R!ReportsConstants, NEW S \in SUBSET Int, IsFiniteSet(S)
    PROVE  /\ R!Lowest(S) \subseteq S
           /\ \A p \in S \ R!Lowest(S), q \in R!Lowest(S) : q < p
           /\ S # {} => R!Lowest(S) # {}
  <1> DEFINE Below(p) == {q \in S : q < p}
  <1>1. R!Lowest(S) = {p \in S : Cardinality(Below(p)) < PageSize}
    BY SameCardinality DEF R!Lowest
  <1>2. \A p \in S : IsFiniteSet(Below(p)) /\ Cardinality(Below(p)) \in Nat
    BY FS_Subset, FS_CardinalityType
  <1>3. ASSUME NEW p \in S \ R!Lowest(S), NEW q \in R!Lowest(S), q >= p PROVE FALSE
    <2>0. q \in S /\ p \in S /\ \A x \in S : x \in Int
      BY <1>1, <1>3
    <2>1. Below(p) \subseteq Below(q) /\ q \in S
      <3>1. \A x \in S : x < p => x < q
        BY <2>0, <1>3
      <3> QED BY <2>0, <3>1
    <2>2. Cardinality(Below(p)) <= Cardinality(Below(q))
      BY <1>2, <2>1, FS_Subset
    <2>3. Cardinality(Below(q)) < PageSize /\ ~(Cardinality(Below(p)) < PageSize) /\ p \in S
      BY <1>1, <1>3
    <2> HIDE DEF Below
    <2> QED BY <1>2, <2>1, <2>2, <2>3, Numbers
  <1>4. ASSUME S # {} PROVE R!Lowest(S) # {}
    <2>0. /\ R!Min(S) \in S /\ \A x \in S : R!Min(S) <= x
          /\ \A x \in S : x \in Int
      BY <1>4, Least
    <2>1. R!Min(S) \in S /\ Below(R!Min(S)) = {}
      <3>1. \A x \in S : ~(x < R!Min(S))
        <4>1. PICK m \in Int : m = R!Min(S)
          BY <2>0
        <4>2. \A x \in S : m <= x /\ x \in Int
          BY <2>0, <4>1
        <4> QED BY <4>1, <4>2
      <3> QED BY <2>0, <3>1
    <2>2. Cardinality(Below(R!Min(S))) = 0
      BY <2>1, FS_EmptySet
    <2> QED BY <1>1, <2>1, <2>2, Numbers
  <1>5. R!Lowest(S) \subseteq S
    BY <1>1
  <1>6. \A p \in S, q \in R!Lowest(S) : p \in Int /\ q \in Int
    BY <1>5
  <1>7. \A p \in S \ R!Lowest(S), q \in R!Lowest(S) : q < p
    BY <1>3, <1>6
  <1> QED BY <1>4, <1>5, <1>7

\* Records and values are bounded numbers.
LEMMA Bounds ==
    ASSUME R!ReportsConstants
    PROVE  /\ R!Top \in Nat \ {0} /\ R!Max(Values) \in Nat
           /\ \A r \in Records : r \in 1..R!Top
           /\ \A v \in Values : v \in 0..R!Max(Values)
  <1>1. R!Top \in Records /\ \A r \in Records : r <= R!Top
    BY Greatest, Numbers DEF R!Top
  <1>2. R!Max(Values) \in Values /\ \A v \in Values : v <= R!Max(Values)
    BY Greatest, Numbers
  <1>3. R!Top \in Nat /\ R!Top > 0 /\ R!Max(Values) \in Nat
    BY <1>1, <1>2, Numbers
  <1> QED BY <1>1, <1>2, <1>3, Numbers

\* Multiplication keeps the order.
LEMMA Multiply == \A a, b, c \in Nat : a <= b => a * c <= b * c /\ a * c \in Nat
  OBVIOUS

\* The key of a record, and its record as a position.
LEMMA KeyOfIs ==
    ASSUME R!ReportsConstants, NEW r \in Records
    PROVE  R!KeyOf(r) \in 0..(r - 1)
  <1> DEFINE m == r - 1
  <1>1. m \in Nat /\ PerKey \in Nat /\ PerKey > 0 /\ R!KeyOf(r) = m \div PerKey
    BY Numbers DEF R!KeyOf
  <1> HIDE DEF m
  <1>2. m \div PerKey \in 0..m
    BY <1>1
  <1> QED BY <1>1, <1>2 DEF m

\* Every record is a cursor.
LEMMA RecordCursors ==
    ASSUME R!ReportsConstants
    PROVE  Records \subseteq R!Cursors
  <1> DEFINE t == R!Top  m == R!Max(Values)
  <1>1. t \in Nat /\ m \in Nat /\ \A r \in Records : r \in 1..t
    BY Bounds
  <1>2. R!Cursors = 1..((m + 1) * t)
    BY DEF R!Cursors
  <1> HIDE DEF t, m
  <1>3. 1 * t <= (m + 1) * t /\ (m + 1) * t \in Nat
    BY <1>1, Multiply
  <1> QED BY <1>1, <1>2, <1>3

\* Every position of a row is one.
LEMMA PositionsIn ==
    ASSUME R!ReportsConstants, NEW n \in Records \X Values
    PROVE  {R!KeyOf(n[1]) + 1, n[2] * R!Top + n[1], n[1]} \subseteq R!Cursors
  <1> DEFINE t == R!Top  m == R!Max(Values)  r == n[1]  v == n[2]  k == R!KeyOf(r)
  <1>1. t \in Nat /\ m \in Nat /\ r \in 1..t /\ v \in 0..m /\ r \in Records
    BY Bounds
  <1>2. R!Cursors = 1..((m + 1) * t)
    BY DEF R!Cursors
  <1>3. k \in 0..(r - 1)
    BY <1>1, KeyOfIs
  <1> SUFFICES {k + 1, v * t + r, r} \subseteq R!Cursors
    OBVIOUS
  <1> HIDE DEF t, m, r, v, k
  <1>4. 1 * t <= (m + 1) * t /\ (m + 1) * t \in Nat /\ v * t <= m * t /\ m * t \in Nat /\ v * t \in Nat
    BY <1>1, Multiply
  <1>5. (m + 1) * t = m * t + t
    BY <1>1
  <1> QED BY <1>1, <1>2, <1>3, <1>4, <1>5

\* So it is wherever it stands.
LEMMA PlaceIs ==
    ASSUME R!ReportsConstants, NEW n \in Records \X Values
    PROVE  R!Place(n) \in R!Cursors /\ R!Place(n)' \in R!Cursors
  BY PositionsIn DEF R!Place, R!Position

\* Sets of records, and of positions, are finite sets of numbers.
LEMMA PlacesFinite ==
    ASSUME R!ReportsConstants
    PROVE  /\ \A S \in SUBSET R!Cursors : S \subseteq Int /\ IsFiniteSet(S)
           /\ \A S \in SUBSET Records : S \subseteq Int /\ IsFiniteSet(S)
  <1>1. R!Cursors \subseteq Int /\ IsFiniteSet(R!Cursors)
    <2> DEFINE t == R!Top  m == R!Max(Values)
    <2>1. t \in Nat /\ m \in Nat /\ R!Cursors = 1..((m + 1) * t)
      BY Bounds DEF R!Cursors
    <2> HIDE DEF t, m
    <2>2. (m + 1) * t \in Nat
      BY <2>1, Multiply
    <2> QED BY <2>1, <2>2, FS_Interval
  <1> QED BY <1>1, FS_Subset, RecordCursors

\* A page of some rows: it is empty only when there are none, its last record is
\* a record, and the rows that are not on it come after that.
LEMMA RowsPaged ==
    ASSUME R!ReportsConstants, NEW V \in SUBSET (Records \X Values), V # {},
           NEW F, F = {n \in V : n[1] \in R!Lowest({m[1] : m \in V})}
    PROVE  /\ F # {}
           /\ R!Max({n[1] : n \in F}) \in Records
           /\ \A n \in V : n \notin F => n[1] > R!Max({m[1] : m \in F})
  <1> DEFINE S == {m[1] : m \in V}  L == {m[1] : m \in F}
  <1>1. S \in SUBSET Records /\ S # {}
    <2>1. PICK m \in V : TRUE
      OBVIOUS
    <2> QED BY <2>1
  <1>2. S \in SUBSET Int /\ IsFiniteSet(S)
    BY <1>1, PlacesFinite
  <1> HIDE DEF S
  <1>3. /\ R!Lowest(S) \subseteq S /\ R!Lowest(S) # {}
        /\ \A p \in S \ R!Lowest(S), q \in R!Lowest(S) : q < p
    BY <1>1, <1>2, PageFirst
  <1>4. F = {n \in V : n[1] \in R!Lowest(S)}
    BY DEF S
  <1>5. PICK p \in R!Lowest(S) : TRUE
    BY <1>3
  <1>6. PICK m \in V : m[1] = p
    BY <1>3, <1>5 DEF S
  <1>7. m \in F
    BY <1>4, <1>5, <1>6
  <1>8. \A n \in V : n[1] \in S
    BY DEF S
  <1>9. L \subseteq R!Lowest(S) /\ L # {}
    BY <1>4, <1>7
  <1>10. L \in SUBSET Records
    BY <1>1, <1>3, <1>9
  <1>11. L \in SUBSET Int /\ IsFiniteSet(L)
    BY <1>10, PlacesFinite
  <1> HIDE DEF L
  <1>12. R!Max(L) \in L
    BY <1>9, <1>11, Greatest
  <1>13. \A n \in V : n \notin F => n[1] > R!Max(L)
    <2> SUFFICES ASSUME NEW n \in V, n \notin F PROVE n[1] > R!Max(L)
      OBVIOUS
    <2>1. n[1] \in S \ R!Lowest(S) /\ R!Max(L) \in R!Lowest(S)
      BY <1>4, <1>8, <1>9, <1>12
    <2>2. R!Max(L) < n[1] /\ n[1] \in Int /\ R!Max(L) \in Int
      BY <1>2, <1>3, <2>1
    <2> QED BY <2>2
  <1> QED BY <1>7, <1>10, <1>12, <1>13 DEF L

\* What a store has and lists are rows of it.
LEMMA RowsOf ==
    ASSUME NEW s
    PROVE  /\ R!Has(s) \in SUBSET (Records \X Values)
           /\ R!Listed(s) \subseteq R!Has(s) /\ R!OnPage(s) \subseteq R!Listed(s)
           /\ \A k : R!Variants(s, k) \in SUBSET R!Has(s) /\ R!FirstVariants(s, k) \in SUBSET R!Variants(s, k)
  <1>1. R!Has(s) \in SUBSET (Records \X Values)
    BY DEF R!Has
  <1>2. R!Listed(s) \subseteq R!Has(s)
    BY DEF R!Listed
  <1>3. R!OnPage(s) \subseteq R!Listed(s)
    BY DEF R!OnPage
  <1>4. \A k : R!Variants(s, k) \in SUBSET R!Has(s) /\ R!FirstVariants(s, k) \in SUBSET R!Variants(s, k)
    BY DEF R!Variants, R!FirstVariants
  <1> QED BY <1>1, <1>2, <1>3, <1>4

\* The first page of the variants of a product.
LEMMA FirstVariantsIs ==
    ASSUME R!ReportsConstants, NEW s, NEW n \in R!Has(s)
    PROVE  LET k == R!KeyOf(n[1])
               m == R!Max({v[1] : v \in R!FirstVariants(s, k)})
           IN  /\ R!FirstVariants(s, k) # {} /\ m \in R!Cursors
               /\ n \in R!FirstVariants(s, k) \/ n[1] > m
  <1> DEFINE k == R!KeyOf(n[1])  V == R!Variants(s, k)  F == R!FirstVariants(s, k)
  <1>1. n \in V
    BY DEF R!Variants
  <1>2. V \in SUBSET (Records \X Values)
    BY RowsOf
  <1>3. F = {v \in V : v[1] \in R!Lowest({w[1] : w \in V})}
    BY DEF R!FirstVariants
  <1> HIDE DEF V, F
  <1>4. /\ F # {} /\ R!Max({v[1] : v \in F}) \in Records
        /\ \A v \in V : v \notin F => v[1] > R!Max({w[1] : w \in F})
    BY <1>1, <1>2, <1>3, RowsPaged
  <1>5. R!Max({v[1] : v \in F}) \in R!Cursors
    BY <1>4, RecordCursors
  <1> QED BY <1>1, <1>4, <1>5 DEF F

\* What is on a page: rows of the store, and products that have more.
LEMMA PageIs ==
    ASSUME R!ReportsConstants, NEW s
    PROVE  /\ R!PageNodes(s) \subseteq R!Has(s)
           /\ R!PageMore(s) \in SUBSET (R!Keys \X R!Cursors)
           /\ report # "catalog" => R!PageMore(s) = {}
  <1>1. R!PageNodes(s) \subseteq R!Has(s)
    <2>1. \A k : R!FirstVariants(s, k) \subseteq R!Has(s)
      BY RowsOf
    <2>2. R!OnPage(s) \subseteq R!Has(s)
      BY RowsOf
    <2> QED BY <2>1, <2>2 DEF R!PageNodes
  <1>2. \A k \in R!PageFound(s) :
          k \in R!Keys /\ R!Max({n[1] : n \in R!FirstVariants(s, k)}) \in R!Cursors
    <2> SUFFICES ASSUME NEW k \in R!PageFound(s)
                 PROVE  k \in R!Keys /\ R!Max({n[1] : n \in R!FirstVariants(s, k)}) \in R!Cursors
      OBVIOUS
    <2>1. PICK n \in R!OnPage(s) : k = R!KeyOf(n[1])
      BY DEF R!PageFound
    <2>2. n \in R!Has(s) /\ n[1] \in Records
      BY RowsOf
    <2> QED BY <2>1, <2>2, FirstVariantsIs DEF R!Keys
  <1>3. R!PageMore(s) \in SUBSET (R!Keys \X R!Cursors)
    <2>1. \A k \in R!PageFound(s) :
            <<k, R!Max({n[1] : n \in R!FirstVariants(s, k)})>> \in R!Keys \X R!Cursors
      BY <1>2
    <2>2. \A x \in R!PageMore(s) : \E k \in R!PageFound(s) :
            x = <<k, R!Max({n[1] : n \in R!FirstVariants(s, k)})>>
      BY DEF R!PageMore
    <2> QED BY <2>1, <2>2
  <1>4. report # "catalog" => R!PageMore(s) = {}
    BY DEF R!PageMore
  <1> QED BY <1>1, <1>3, <1>4

\* A row of which the position is on the page is on it, or its product has more;
\* of a report of a number of rows, its product is on it.
LEMMA PageCovers ==
    ASSUME R!ReportsConstants, NEW s, NEW n \in R!Listed(s), R!Place(n) \in R!Lowest(R!Ahead(s)),
           report \in R!Reports
    PROVE  /\ report # "gap" =>
                \/ n \in R!PageNodes(s)
                \/ \E c \in R!Cursors : <<R!KeyOf(n[1]), c>> \in R!PageMore(s) /\ n[1] > c
           /\ report = "gap" => \E m \in R!PageNodes(s) : R!KeyOf(m[1]) = R!KeyOf(n[1])
  <1> DEFINE k == R!KeyOf(n[1])
             c == R!Max({v[1] : v \in R!FirstVariants(s, k)})
  <1>1. n \in R!OnPage(s) /\ n \in R!Has(s)
    BY RowsOf DEF R!OnPage
  <1>2. R!FirstVariants(s, k) # {} /\ c \in R!Cursors /\ (n \in R!FirstVariants(s, k) \/ n[1] > c)
    BY <1>1, FirstVariantsIs
  <1>3. k \in R!PageFound(s)
    BY <1>1 DEF R!PageFound
  <1>4. ASSUME ~R!OfProducts PROVE n \in R!PageNodes(s) /\ report # "gap"
    BY <1>1, <1>4 DEF R!PageNodes, R!OfProducts
  <1>5. ASSUME R!OfProducts PROVE R!FirstVariants(s, k) \subseteq R!PageNodes(s)
    BY <1>1, <1>5 DEF R!PageNodes
  <1>6. ASSUME report = "catalog", n \notin R!FirstVariants(s, k)
        PROVE  <<k, c>> \in R!PageMore(s)
    <2>1. n \in R!Variants(s, k)
      BY <1>1 DEF R!Variants
    <2>2. R!FirstVariants(s, k) # R!Variants(s, k)
      BY <2>1, <1>6
    <2> QED BY <1>3, <1>6, <2>2 DEF R!PageMore
  <1>7. \A m \in R!FirstVariants(s, k) : R!KeyOf(m[1]) = k
    BY DEF R!FirstVariants, R!Variants
  <1> HIDE DEF c
  <1>8. CASE ~R!OfProducts
    BY <1>4, <1>8
  <1>9. CASE report = "catalog"
    <2>1. CASE n \in R!FirstVariants(s, k)
      BY <1>5, <1>9, <2>1 DEF R!OfProducts
    <2>2. CASE n \notin R!FirstVariants(s, k)
      BY <1>2, <1>6, <1>9, <2>2
    <2> QED BY <2>1, <2>2
  <1>10. CASE report = "gap"
    <2>1. PICK m \in R!FirstVariants(s, k) : TRUE
      BY <1>2
    <2>2. m \in R!PageNodes(s) /\ R!KeyOf(m[1]) = k
      BY <1>5, <1>7, <1>10, <2>1 DEF R!OfProducts
    <2> QED BY <1>10, <2>2
  <1> QED BY <1>8, <1>9, <1>10 DEF R!OfProducts

\* The page and its last position.
LEMMA AheadIs ==
    ASSUME R!ReportsConstants, NEW s, NEW n \in R!Listed(s), NEW a \in R!Cursors \cup {0}, a = after[s]
    PROVE  /\ R!Place(n) \in R!Cursors
           /\ R!Place(n) <= a \/ R!Place(n) \in R!Ahead(s)
           /\ R!Ahead(s) # R!Lowest(R!Ahead(s)) =>
                /\ R!Max(R!Lowest(R!Ahead(s))) \in R!Cursors
                /\ R!Place(n) <= R!Max(R!Lowest(R!Ahead(s))) =>
                     R!Place(n) <= a \/ R!Place(n) \in R!Lowest(R!Ahead(s))
  <1> DEFINE A == R!Ahead(s)  L == R!Lowest(A)  p == R!Place(n)
  <1>1. p \in R!Cursors
    BY PlaceIs, RowsOf
  <1>2. R!Cursors \subseteq Int
    BY PlacesFinite
  <1>3. A = {R!Place(m) : m \in R!Listed(s)} \cap {q \in R!Cursors : q > a}
    BY DEF R!Ahead
  <1>4. A \in SUBSET R!Cursors /\ A \in SUBSET Int /\ IsFiniteSet(A)
    <2>1. A \in SUBSET R!Cursors
      BY <1>3
    <2> QED BY <2>1, PlacesFinite
  <1>5. p <= a \/ p \in A
    <2>1. p \in Int /\ a \in Int
      <3> HIDE DEF p
      <3> QED BY <1>1, <1>2
    <2>2. p > a => p \in A
      BY <1>1, <1>3
    <2> QED BY <2>1, <2>2
  <1> HIDE DEF A, p
  <1>6. /\ L \subseteq A /\ \A q \in A \ L, r \in L : r < q
        /\ A # {} => L # {}
    BY <1>4, PageFirst
  <1>7. ASSUME A # L PROVE R!Max(L) \in R!Cursors /\ (p <= R!Max(L) => p <= a \/ p \in L)
    <2>1. L # {} /\ L \in SUBSET R!Cursors
      BY <1>4, <1>6, <1>7
    <2>2. L \in SUBSET Int /\ IsFiniteSet(L)
      BY <2>1, PlacesFinite
    <2> HIDE DEF L
    <2>3. R!Max(L) \in L
      BY <2>1, <2>2, Greatest
    <2>4. ASSUME p <= R!Max(L), p \in A, p \notin L PROVE FALSE
      <3>1. R!Max(L) < p /\ p \in Int /\ R!Max(L) \in Int
        BY <1>4, <1>6, <2>2, <2>3, <2>4
      <3> QED BY <2>4, <3>1
    <2> QED BY <1>5, <2>1, <2>3, <2>4
  <1> QED BY <1>1, <1>5, <1>7 DEF A, p

\* The last position of a page is a cursor.
LEMMA LastIs ==
    ASSUME R!ReportsConstants, NEW s, R!Ahead(s) # R!Lowest(R!Ahead(s))
    PROVE  R!Max(R!Lowest(R!Ahead(s))) \in R!Cursors
  <1> DEFINE A == R!Ahead(s)  L == R!Lowest(A)
  <1>1. A \in SUBSET R!Cursors
    BY DEF R!Ahead
  <1>2. A \in SUBSET Int /\ IsFiniteSet(A)
    BY <1>1, PlacesFinite
  <1> HIDE DEF A
  <1>3. L \subseteq A /\ (A # {} => L # {})
    BY <1>2, PageFirst
  <1>4. L # {} /\ L \in SUBSET R!Cursors
    BY <1>1, <1>3 DEF A
  <1>5. L \in SUBSET Int /\ IsFiniteSet(L)
    BY <1>4, PlacesFinite
  <1> HIDE DEF L
  <1>6. R!Max(L) \in L
    BY <1>4, <1>5, Greatest
  <1> QED BY <1>4, <1>6 DEF A, L

-----------------------------------------------------------------------------
(* Reports: one request.                                                      *)

\* A request to a store leaves everything else alone.
OnlyAt(s) ==
    /\ R!Elsewhere
    /\ \A t \in Stores : t # s =>
         /\ phase'[t] = phase[t] /\ after'[t] = after[t] /\ nodes'[t] = nodes[t] /\ more'[t] = more[t]
         /\ (t \in erred' <=> t \in erred) /\ (t \in cut' <=> t \in cut)
         /\ (t \in strayed' <=> t \in strayed) /\ (t \in blank' <=> t \in blank)
    /\ strayed \subseteq strayed' /\ blank \subseteq blank'

\* What a request makes of its store.
Result(s) == ReportTypes' /\ OnlyAt(s) /\ StoreInv(s)'

\* What is read does not depend on how it is read.
LEMMA SameListing ==
    ASSUME R!Elsewhere, NEW s
    PROVE  /\ Listing(s)' = Listing(s) /\ R!Has(s)' = R!Has(s)
           /\ \A n : R!Place(n)' = R!Place(n)
  BY DEF R!Elsewhere, R!world, Listing, R!Has, R!Place, R!OfProducts, R!Position

\* The invariant of a store after a request, from its new fields.
LEMMA StoreNow ==
    ASSUME R!Elsewhere, NEW s \in Stores, StoreInv(s),
           (phase'[s] = "variants") <=> (more'[s] # {} /\ phase'[s] # "list"),
           phase'[s] # "list" \/ report = "gap" => after'[s] = 0,
           report # "catalog" => more'[s] = {},
           phase'[s] = "failed" => nodes'[s] = {},
           round # 0,
           nodes'[s] \subseteq nodes[s] \cup R!Has(s),
           s \notin erred' \cup strayed' \cup blank' =>
             \A n \in Listing(s) : n[1] \notin moved[s] =>
               /\ report = "gap" /\ phase'[s] = "read" =>
                    s \in cut' \/ \E m \in nodes'[s] : R!KeyOf(m[1]) = R!KeyOf(n[1])
               /\ /\ report # "gap"
                  /\ \/ phase'[s] = "list" /\ R!Place(n) <= after'[s]
                     \/ phase'[s] \in {"variants", "read"}
                  => n \in nodes'[s] \/ \E c \in R!Cursors : <<R!KeyOf(n[1]), c>> \in more'[s] /\ n[1] > c
    PROVE  StoreInv(s)'
  <1>1. Listing(s)' = Listing(s) /\ R!Has(s)' = R!Has(s) /\ \A n : R!Place(n)' = R!Place(n)
    BY SameListing
  <1>2. /\ UNCHANGED <<report, round, first, content, changes, held, moved>>
    BY DEF R!Elsewhere, R!world
  <1>3. Reading(s)'
    BY <1>2 DEF Reading
  <1>4. History(s)'
    BY <1>1, <1>2 DEF History, StoreInv
  <1>5. Coverage(s)'
    <2> SUFFICES ASSUME s \notin erred' \cup strayed' \cup blank',
                        NEW n \in Listing(s), n[1] \notin moved[s]
                 PROVE  /\ report = "gap" /\ phase'[s] = "read" => s \in cut' \/ R!Shows(s, R!KeyOf(n[1]))' # {}
                        /\ report # "gap" /\ phase'[s] = "list" /\ R!Place(n) <= after'[s] => Covered(s, n)'
                        /\ report # "gap" /\ phase'[s] \in {"variants", "read"} => Covered(s, n)'
      BY <1>1, <1>2 DEF Coverage
    <2>1. \A k, m : m \in nodes'[s] /\ R!KeyOf(m[1]) = k => R!Shows(s, k)' # {}
      BY DEF R!Shows
    <2> QED BY <2>1 DEF Covered
  <1> QED BY <1>3, <1>4, <1>5 DEF StoreInv

\* The other stores keep theirs.
LEMMA OthersNow ==
    ASSUME NEW s \in Stores, OnlyAt(s), NEW t \in Stores, t # s, StoreInv(t)
    PROVE  StoreInv(t)'
  <1>1. Listing(t)' = Listing(t) /\ R!Has(t)' = R!Has(t) /\ \A n : R!Place(n)' = R!Place(n)
    BY SameListing DEF OnlyAt
  <1>2. UNCHANGED <<report, round, first, content, changes, held, moved>>
    BY DEF OnlyAt, R!Elsewhere, R!world
  <1>3. /\ phase'[t] = phase[t] /\ after'[t] = after[t] /\ nodes'[t] = nodes[t] /\ more'[t] = more[t]
        /\ (t \in erred' <=> t \in erred) /\ (t \in cut' <=> t \in cut)
        /\ (t \in strayed' <=> t \in strayed) /\ (t \in blank' <=> t \in blank)
    BY DEF OnlyAt
  <1>4. Reading(t)'
    BY <1>2, <1>3 DEF Reading, StoreInv
  <1>5. History(t)'
    BY <1>1, <1>2, <1>3 DEF History, StoreInv
  <1>6. \A k : R!Shows(t, k)' = R!Shows(t, k)
    BY <1>3 DEF R!Shows
  <1>7. \A n : Covered(t, n)' <=> Covered(t, n)
    BY <1>3 DEF Covered
  <1>8. Coverage(t)'
    BY <1>1, <1>2, <1>3, <1>6, <1>7 DEF Coverage, StoreInv
  <1> QED BY <1>4, <1>5, <1>8 DEF StoreInv

\* So does the first round.
LEMMA FirstRoundNow ==
    ASSUME R!Elsewhere, strayed \subseteq strayed', blank \subseteq blank', FirstRound
    PROVE  FirstRound'
  <1>1. UNCHANGED <<report, round, first, content, changes, held, moved>>
    BY DEF R!Elsewhere, R!world
  <1>2. \A s : R!Has(s)' = R!Has(s)
    BY SameListing
  <1>3. R!OutOfStock(first.nodes)' = R!OutOfStock(first.nodes)
    BY <1>1 DEF R!OutOfStock
  <1> QED BY <1>1, <1>2, <1>3 DEF FirstRound

\* A request keeps the invariant.
LEMMA RequestKeeps ==
    ASSUME ReportInv, NEW s \in Stores, Result(s)
    PROVE  ReportInv'
  <1>1. \A t \in Stores : StoreInv(t)'
    BY OthersNow DEF ReportInv, Result
  <1>2. FirstRound'
    BY FirstRoundNow DEF ReportInv, Result, OnlyAt
  <1> QED BY <1>1, <1>2 DEF ReportInv, Result

\* The fields of a store after a request.
Becomes(s, p, a, q, N, M) ==
    /\ phase' = [phase EXCEPT ![s] = p] /\ after' = [after EXCEPT ![s] = a]
    /\ seen' = [seen EXCEPT ![s] = q]
    /\ nodes' = [nodes EXCEPT ![s] = N] /\ more' = [more EXCEPT ![s] = M]

\* A request sets the fields of its store.
LEMMA FieldsSet ==
    ASSUME ReportTypes, NEW s \in Stores, R!Elsewhere,
           NEW p \in R!Phases, NEW a \in R!Cursors \cup {0}, NEW q \in SUBSET R!Cursors,
           NEW N \in SUBSET (Records \X Values), NEW M \in SUBSET (R!Keys \X R!Cursors),
           Becomes(s, p, a, q, N, M),
           erred' \in {erred, erred \cup {s}}, cut' \in {cut, cut \cup {s}},
           strayed' \in {strayed, strayed \cup {s}}, blank' \in {blank, blank \cup {s}}
    PROVE  /\ ReportTypes' /\ OnlyAt(s)
           /\ phase'[s] = p /\ after'[s] = a /\ nodes'[s] = N /\ more'[s] = M
  <1>1. /\ phase' \in [Stores -> R!Phases] /\ after' \in [Stores -> R!Cursors \cup {0}]
        /\ seen' \in [Stores -> SUBSET R!Cursors]
        /\ nodes' \in [Stores -> SUBSET (Records \X Values)]
        /\ more' \in [Stores -> SUBSET (R!Keys \X R!Cursors)]
    BY DEF ReportTypes, Becomes
  <1>2. /\ erred' \subseteq Stores /\ cut' \subseteq Stores
        /\ strayed' \subseteq Stores /\ blank' \subseteq Stores
    BY DEF ReportTypes
  <1>3. UNCHANGED <<report, round, first, content, changes, held, moved>>
    BY DEF R!Elsewhere, R!world
  <1>4. ReportTypes'
    BY <1>1, <1>2, <1>3 DEF ReportTypes
  <1>5. /\ phase'[s] = p /\ after'[s] = a /\ nodes'[s] = N /\ more'[s] = M
        /\ \A t \in Stores : t # s =>
             /\ phase'[t] = phase[t] /\ after'[t] = after[t] /\ nodes'[t] = nodes[t] /\ more'[t] = more[t]
    BY DEF ReportTypes, Becomes
  <1>6. OnlyAt(s)
    BY <1>5 DEF OnlyAt
  <1> QED BY <1>4, <1>5, <1>6

\* A field that is left alone is set to what it is.
LEMMA LeftAlone ==
    ASSUME ReportTypes, NEW s \in Stores
    PROVE  /\ phase = [phase EXCEPT ![s] = phase[s]] /\ phase[s] \in R!Phases
           /\ after = [after EXCEPT ![s] = after[s]] /\ after[s] \in R!Cursors \cup {0}
           /\ seen = [seen EXCEPT ![s] = seen[s]] /\ seen[s] \in SUBSET R!Cursors
           /\ nodes = [nodes EXCEPT ![s] = nodes[s]] /\ nodes[s] \in SUBSET (Records \X Values)
           /\ more = [more EXCEPT ![s] = more[s]] /\ more[s] \in SUBSET (R!Keys \X R!Cursors)
  BY DEF ReportTypes

\* A store that fails.
LEMMA DropIs ==
    ASSUME ReportTypes, NEW s \in Stores, StoreInv(s), round # 0, R!Drop(s), R!Elsewhere,
           strayed' \in {strayed, strayed \cup {s}}, blank' = blank
    PROVE  Result(s)
  <1>1. Becomes(s, "failed", 0, {}, {}, {}) /\ erred' = erred /\ cut' = cut
    BY DEF R!Drop, R!Stop, Becomes
  <1>2. "failed" \in R!Phases
    BY DEF R!Phases
  <1>3. /\ ReportTypes' /\ OnlyAt(s)
        /\ phase'[s] = "failed" /\ after'[s] = 0 /\ nodes'[s] = {} /\ more'[s] = {}
    BY <1>1, <1>2, FieldsSet
  <1>4. StoreInv(s)'
    BY <1>3, StoreNow
  <1> QED BY <1>3, <1>4 DEF Result

\* What a page adds.
LEMMA CollectIs ==
    ASSUME R!ReportsConstants, ReportTypes, NEW s \in Stores, R!Collect(s)
    PROVE  /\ nodes' = [nodes EXCEPT ![s] = nodes[s] \cup R!PageNodes(s)]
           /\ more' = [more EXCEPT ![s] = more[s] \cup R!PageMore(s)]
           /\ nodes[s] \cup R!PageNodes(s) \in SUBSET (Records \X Values)
           /\ more[s] \cup R!PageMore(s) \in SUBSET (R!Keys \X R!Cursors)
           /\ more'[s] = more[s] \cup R!PageMore(s)
  <1>1. /\ nodes' = [nodes EXCEPT ![s] = nodes[s] \cup R!PageNodes(s)]
        /\ more' = [more EXCEPT ![s] = more[s] \cup R!PageMore(s)]
    BY DEF R!Collect, R!Collected
  <1>2. R!PageNodes(s) \in SUBSET (Records \X Values) /\ R!PageMore(s) \in SUBSET (R!Keys \X R!Cursors)
    BY PageIs, RowsOf
  <1> QED BY <1>1, <1>2, LeftAlone DEF ReportTypes

\* What was listed is what the invariant looks for.
LEMMA ListingIs ==
    ASSUME NEW s, round # 0, round \in 0..2
    PROVE  Listing(s) = R!Listed(s)
  BY DEF Listing, R!Listed

\* A page with another after it; of a store whose cursor may be wrong, nothing is
\* claimed.
LEMMA NextPageIs ==
    ASSUME R!ReportsConstants, ReportTypes, NEW s \in Stores, StoreInv(s), R!Elsewhere, round # 0,
           phase[s] = "list", report # "gap", NEW cursor \in R!Cursors,
           R!Collect(s), after' = [after EXCEPT ![s] = cursor],
           seen' = [seen EXCEPT ![s] = seen[s] \cup {cursor}], UNCHANGED <<phase, erred, cut, blank>>,
           \/ strayed' = strayed \cup {s}
           \/ /\ strayed' = strayed /\ R!Ahead(s) # R!Lowest(R!Ahead(s))
              /\ cursor = R!Max(R!Lowest(R!Ahead(s)))
    PROVE  Result(s)
  <1> DEFINE N == nodes[s] \cup R!PageNodes(s)  M == more[s] \cup R!PageMore(s)
  <1>1. /\ ReportTypes' /\ OnlyAt(s)
        /\ phase'[s] = "list" /\ after'[s] = cursor /\ nodes'[s] = N /\ more'[s] = M
    <2>1. /\ nodes' = [nodes EXCEPT ![s] = N] /\ more' = [more EXCEPT ![s] = M]
          /\ N \in SUBSET (Records \X Values) /\ M \in SUBSET (R!Keys \X R!Cursors)
      BY CollectIs
    <2>2. phase' = [phase EXCEPT ![s] = phase[s]] /\ phase[s] \in R!Phases
      BY LeftAlone
    <2>3. seen[s] \cup {cursor} \in SUBSET R!Cursors
      BY LeftAlone
    <2>4. Becomes(s, phase[s], cursor, seen[s] \cup {cursor}, N, M)
      BY <2>1, <2>2 DEF Becomes
    <2> HIDE DEF N, M
    <2> QED BY <2>1, <2>2, <2>3, <2>4, FieldsSet
  <1>2. ASSUME s \notin strayed', s \notin erred \cup blank, NEW n \in Listing(s), n[1] \notin moved[s],
               R!Place(n) <= cursor
        PROVE  n \in N \/ \E c \in R!Cursors : <<R!KeyOf(n[1]), c>> \in M /\ n[1] > c
    <2>1. n \in R!Listed(s) /\ report \in R!Reports
      BY ListingIs, <1>2 DEF ReportTypes
    <2>2. R!Place(n) <= after[s] \/ R!Place(n) \in R!Lowest(R!Ahead(s))
      BY <1>2, <2>1, AheadIs, LeftAlone
    <2>3. CASE R!Place(n) <= after[s]
      BY <1>2, <2>3 DEF StoreInv, Coverage, Covered
    <2>4. CASE R!Place(n) \in R!Lowest(R!Ahead(s))
      BY <2>1, <2>4, PageCovers
    <2> QED BY <2>2, <2>3, <2>4
  <1>3. N \subseteq nodes[s] \cup R!Has(s) /\ (report # "catalog" => M = {})
    BY PageIs DEF StoreInv, Reading
  <1> HIDE DEF N, M
  <1>4. StoreInv(s)'
    BY <1>1, <1>2, <1>3, StoreNow
  <1> QED BY <1>1, <1>4 DEF Result

\* The last page of a list.
LEMMA LastPageIs ==
    ASSUME R!ReportsConstants, ReportTypes, NEW s \in Stores, StoreInv(s), R!Elsewhere, round # 0,
           phase[s] = "list", report # "gap",
           R!Collect(s), R!Stop(s, R!AfterList(s)), UNCHANGED <<erred, cut, strayed, blank>>,
           R!Ahead(s) = R!Lowest(R!Ahead(s))
    PROVE  Result(s)
  <1> DEFINE N == nodes[s] \cup R!PageNodes(s)  M == more[s] \cup R!PageMore(s)
  <1>1. N \subseteq nodes[s] \cup R!Has(s) /\ (report # "catalog" => M = {})
    BY PageIs DEF StoreInv, Reading
  <1>2. PICK p \in {"variants", "read"} : R!AfterList(s) = p /\ (p = "variants" <=> M # {})
    BY <1>1, CollectIs DEF R!AfterList
  <1>3. /\ ReportTypes' /\ OnlyAt(s)
        /\ phase'[s] = p /\ after'[s] = 0 /\ nodes'[s] = N /\ more'[s] = M
    <2>1. /\ nodes' = [nodes EXCEPT ![s] = N] /\ more' = [more EXCEPT ![s] = M]
          /\ N \in SUBSET (Records \X Values) /\ M \in SUBSET (R!Keys \X R!Cursors)
      BY CollectIs
    <2>2. /\ phase' = [phase EXCEPT ![s] = p] /\ after' = [after EXCEPT ![s] = 0]
          /\ seen' = [seen EXCEPT ![s] = {}] /\ p \in R!Phases
      BY <1>2 DEF R!Stop, R!Phases
    <2>3. Becomes(s, p, 0, {}, N, M)
      BY <2>1, <2>2 DEF Becomes
    <2> HIDE DEF N, M
    <2> QED BY <2>1, <2>2, <2>3, FieldsSet
  <1>4. ASSUME s \notin strayed, s \notin erred \cup blank, NEW n \in Listing(s), n[1] \notin moved[s]
        PROVE  n \in N \/ \E c \in R!Cursors : <<R!KeyOf(n[1]), c>> \in M /\ n[1] > c
    <2>1. n \in R!Listed(s) /\ report \in R!Reports
      BY ListingIs, <1>4 DEF ReportTypes
    <2>2. R!Place(n) <= after[s] \/ R!Place(n) \in R!Lowest(R!Ahead(s))
      BY <1>4, <2>1, AheadIs, LeftAlone
    <2>3. CASE R!Place(n) <= after[s]
      BY <1>4, <2>3 DEF StoreInv, Coverage, Covered
    <2>4. CASE R!Place(n) \in R!Lowest(R!Ahead(s))
      BY <2>1, <2>4, PageCovers
    <2> QED BY <2>2, <2>3, <2>4
  <1> HIDE DEF N, M
  <1>5. StoreInv(s)'
    BY <1>1, <1>2, <1>3, <1>4, StoreNow
  <1> QED BY <1>3, <1>5 DEF Result

\* A page of which the store says where the next begins.
LEMMA TurnIs ==
    ASSUME R!ReportsConstants, ReportTypes, NEW s \in Stores, StoreInv(s), R!Elsewhere, round # 0,
           phase[s] = "list", report # "gap", NEW cursor \in R!Cursors \cup {None},
           R!Turn(s, cursor), blank' = blank,
           \/ strayed' = strayed \cup {s}
           \/ /\ strayed' = strayed /\ R!Ahead(s) # R!Lowest(R!Ahead(s))
              /\ cursor = R!Max(R!Lowest(R!Ahead(s)))
    PROVE  Result(s)
  <1>1. CASE cursor = None \/ ~R!Follows(cursor, after[s], seen[s])
    <2>1. R!Drop(s)
      BY <1>1 DEF R!Turn
    <2>2. strayed' \in {strayed, strayed \cup {s}}
      OBVIOUS
    <2> QED BY <2>1, <2>2, DropIs
  <1>2. CASE ~(cursor = None \/ ~R!Follows(cursor, after[s], seen[s]))
    <2>1. /\ R!Collect(s) /\ after' = [after EXCEPT ![s] = cursor]
          /\ seen' = [seen EXCEPT ![s] = seen[s] \cup {cursor}]
          /\ UNCHANGED <<phase, erred, cut, blank>> /\ cursor \in R!Cursors
      BY <1>2 DEF R!Turn
    <2> QED BY <2>1, NextPageIs
  <1> QED BY <1>1, <1>2

\* A page of a list.
LEMMA ReadPageIs ==
    ASSUME R!ReportsConstants, ReportTypes, NEW s \in Stores, StoreInv(s), R!ReadPage(s)
    PROVE  Result(s)
  <1>1. /\ R!Elsewhere /\ round # 0 /\ phase[s] = "list" /\ report # "gap"
        /\ strayed' = strayed /\ blank' = blank
    BY DEF R!ReadPage, R!Reading
  <1>2. CASE R!Ahead(s) = R!Lowest(R!Ahead(s))
    <2>1. R!Collect(s) /\ R!Stop(s, R!AfterList(s)) /\ UNCHANGED <<erred, cut>>
      BY <1>2 DEF R!ReadPage
    <2> QED BY <1>1, <1>2, <2>1, LastPageIs
  <1>3. CASE R!Ahead(s) # R!Lowest(R!Ahead(s))
    <2>1. R!Turn(s, R!Max(R!Lowest(R!Ahead(s))))
      BY <1>3 DEF R!ReadPage
    <2>2. R!Max(R!Lowest(R!Ahead(s))) \in R!Cursors \cup {None}
      BY <1>3, LastIs
    <2> QED BY <1>1, <1>3, <2>1, <2>2, TurnIs
  <1> QED BY <1>2, <1>3

\* A page with a wrong cursor.
LEMMA StrayPageIs ==
    ASSUME R!ReportsConstants, ReportTypes, NEW s \in Stores, StoreInv(s), R!StrayPage(s)
    PROVE  Result(s)
  <1>1. /\ R!Elsewhere /\ round # 0 /\ phase[s] = "list" /\ report # "gap"
        /\ strayed' = strayed \cup {s} /\ blank' = blank
    BY DEF R!StrayPage, R!Reading
  <1>2. PICK cursor \in Strays \cup {None} : R!Turn(s, cursor)
    BY DEF R!StrayPage
  <1>3. Strays \subseteq R!Cursors
    BY DEF R!ReportsConstants
  <1>4. cursor \in R!Cursors \cup {None}
    BY <1>2, <1>3
  <1> QED BY <1>1, <1>2, <1>4, TurnIs

\* The page of a report of a number of rows.
LEMMA ReadRowsIs ==
    ASSUME R!ReportsConstants, ReportTypes, NEW s \in Stores, StoreInv(s), R!ReadRows(s)
    PROVE  Result(s)
  <1> DEFINE N == nodes[s] \cup R!PageNodes(s)  M == more[s] \cup R!PageMore(s)
  <1>1. /\ R!Elsewhere /\ round # 0 /\ phase[s] = "list" /\ report = "gap"
        /\ strayed' = strayed /\ blank' = blank /\ erred' = erred
        /\ cut' = IF R!Ahead(s) = R!Lowest(R!Ahead(s)) THEN cut ELSE cut \cup {s}
        /\ R!Collect(s) /\ R!Stop(s, "read")
    BY DEF R!ReadRows, R!Reading
  <1>2. N \subseteq nodes[s] \cup R!Has(s) /\ M = {}
    BY <1>1, PageIs DEF StoreInv, Reading
  <1>3. /\ ReportTypes' /\ OnlyAt(s)
        /\ phase'[s] = "read" /\ after'[s] = 0 /\ nodes'[s] = N /\ more'[s] = M
    <2>1. /\ nodes' = [nodes EXCEPT ![s] = N] /\ more' = [more EXCEPT ![s] = M]
          /\ N \in SUBSET (Records \X Values) /\ M \in SUBSET (R!Keys \X R!Cursors)
      BY <1>1, CollectIs
    <2>2. Becomes(s, "read", 0, {}, N, M) /\ "read" \in R!Phases
      BY <1>1, <2>1 DEF R!Stop, R!Phases, Becomes
    <2>3. cut' \in {cut, cut \cup {s}}
      BY <1>1
    <2> HIDE DEF N, M
    <2> QED BY <1>1, <2>1, <2>2, <2>3, FieldsSet
  <1>4. ASSUME s \notin cut', NEW n \in Listing(s)
        PROVE  \E m \in N : R!KeyOf(m[1]) = R!KeyOf(n[1])
    <2>1. n \in R!Listed(s) /\ report \in R!Reports
      BY <1>1, <1>4, ListingIs DEF ReportTypes
    <2>2. R!Ahead(s) = R!Lowest(R!Ahead(s)) /\ after[s] = 0
      BY <1>1, <1>4 DEF StoreInv, Reading
    <2>3. R!Place(n) \in R!Cursors /\ (R!Place(n) <= 0 \/ R!Place(n) \in R!Ahead(s))
      BY <2>1, <2>2, AheadIs
    <2>4. R!Place(n) > 0 /\ R!Place(n) \in Int
      BY <2>3 DEF R!Cursors
    <2>5. R!Place(n) \in R!Lowest(R!Ahead(s))
      BY <2>2, <2>3, <2>4
    <2> QED BY <1>1, <2>1, <2>5, PageCovers
  <1> HIDE DEF N, M
  <1>5. StoreInv(s)'
    BY <1>1, <1>2, <1>3, <1>4, StoreNow
  <1> QED BY <1>3, <1>5 DEF Result

\* An answer that is taken for an empty page.
LEMMA ReadNothingIs ==
    ASSUME R!ReportsConstants, ReportTypes, NEW s \in Stores, StoreInv(s), R!ReadNothing(s)
    PROVE  Result(s)
  <1>1. /\ R!Elsewhere /\ round # 0 /\ report = "gap" /\ R!Stop(s, "read")
        /\ blank' = blank \cup {s} /\ UNCHANGED <<nodes, more, erred, cut, strayed>>
    BY DEF R!ReadNothing, R!Reading
  <1>2. Becomes(s, "read", 0, {}, nodes[s], more[s]) /\ "read" \in R!Phases
    BY <1>1, LeftAlone DEF R!Stop, R!Phases, Becomes
  <1>3. /\ ReportTypes' /\ OnlyAt(s)
        /\ phase'[s] = "read" /\ after'[s] = 0 /\ nodes'[s] = nodes[s] /\ more'[s] = more[s]
    BY <1>1, <1>2, LeftAlone, FieldsSet
  <1>4. more[s] = {}
    BY <1>1 DEF StoreInv, Reading
  <1>5. StoreInv(s)'
    BY <1>1, <1>3, <1>4, StoreNow
  <1> QED BY <1>3, <1>5 DEF Result

\* An answer with errors.
LEMMA ReadErrorsIs ==
    ASSUME R!ReportsConstants, ReportTypes, NEW s \in Stores, StoreInv(s), R!ReadErrors(s)
    PROVE  Result(s)
  <1>1. /\ R!Elsewhere /\ round # 0 /\ R!Stop(s, R!AfterList(s))
        /\ erred' = erred \cup {s} /\ UNCHANGED <<cut, strayed, blank>>
    BY DEF R!ReadErrors, R!Reading
  <1>2. PICK N \in SUBSET R!Has(s) : nodes' = [nodes EXCEPT ![s] = N]
    BY PageIs DEF R!ReadErrors
  <1>3. PICK M \in SUBSET (R!Keys \X R!Cursors) :
          more' = [more EXCEPT ![s] = M] /\ (report # "catalog" => M = {})
    BY PageIs DEF R!ReadErrors
  <1>4. more'[s] = M
    BY <1>3 DEF ReportTypes
  <1>5. PICK p \in {"variants", "read"} : R!AfterList(s) = p /\ (p = "variants" <=> M # {})
    BY <1>3, <1>4 DEF R!AfterList
  <1>6. Becomes(s, p, 0, {}, N, M) /\ p \in R!Phases
    BY <1>1, <1>2, <1>3, <1>5 DEF R!Stop, R!Phases, Becomes
  <1>7. N \in SUBSET (Records \X Values)
    BY RowsOf
  <1>8. /\ ReportTypes' /\ OnlyAt(s)
        /\ phase'[s] = p /\ after'[s] = 0 /\ nodes'[s] = N /\ more'[s] = M
    BY <1>1, <1>6, <1>7, FieldsSet
  <1>9. StoreInv(s)'
    BY <1>1, <1>3, <1>5, <1>8, StoreNow
  <1> QED BY <1>8, <1>9 DEF Result

\* A store that fails.
LEMMA StoreFailsIs ==
    ASSUME ReportTypes, NEW s \in Stores, StoreInv(s), R!StoreFails(s)
    PROVE  Result(s)
  <1>1. R!Elsewhere /\ round # 0 /\ R!Drop(s) /\ strayed' = strayed /\ blank' = blank
    BY DEF R!StoreFails, R!Reading
  <1> QED BY <1>1, DropIs

\* The keys of records are finitely many numbers.
LEMMA KeysFinite ==
    ASSUME R!ReportsConstants
    PROVE  \A S \in SUBSET R!Keys : S \in SUBSET Int /\ IsFiniteSet(S)
  <1> DEFINE t == R!Top
  <1>1. t \in Nat /\ \A r \in Records : r \in 1..t
    BY Bounds
  <1>2. \A r \in Records : R!KeyOf(r) \in 0..(r - 1)
    BY KeyOfIs
  <1> HIDE DEF t
  <1>3. \A r \in Records : R!KeyOf(r) \in 0..t
    BY <1>1, <1>2
  <1>4. R!Keys \subseteq 0..t
    BY <1>3 DEF R!Keys
  <1>5. IsFiniteSet(0..t)
    BY <1>1, FS_Interval
  <1>6. \A S \in SUBSET R!Keys : S \in SUBSET (0..t)
    BY <1>4
  <1>7. \A S \in SUBSET (0..t) : S \in SUBSET Int
    BY <1>1
  <1> QED BY <1>5, <1>6, <1>7, FS_Subset

\* The product of which variants are read next, and where they begin.
LEMMA ProductIs ==
    ASSUME R!ReportsConstants, ReportTypes, NEW s \in Stores, more[s] # {}
    PROVE  /\ R!Product(s) \in R!Keys /\ R!Cursor(s) \in R!Cursors
           /\ <<R!Product(s), R!Cursor(s)>> \in more[s]
  <1> DEFINE S == {m[1] : m \in more[s]}
  <1>1. more[s] \in SUBSET (R!Keys \X R!Cursors)
    BY LeftAlone
  <1>2. S \in SUBSET R!Keys /\ S # {}
    <2>1. PICK m \in more[s] : TRUE
      OBVIOUS
    <2>2. m[1] \in S
      BY <2>1
    <2> QED BY <1>1, <2>2
  <1> HIDE DEF S
  <1>3. R!Min(S) \in S
    BY <1>2, KeysFinite, Least
  <1>4. R!Product(s) = R!Min(S)
    BY DEF R!Product, S
  <1>5. PICK m \in more[s] : m[1] = R!Product(s)
    BY <1>3, <1>4 DEF S
  <1>6. m = <<R!Product(s), m[2]>> /\ m[2] \in R!Cursors
    BY <1>1, <1>5
  <1>7. \E c \in R!Cursors : <<R!Product(s), c>> \in more[s]
    BY <1>5, <1>6
  <1>8. R!Cursor(s) \in R!Cursors /\ <<R!Product(s), R!Cursor(s)>> \in more[s]
    BY <1>7 DEF R!Cursor
  <1> QED BY <1>2, <1>3, <1>4, <1>8

\* A page of the variants of one product.
LEMMA NextVariantsIs ==
    ASSUME R!ReportsConstants, NEW s
    PROVE  /\ R!NextVariants(s) \subseteq R!Rest(s) /\ R!Rest(s) \subseteq R!Has(s)
           /\ R!NextVariants(s) = {} => R!Rest(s) = {}
           /\ R!NextVariants(s) # {} => R!Max({n[1] : n \in R!NextVariants(s)}) \in R!Cursors
           /\ \A n \in R!Rest(s) \ R!NextVariants(s) :
                R!NextVariants(s) # {} /\ n[1] > R!Max({v[1] : v \in R!NextVariants(s)})
  <1> DEFINE V == R!Rest(s)  F == R!NextVariants(s)
  <1>1. V \subseteq R!Has(s)
    BY RowsOf DEF R!Rest
  <1>2. V \in SUBSET (Records \X Values)
    BY <1>1, RowsOf
  <1>3. F = {n \in V : n[1] \in R!Lowest({m[1] : m \in V})}
    BY DEF R!NextVariants
  <1> HIDE DEF V, F
  <1>4. ASSUME V # {}
        PROVE  /\ F # {} /\ R!Max({n[1] : n \in F}) \in Records
               /\ \A n \in V : n \notin F => n[1] > R!Max({m[1] : m \in F})
    BY <1>2, <1>3, <1>4, RowsPaged
  <1>5. F \subseteq V
    BY <1>3
  <1> QED BY <1>1, <1>4, <1>5, RecordCursors DEF V, F

\* The next variants of a product; of a store whose cursor may be wrong, nothing
\* is claimed.
LEMMA TurnVariantsIs ==
    ASSUME R!ReportsConstants, ReportTypes, NEW s \in Stores, StoreInv(s), R!Elsewhere, round # 0,
           phase[s] = "variants", NEW cursor \in R!Cursors \cup {None}, NEW last \in BOOLEAN,
           R!TurnVariants(s, cursor, last), blank' = blank,
           \/ strayed' = strayed \cup {s}
           \/ /\ strayed' = strayed /\ last = (R!NextVariants(s) = R!Rest(s))
              /\ R!NextVariants(s) # {} => cursor = R!Max({n[1] : n \in R!NextVariants(s)})
    PROVE  Result(s)
  <1>1. strayed' \in {strayed, strayed \cup {s}}
    OBVIOUS
  <1>2. CASE ~last /\ (cursor = None \/ ~R!Follows(cursor, R!Cursor(s), seen[s]))
    <2>1. R!Drop(s)
      BY <1>2 DEF R!TurnVariants
    <2> QED BY <1>1, <2>1, DropIs
  <1>3. CASE ~(~last /\ (cursor = None \/ ~R!Follows(cursor, R!Cursor(s), seen[s])))
    <2> DEFINE P == R!Product(s)
               C == R!Cursor(s)
               N == nodes[s] \cup R!NextVariants(s)
               M == (more[s] \ {<<P, C>>}) \cup (IF last THEN {} ELSE {<<P, cursor>>})
               q == IF last THEN {} ELSE seen[s] \cup {C}
               p == IF M = {} THEN "read" ELSE "variants"
    <2>1. more[s] # {} /\ after[s] = 0 /\ report = "catalog"
      BY DEF StoreInv, Reading
    <2>2. P \in R!Keys /\ C \in R!Cursors /\ <<P, C>> \in more[s]
      BY <2>1, ProductIs
    <2>3. last \/ cursor \in R!Cursors
      BY <1>3
    <2>4. /\ nodes' = [nodes EXCEPT ![s] = N] /\ more' = [more EXCEPT ![s] = M]
          /\ seen' = [seen EXCEPT ![s] = q]
          /\ phase' = [phase EXCEPT ![s] = IF more'[s] = {} THEN "read" ELSE phase[s]]
          /\ UNCHANGED <<after, erred, cut>>
      BY <1>3 DEF R!TurnVariants, R!Collected
    <2>5. /\ N \in SUBSET (Records \X Values) /\ M \in SUBSET (R!Keys \X R!Cursors)
          /\ q \in SUBSET R!Cursors /\ N \subseteq nodes[s] \cup R!Has(s)
      <3>1. R!NextVariants(s) \in SUBSET R!Has(s)
        BY NextVariantsIs
      <3>2. N \subseteq nodes[s] \cup R!Has(s) /\ N \in SUBSET (Records \X Values)
        BY <3>1, RowsOf, LeftAlone
      <3>3. M \in SUBSET (R!Keys \X R!Cursors)
        BY <2>2, <2>3, LeftAlone
      <3>4. q \in SUBSET R!Cursors
        BY <2>2, LeftAlone
      <3> QED BY <3>2, <3>3, <3>4
    <2>6. \A n \in R!Rest(s) :
            n \in N \/ (~last /\ n[1] > cursor) \/ s \in strayed'
      <3> SUFFICES ASSUME NEW n \in R!Rest(s), n \notin N, s \notin strayed'
                   PROVE  ~last /\ n[1] > cursor
        OBVIOUS
      <3>1. /\ last = (R!NextVariants(s) = R!Rest(s))
            /\ R!NextVariants(s) # {} => cursor = R!Max({v[1] : v \in R!NextVariants(s)})
        OBVIOUS
      <3>2. n \in R!Rest(s) \ R!NextVariants(s)
        OBVIOUS
      <3>3. ~last
        BY <3>1, <3>2
      <3>4. R!NextVariants(s) # {} /\ n[1] > R!Max({v[1] : v \in R!NextVariants(s)})
        BY <3>2, NextVariantsIs
      <3> QED BY <3>1, <3>3, <3>4
    <2>7. ASSUME s \notin strayed', s \notin erred \cup blank, NEW n \in Listing(s), n[1] \notin moved[s]
          PROVE  n \in N \/ \E c \in R!Cursors : <<R!KeyOf(n[1]), c>> \in M /\ n[1] > c
      <3>1. CASE n \in nodes[s]
        BY <3>1
      <3>2. CASE \E c \in R!Cursors : <<R!KeyOf(n[1]), c>> \in more[s] /\ n[1] > c
        <4>1. PICK c \in R!Cursors : <<R!KeyOf(n[1]), c>> \in more[s] /\ n[1] > c
          BY <3>2
        <4>2. CASE <<R!KeyOf(n[1]), c>> = <<P, C>>
          <5>1. n \in R!Rest(s)
            BY <4>1, <4>2 DEF Listing, R!Rest, R!Variants
          <5>2. n \in N \/ (~last /\ n[1] > cursor)
            BY <2>6, <2>7, <5>1
          <5>3. ~last => <<P, cursor>> \in M /\ cursor \in R!Cursors
            BY <2>3
          <5> QED BY <4>2, <5>2, <5>3
        <4>3. CASE <<R!KeyOf(n[1]), c>> # <<P, C>>
          BY <4>1, <4>3
        <4> QED BY <4>2, <4>3
      <3> QED BY <2>1, <2>7, <3>1, <3>2 DEF StoreInv, Coverage, Covered
    <2> HIDE DEF P, C, N, M, q
    <2>8. more'[s] = M
      BY <2>4 DEF ReportTypes
    <2>9. Becomes(s, p, 0, q, N, M) /\ p \in R!Phases
      BY <2>1, <2>4, <2>8, LeftAlone DEF Becomes, R!Phases
    <2>10. p = "variants" <=> M # {}
      OBVIOUS
    <2> HIDE DEF p
    <2>11. /\ ReportTypes' /\ OnlyAt(s)
           /\ phase'[s] = p /\ after'[s] = 0 /\ nodes'[s] = N /\ more'[s] = M
      BY <1>1, <2>4, <2>5, <2>9, FieldsSet
    <2>12. p \in {"variants", "read"}
      BY DEF p
    <2>13. StoreInv(s)'
      BY <2>1, <2>4, <2>5, <2>7, <2>10, <2>11, <2>12, StoreNow
    <2> QED BY <2>11, <2>13 DEF Result
  <1> QED BY <1>2, <1>3

\* The next variants of a product, or none when it is gone.
LEMMA ReadVariantsIs ==
    ASSUME R!ReportsConstants, ReportTypes, NEW s \in Stores, StoreInv(s), R!ReadVariants(s)
    PROVE  Result(s)
  <1>1. /\ R!Elsewhere /\ round # 0 /\ phase[s] = "variants" /\ strayed' = strayed /\ blank' = blank
    BY DEF R!ReadVariants, R!Reading
  <1>2. CASE R!Variants(s, R!Product(s)) = {}
    <2>1. R!Drop(s)
      BY <1>2 DEF R!ReadVariants
    <2> QED BY <1>1, <2>1, DropIs
  <1>3. CASE R!Variants(s, R!Product(s)) # {}
    <2>1. PICK cursor : cursor = IF R!NextVariants(s) = {} THEN None
                                 ELSE R!Max({n[1] : n \in R!NextVariants(s)})
      OBVIOUS
    <2>2. PICK last \in BOOLEAN : last = (R!NextVariants(s) = R!Rest(s))
      OBVIOUS
    <2>3. R!TurnVariants(s, cursor, last)
      BY <1>3, <2>1, <2>2 DEF R!ReadVariants
    <2>4. cursor \in R!Cursors \cup {None}
      BY <2>1, NextVariantsIs
    <2> QED BY <1>1, <2>1, <2>2, <2>3, <2>4, TurnVariantsIs
  <1> QED BY <1>2, <1>3

\* The next variants with a wrong cursor.
LEMMA StrayVariantsIs ==
    ASSUME R!ReportsConstants, ReportTypes, NEW s \in Stores, StoreInv(s), R!StrayVariants(s)
    PROVE  Result(s)
  <1>1. /\ R!Elsewhere /\ round # 0 /\ phase[s] = "variants"
        /\ strayed' = strayed \cup {s} /\ blank' = blank
    BY DEF R!StrayVariants, R!Reading
  <1>2. PICK cursor \in Strays \cup {None} : R!TurnVariants(s, cursor, FALSE)
    BY DEF R!StrayVariants
  <1>3. Strays \subseteq R!Cursors
    BY DEF R!ReportsConstants
  <1>4. cursor \in R!Cursors \cup {None}
    BY <1>2, <1>3
  <1> QED BY <1>1, <1>2, <1>4, TurnVariantsIs

\* Every request has such a result.
LEMMA RequestIs ==
    ASSUME R!ReportsConstants, ReportTypes, NEW s \in Stores, StoreInv(s), R!Request(s)
    PROVE  Result(s)
  BY ReadPageIs, StrayPageIs, ReadRowsIs, ReadNothingIs, ReadErrorsIs, ReadVariantsIs, StrayVariantsIs,
     StoreFailsIs DEF R!Request

-----------------------------------------------------------------------------
(* Reports: what others change, and the end of a round.                       *)

\* What a change leaves: the other rows of the store, and all of the other stores.
LEMMA ChangeIs ==
    ASSUME ReportTypes, NEW s \in Stores, NEW r \in Records, R!Change(s, r)
    PROVE  /\ ReportTypes' /\ changes' # 0
           /\ UNCHANGED <<report, round, phase, after, nodes, more, erred, cut, first, strayed, blank>>
           /\ \A t \in Stores : held[t] \subseteq held'[t] /\ R!Has(t)' \subseteq held'[t] \cup R!Has(t)
           /\ \A t \in Stores : moved[t] \subseteq moved'[t]
           /\ \A t \in Stores : \A n \in R!Has(t)' : n[1] \notin moved'[t] => n \in R!Has(t)
  <1>1. PICK v \in Values \cup {None} :
          /\ content' = [content EXCEPT ![s][r] = v]
          /\ held' = [held EXCEPT ![s] = @ \cup (IF v = None THEN {} ELSE {<<r, v>>})]
    BY DEF R!Change
  <1>2. /\ changes < MaxChanges /\ changes' = changes + 1 /\ moved' = [moved EXCEPT ![s] = @ \cup {r}]
        /\ UNCHANGED <<report, round, phase, after, seen, nodes, more, erred, cut, first, strayed, blank>>
    BY DEF R!Change, R!reading
  <1>3. content' \in [Stores -> [Records -> Values \cup {None}]]
    BY <1>1 DEF ReportTypes
  <1>4. held' \in [Stores -> SUBSET (Records \X Values)]
    <2>1. (IF v = None THEN {} ELSE {<<r, v>>}) \in SUBSET (Records \X Values)
      BY <1>1
    <2> QED BY <1>1, <2>1 DEF ReportTypes
  <1>5. moved' \in [Stores -> SUBSET Records]
    BY <1>2 DEF ReportTypes
  <1>6. changes' \in 0..MaxChanges /\ changes' # 0
    BY <1>2, ReportsAssumption DEF ReportTypes, R!ReportsConstants
  <1>7. ReportTypes'
    BY <1>2, <1>3, <1>4, <1>5, <1>6 DEF ReportTypes
  <1>8. ASSUME NEW t \in Stores, NEW n \in R!Has(t)', n \notin R!Has(t)
        PROVE  n \in held'[t] /\ n[1] \in moved'[t]
    <2>1. n \in Records \X Values /\ content'[t][n[1]] = n[2] /\ content[t][n[1]] # n[2]
      BY <1>8 DEF R!Has
    <2>2. t = s /\ n[1] = r
      BY <1>1, <2>1 DEF ReportTypes
    <2>3. n[2] = v
      BY <1>1, <2>1, <2>2 DEF ReportTypes
    <2>4. n = <<r, v>> /\ v \in Values
      BY <2>1, <2>2, <2>3
    <2>5. v # None
      BY <2>4, ReportsAssumption DEF R!ReportsConstants
    <2> QED BY <1>1, <1>2, <2>2, <2>4, <2>5 DEF ReportTypes
  <1>9. \A t \in Stores : held[t] \subseteq held'[t] /\ moved[t] \subseteq moved'[t]
    BY <1>1, <1>2 DEF ReportTypes
  <1> QED BY <1>2, <1>6, <1>7, <1>8, <1>9

\* A change keeps the invariant.
LEMMA ChangeKeeps ==
    ASSUME ReportInv, NEW s \in Stores, NEW r \in Records, R!Change(s, r)
    PROVE  ReportInv'
  <1>1. /\ ReportTypes' /\ changes' # 0
        /\ UNCHANGED <<report, round, phase, after, nodes, more, erred, cut, first, strayed, blank>>
        /\ \A t \in Stores : held[t] \subseteq held'[t] /\ R!Has(t)' \subseteq held'[t] \cup R!Has(t)
        /\ \A t \in Stores : moved[t] \subseteq moved'[t]
        /\ \A t \in Stores : \A n \in R!Has(t)' : n[1] \notin moved'[t] => n \in R!Has(t)
    BY ChangeIs DEF ReportInv
  <1>2. ASSUME NEW t \in Stores PROVE StoreInv(t)'
    <2>1. Reading(t)'
      BY <1>1 DEF Reading, ReportInv, StoreInv
    <2>2. History(t)'
      BY <1>1 DEF History, ReportInv, StoreInv
    <2>3. \A n \in Listing(t)' : n[1] \notin moved'[t] => n \in Listing(t) /\ n[1] \notin moved[t]
      BY <1>1 DEF Listing
    <2>4. \A k, n : /\ R!Shows(t, k)' = R!Shows(t, k) /\ R!Place(n)' = R!Place(n)
                    /\ (Covered(t, n)' <=> Covered(t, n))
      BY <1>1 DEF R!Shows, R!Place, R!Position, R!OfProducts, Covered
    <2>5. Coverage(t)'
      BY <1>1, <2>3, <2>4 DEF Coverage, ReportInv, StoreInv
    <2> QED BY <2>1, <2>2, <2>5 DEF StoreInv
  <1>3. FirstRound'
    <2>1. R!OutOfStock(first.nodes)' = R!OutOfStock(first.nodes)
      BY <1>1 DEF R!OutOfStock
    <2>2. ASSUME report = "low_stock" /\ round # 1
          PROVE  \A t \in Stores : first.nodes[t] \subseteq held'[t]
      BY <1>1, <2>2 DEF FirstRound, ReportInv
    <2>3. ASSUME report = "low_stock" /\ round # 1, NEW t \in first.ok \ (strayed \cup blank),
                 NEW n \in R!Has(t)', n[1] \notin moved'[t], n[2] <= Threshold
          PROVE  n \in first.nodes[t]
      <3>1. t \in Stores
        BY DEF ReportInv, ReportTypes
      <3>2. n \in R!Has(t) /\ n[1] \notin moved[t]
        BY <1>1, <2>3, <3>1
      <3> QED BY <2>3, <3>2 DEF FirstRound, ReportInv
    <2> QED BY <1>1, <2>1, <2>2, <2>3 DEF FirstRound, ReportInv
  <1> QED BY <1>1, <1>2, <1>3 DEF ReportInv

\* The first round of a low stock report ends, and the second begins or none.
LEMMA FirstRoundEnds ==
    ASSUME ReportInv, R!EndRound, report = "low_stock", round = 1
    PROVE  ReportInv'
  <1>1. PICK skus \in SUBSET R!OutOfStock(nodes) :
          /\ R!Cardinality(skus) = R!Min({SkuLimit, R!Cardinality(R!OutOfStock(nodes))})
          /\ first' = [ok |-> R!Ok, nodes |-> nodes, skus |-> skus]
          /\ round' = IF skus = {} THEN 0 ELSE 2
    BY DEF R!EndRound
  <1>2. /\ \A s \in Stores : phase[s] \in {"read", "failed"}
        /\ phase' = [s \in Stores |-> "list"]
        /\ nodes' = [s \in Stores |-> {}] /\ erred' = {}
        /\ UNCHANGED <<report, after, seen, more, cut, content, changes, held, moved, strayed, blank>>
    BY DEF R!EndRound, R!world, R!Nothing
  <1>3. ReportTypes'
    <2>1. round' \in 0..2 /\ phase' \in [Stores -> R!Phases]
          /\ nodes' \in [Stores -> SUBSET (Records \X Values)]
      BY <1>1, <1>2 DEF R!Phases
    <2>2. R!Ok \subseteq Stores
      BY DEF R!Ok
    <2>3. R!OutOfStock(nodes) \subseteq R!Keys
      BY DEF R!OutOfStock, R!Keys, ReportInv, ReportTypes
    <2>4. first' \in [ok : SUBSET Stores, nodes : [Stores -> SUBSET (Records \X Values)],
                      skus : SUBSET R!Keys]
      BY <1>1, <2>2, <2>3 DEF ReportInv, ReportTypes
    <2> QED BY <1>2, <2>1, <2>4 DEF ReportInv, ReportTypes
  <1>4. \A s : R!Has(s)' = R!Has(s)
    BY <1>2 DEF R!Has
  <1>5. ASSUME NEW s \in Stores PROVE StoreInv(s)'
    <2>1. phase'[s] = "list" /\ nodes'[s] = {} /\ after'[s] = 0 /\ more'[s] = {}
      BY <1>2 DEF ReportInv, StoreInv, Reading
    <2>2. Reading(s)'
      BY <1>2, <2>1 DEF Reading
    <2>3. History(s)'
      BY <1>2, <1>4, <2>1 DEF History, ReportInv, StoreInv
    <2>4. \A n \in Listing(s)' : R!Place(n)' \in R!Cursors
      BY <1>4, PlaceIs, RowsOf, ReportsAssumption DEF Listing
    <2>5. \A n \in Listing(s)' : ~(R!Place(n)' <= 0)
      BY <2>4 DEF R!Cursors
    <2>6. Coverage(s)'
      BY <1>2, <2>1, <2>5 DEF Coverage
    <2> QED BY <2>2, <2>3, <2>6 DEF StoreInv
  <1>6. FirstRound'
    <2>1. R!OutOfStock(first.nodes)' = R!OutOfStock(nodes)
      BY <1>1 DEF R!OutOfStock
    <2>2. \A s \in Stores : nodes[s] \subseteq held'[s]
      BY <1>2 DEF ReportInv, StoreInv, History
    <2>3. ASSUME NEW s \in R!Ok \ (strayed \cup blank), NEW n \in R!Has(s), n[1] \notin moved[s],
                 n[2] <= Threshold
          PROVE  n \in nodes[s]
      <3>1. s \in Stores /\ phase[s] = "read" /\ s \notin erred \cup strayed \cup blank
        BY <2>3 DEF R!Ok
      <3>2. n \in Listing(s)
        BY <2>3 DEF Listing
      <3>3. more[s] = {}
        BY <3>1 DEF ReportInv, StoreInv, Reading
      <3> QED BY <2>3, <3>1, <3>2, <3>3 DEF ReportInv, StoreInv, Coverage, Covered
    <2>4. first'.ok = R!Ok /\ first'.nodes = nodes /\ first'.skus = skus
      BY <1>1
    <2> QED BY <1>1, <1>2, <1>4, <2>1, <2>2, <2>3, <2>4 DEF FirstRound
  <1> QED BY <1>3, <1>5, <1>6 DEF ReportInv

\* A report ends.
LEMMA ReportEnds ==
    ASSUME ReportInv, R!EndRound, ~(report = "low_stock" /\ round = 1)
    PROVE  ReportInv'
  <1>1. /\ round # 0 /\ \A s \in Stores : phase[s] \in {"read", "failed"}
        /\ round' = 0
        /\ UNCHANGED <<first, phase, nodes, erred, report, after, seen, more, cut, content, changes,
                       held, moved, strayed, blank>>
    BY DEF R!EndRound, R!world
  <1>2. ReportTypes'
    BY <1>1 DEF ReportInv, ReportTypes
  <1>3. \A s : R!Has(s)' = R!Has(s)
    BY <1>1 DEF R!Has
  <1>4. ASSUME NEW s \in Stores PROVE StoreInv(s)'
    <2>1. Reading(s)'
      BY <1>1 DEF Reading, ReportInv, StoreInv
    <2>2. History(s)'
      BY <1>1, <1>3 DEF History, ReportInv, StoreInv
    <2>3. Listing(s)' = Listing(s)
      BY <1>1, <1>3 DEF Listing
    <2>4. \A k, n : R!Shows(s, k)' = R!Shows(s, k) /\ (Covered(s, n)' <=> Covered(s, n))
      BY <1>1 DEF R!Shows, Covered
    <2>5. Coverage(s)'
      BY <1>1, <2>3, <2>4 DEF Coverage, ReportInv, StoreInv
    <2> QED BY <2>1, <2>2, <2>5 DEF StoreInv
  <1>5. FirstRound'
    <2>1. R!OutOfStock(first.nodes)' = R!OutOfStock(first.nodes)
      BY <1>1 DEF R!OutOfStock
    <2> QED BY <1>1, <1>3, <2>1 DEF FirstRound, ReportInv
  <1> QED BY <1>2, <1>4, <1>5 DEF ReportInv

-----------------------------------------------------------------------------
(* Reports: the invariant holds.                                              *)

\* A report begins with it, and a report that is not called has it.
LEMMA ReportInitInv == R!Init \/ NoReport => ReportInv
  <1>1. ASSUME R!Init PROVE ReportInv
    <2>1. /\ report \in R!Reports /\ content \in [Stores -> Contents] /\ round = 1
          /\ phase = [s \in Stores |-> "list"] /\ after = [s \in Stores |-> 0]
          /\ seen = [s \in Stores |-> {}] /\ nodes = [s \in Stores |-> {}]
          /\ more = [s \in Stores |-> {}] /\ erred = {} /\ cut = {} /\ first = R!NoRound
          /\ changes = 0 /\ held = [s \in Stores |-> R!Has(s)] /\ moved = [s \in Stores |-> {}]
          /\ strayed = {} /\ blank = {}
      BY <1>1 DEF R!Init, R!Nothing
    <2>2. content \in [Stores -> [Records -> Values \cup {None}]]
      BY <2>1, ReportsAssumption DEF R!ReportsConstants
    <2>3. changes \in 0..MaxChanges
      BY <2>1, ReportsAssumption DEF R!ReportsConstants
    <2>4. first \in [ok : SUBSET Stores, nodes : [Stores -> SUBSET (Records \X Values)],
                     skus : SUBSET R!Keys]
      BY <2>1 DEF R!NoRound, R!Nothing
    <2>5. held \in [Stores -> SUBSET (Records \X Values)]
      BY <2>1, RowsOf
    <2>6. ReportTypes
      BY <2>1, <2>2, <2>3, <2>4, <2>5 DEF ReportTypes, R!Phases
    <2>7. ASSUME NEW s \in Stores PROVE StoreInv(s)
      <3>1. Reading(s) /\ History(s)
        BY <2>1 DEF Reading, History
      <3>2. \A n \in Listing(s) : R!Place(n) \in R!Cursors
        BY PlaceIs, RowsOf, ReportsAssumption DEF Listing
      <3>3. \A n \in Listing(s) : ~(R!Place(n) <= 0)
        BY <3>2 DEF R!Cursors
      <3>4. Coverage(s)
        BY <2>1, <3>3 DEF Coverage
      <3> QED BY <3>1, <3>4 DEF StoreInv
    <2> QED BY <2>1, <2>6, <2>7 DEF ReportInv, FirstRound
  <1>2. ASSUME NoReport PROVE ReportInv
    <2>1. /\ report = "compare" /\ content = [s \in Stores |-> [r \in Records |-> None]] /\ round = 0
          /\ phase = [s \in Stores |-> "failed"] /\ after = [s \in Stores |-> 0]
          /\ seen = [s \in Stores |-> {}] /\ nodes = [s \in Stores |-> {}]
          /\ more = [s \in Stores |-> {}] /\ erred = {} /\ cut = {} /\ first = R!NoRound
          /\ changes = 0 /\ held = [s \in Stores |-> {}] /\ moved = [s \in Stores |-> {}]
          /\ strayed = {} /\ blank = {}
      BY <1>2 DEF NoReport, R!Nothing
    <2>2. changes \in 0..MaxChanges
      BY <2>1, ReportsAssumption DEF R!ReportsConstants
    <2>3. first \in [ok : SUBSET Stores, nodes : [Stores -> SUBSET (Records \X Values)],
                     skus : SUBSET R!Keys]
      BY <2>1 DEF R!NoRound, R!Nothing
    <2>4. ReportTypes
      BY <2>1, <2>2, <2>3 DEF ReportTypes, R!Phases, R!Reports
    <2>5. ASSUME NEW s \in Stores PROVE StoreInv(s)
      <3>1. R!Has(s) = {}
        BY <2>1, ReportsAssumption DEF R!Has, R!ReportsConstants
      <3>2. Reading(s) /\ History(s)
        BY <2>1, <3>1 DEF Reading, History
      <3>3. Coverage(s)
        BY <3>1 DEF Coverage, Listing
      <3> QED BY <3>2, <3>3 DEF StoreInv
    <2> QED BY <2>1, <2>4, <2>5 DEF ReportInv, FirstRound
  <1> QED BY <1>1, <1>2

\* It speaks of the report only.
LEMMA ReportRests ==
    ASSUME ReportInv, UNCHANGED reports
    PROVE  ReportInv'
  <1>1. UNCHANGED <<report, content, round, phase, after, seen, nodes, more, erred, cut, first,
                    changes, held, moved, strayed, blank>>
    BY DEF reports
  <1>2. ReportTypes'
    BY <1>1 DEF ReportInv, ReportTypes
  <1>3. /\ \A s : R!Has(s)' = R!Has(s) /\ Listing(s)' = Listing(s)
        /\ \A n : R!Place(n)' = R!Place(n)
        /\ \A s, k : R!Shows(s, k)' = R!Shows(s, k)
        /\ \A s, n : Covered(s, n)' <=> Covered(s, n)
        /\ R!OutOfStock(first.nodes)' = R!OutOfStock(first.nodes)
    BY <1>1 DEF R!Has, Listing, R!Place, R!Position, R!OfProducts, R!Shows, Covered, R!OutOfStock
  <1>4. ASSUME NEW s \in Stores PROVE StoreInv(s)'
    <2>1. Reading(s)' /\ History(s)'
      BY <1>1, <1>3 DEF Reading, History, ReportInv, StoreInv
    <2>2. Coverage(s)'
      BY <1>1, <1>3 DEF Coverage, ReportInv, StoreInv
    <2> QED BY <2>1, <2>2 DEF StoreInv
  <1>5. FirstRound'
    BY <1>1, <1>3 DEF FirstRound, ReportInv
  <1> QED BY <1>2, <1>4, <1>5 DEF ReportInv

\* Every step of a report keeps it.
LEMMA ReportStep ==
    ASSUME ReportInv, R!Next
    PROVE  ReportInv'
  <1>1. CASE R!EndRound
    BY <1>1, FirstRoundEnds, ReportEnds
  <1>2. ASSUME NEW s \in Stores, R!Request(s) PROVE ReportInv'
    <2>1. Result(s)
      BY <1>2, RequestIs, ReportsAssumption DEF ReportInv
    <2> QED BY <2>1, RequestKeeps
  <1>3. ASSUME NEW s \in Stores, NEW r \in Records, R!Change(s, r) PROVE ReportInv'
    BY <1>3, ChangeKeeps
  <1> QED BY <1>1, <1>2, <1>3 DEF R!Next

\* The invariant of a report: types, how far each store is read, what it has had,
\* that its reading has no gap so far, and what a first round came to.
THEOREM ReportInvariant == ToolSpec => []ReportInv
  <1>1. ToolInit => ReportInv
    BY ReportInitInv DEF ToolInit
  <1>2. ReportInv /\ [ToolNext]_<<vars, reports>> => ReportInv'
    BY ReportStep, ReportRests DEF ToolNext
  <1> QED BY <1>1, <1>2, PTL DEF ToolSpec

\* However its pages fall and whatever others change meanwhile, a store that is
\* ok returns every record that was there from the beginning to the end.
THEOREM ReportPagesComplete == ToolSpec => []PagesComplete
  <1>1. ReportInv => PagesComplete
    <2> SUFFICES ASSUME ReportInv, round # 0, NEW s \in R!Ok \ (strayed \cup blank),
                        NEW n \in R!Listed(s), n[1] \notin moved[s]
                 PROVE  IF report = "gap" THEN s \in cut \/ R!Shows(s, R!KeyOf(n[1])) # {} ELSE n \in nodes[s]
      BY DEF PagesComplete, R!PagesComplete
    <2>1. s \in Stores /\ phase[s] = "read" /\ s \notin erred \cup strayed \cup blank
      BY DEF R!Ok
    <2>2. n \in Listing(s)
      BY ListingIs DEF ReportInv, ReportTypes
    <2>3. more[s] = {}
      BY <2>1 DEF ReportInv, StoreInv, Reading
    <2> QED BY <2>1, <2>2, <2>3 DEF ReportInv, StoreInv, Coverage, Covered
  <1> QED BY <1>1, ReportInvariant, PTL

-----------------------------------------------------------------------------
(* Reports: the conclusions.                                                  *)

\* Nothing changed: a store that is ok shows what it has.
LEMMA OkShowsAll ==
    ASSUME ReportInv, R!Quiet, round = 0, report \in {"compare", "catalog"}, NEW s \in R!Ok
    PROVE  \A k : R!Shows(s, k) = R!Variants(s, k)
  <1>1. s \in Stores /\ phase[s] = "read" /\ s \notin erred \cup strayed \cup blank
    BY DEF R!Ok, R!Quiet
  <1>2. more[s] = {} /\ moved[s] = {} /\ held[s] = R!Has(s) /\ nodes[s] \subseteq held[s]
    BY <1>1 DEF ReportInv, StoreInv, Reading, History, R!Quiet
  <1>3. Listing(s) = R!Has(s)
    BY DEF Listing
  <1>4. \A n \in R!Has(s) : n \in nodes[s]
    BY <1>1, <1>2, <1>3 DEF ReportInv, StoreInv, Coverage, Covered
  <1>5. nodes[s] = R!Has(s)
    BY <1>2, <1>4
  <1> QED BY <1>5 DEF R!Shows, R!Variants

\* The same number of rows with a value: none in one, none in the other.
LEMMA SameRows ==
    ASSUME report # "catalog", NEW V \in SUBSET (Records \X Values),
           R!Fingerprint({}) = R!Fingerprint(V)
    PROVE  V = {}
  <1> SUFFICES ASSUME NEW n \in V PROVE FALSE
    OBVIOUS
  <1> DEFINE W == {m \in V : m[2] = n[2]}
             O == {m \in {} : m[2] = n[2]}
             f == [m \in W |-> m[1]]
  <1>1. \A U : R!Fingerprint(U) = [v \in Values |-> R!Cardinality({m \in U : m[2] = v})]
    BY DEF R!Fingerprint
  <1>2. n[2] \in Values
    OBVIOUS
  <1>3. R!Fingerprint({})[n[2]] = R!Cardinality(O) /\ R!Fingerprint(V)[n[2]] = R!Cardinality(W)
    BY <1>1, <1>2
  <1>4. Cardinality(O) = Cardinality(W)
    BY <1>3, SameCardinality
  <1>5. O = {}
    OBVIOUS
  <1>6. Cardinality(W) = 0
    BY <1>4, <1>5, FS_EmptySet
  <1>7. f \in Injection(W, Records)
    <2>1. f \in [W -> Records]
      OBVIOUS
    <2>2. \A x, y \in W : f[x] = f[y] => x = y
      OBVIOUS
    <2> HIDE DEF f, W
    <2> QED BY <2>1, <2>2 DEF Injection, IsInjective
  <1>8. IsFiniteSet(W)
    <2> HIDE DEF f, W
    <2> QED BY <1>7, FS_Injection, Numbers, ReportsAssumption
  <1>9. W = {}
    <2> HIDE DEF W
    <2> QED BY <1>6, <1>8, FS_EmptySet
  <1> QED BY <1>9

\* What is called consistent: exactly what is the same everywhere, and nothing
\* when a store failed without a part of its data.
LEMMA ConsistentIs ==
    ASSUME ReportInv, round = 0, report \in {"compare", "catalog"}, NEW k \in R!Keys
    PROVE  /\ R!Quiet /\ R!Ok = Stores =>
                (R!Consistent(k) <=>
                   /\ \E s \in Stores : R!Variants(s, k) # {}
                   /\ \A s, t \in Stores :
                        R!Fingerprint(R!Variants(s, k)) = R!Fingerprint(R!Variants(t, k)))
           /\ R!Consistent(k) => \A s \in Stores : s \in R!Ok \/ (s \in erred /\ nodes[s] # {})
  <1>1. ASSUME R!Quiet, R!Ok = Stores
        PROVE  \A s \in Stores : R!Shows(s, k) = R!Variants(s, k)
    BY <1>1, OkShowsAll
  <1>2. ASSUME R!Consistent(k), NEW s \in Stores, s \notin R!Ok
        PROVE  s \in erred /\ nodes[s] # {}
    <2>1. phase[s] \in {"read", "failed"}
      BY DEF ReportInv, StoreInv, Reading
    <2>2. PICK t \in Stores : R!Shows(t, k) # {}
      BY <1>2 DEF R!Consistent, R!FoundAnywhere
    <2>3. R!Fingerprint(R!Shows(s, k)) = R!Fingerprint(R!Shows(t, k))
      BY <1>2 DEF R!Consistent
    <2>4. ASSUME nodes[s] = {} PROVE FALSE
      <3>1. R!Shows(s, k) = {}
        BY <2>4 DEF R!Shows
      <3>2. CASE report = "catalog"
        BY <2>2, <2>3, <3>1, <3>2 DEF R!Fingerprint
      <3>3. CASE report # "catalog"
        <4>1. R!Shows(t, k) \in SUBSET (Records \X Values)
          BY DEF R!Shows, ReportInv, ReportTypes
        <4> QED BY <2>2, <2>3, <3>1, <3>3, <4>1, SameRows
      <3> QED BY <3>2, <3>3
    <2>5. phase[s] = "read"
      BY <2>1, <2>4 DEF ReportInv, StoreInv, Reading
    <2> QED BY <1>2, <2>4, <2>5 DEF R!Ok
  <1> QED BY <1>1, <1>2 DEF R!Consistent, R!FoundAnywhere

\* A complete gap report names exactly the stores that lack a product.
LEMMA GapsAre ==
    ASSUME ReportInv, round = 0, report = "gap", R!Quiet, R!GapAnalysisComplete, NEW k \in R!Keys
    PROVE  /\ k \in R!GapKeys <=> \E s \in Stores : R!Variants(s, k) # {}
           /\ R!MissingStores(k) = {s \in Stores : R!Variants(s, k) = {}}
  <1>1. R!Ok = Stores /\ \A s \in Stores : s \notin cut
    BY DEF R!GapAnalysisComplete
  <1>2. ASSUME NEW s \in Stores PROVE R!Shows(s, k) = {} <=> R!Variants(s, k) = {}
    <2>1. phase[s] = "read" /\ s \notin erred \cup strayed \cup blank
      BY <1>1 DEF R!Ok, R!Quiet
    <2>2. moved[s] = {} /\ nodes[s] \subseteq R!Has(s)
      BY DEF ReportInv, StoreInv, History, R!Quiet
    <2>3. Listing(s) = R!Has(s)
      BY DEF Listing
    <2>4. \A n \in R!Has(s) : R!Shows(s, R!KeyOf(n[1])) # {}
      BY <1>1, <2>1, <2>2, <2>3 DEF ReportInv, StoreInv, Coverage
    <2>5. ASSUME R!Variants(s, k) # {} PROVE R!Shows(s, k) # {}
      <3>1. PICK n \in R!Has(s) : R!KeyOf(n[1]) = k
        BY <2>5 DEF R!Variants
      <3> QED BY <2>4, <3>1
    <2>6. R!Shows(s, k) \subseteq R!Variants(s, k)
      BY <2>2 DEF R!Shows, R!Variants
    <2> QED BY <2>5, <2>6
  <1> QED BY <1>1, <1>2 DEF R!GapKeys, R!MissingStores

\* A search for transfers that is complete looked for every SKU.
LEMMA AllSkus ==
    ASSUME ReportInv, report = "low_stock", round # 1,
           R!Cardinality(R!OutOfStock(first.nodes)) <= SkuLimit
    PROVE  first.skus = R!OutOfStock(first.nodes)
  <1> DEFINE O == R!OutOfStock(first.nodes)
  <1>1. first.skus \in SUBSET O /\ Cardinality(first.skus) = R!Min({SkuLimit, Cardinality(O)})
    BY SameCardinality DEF ReportInv, FirstRound
  <1>2. O \subseteq R!Keys
    BY DEF R!OutOfStock, R!Keys, ReportInv, ReportTypes
  <1>3. IsFiniteSet(O) /\ Cardinality(O) <= SkuLimit
    BY <1>2, KeysFinite, ReportsAssumption, SameCardinality
  <1> HIDE DEF O
  <1>4. Cardinality(O) \in Nat /\ SkuLimit \in Nat
    BY <1>3, FS_CardinalityType, Numbers, ReportsAssumption
  <1>5. R!Min({SkuLimit, Cardinality(O)}) = Cardinality(O)
    <2> DEFINE S == {SkuLimit, Cardinality(O)}
    <2>1. \E x \in S : \A y \in S : x =< y
      BY <1>3, <1>4
    <2>2. R!Min(S) \in S /\ \A y \in S : R!Min(S) =< y
      BY <2>1 DEF R!Min
    <2> QED BY <1>3, <1>4, <2>2
  <1>6. first.skus = O
    BY <1>1, <1>3, <1>5, FS_Subset
  <1> QED BY <1>6 DEF O

\* Every transfer is one, and a complete search finds them all.
LEMMA TransfersAre ==
    ASSUME ReportInv, round = 0, report = "low_stock"
    PROVE  /\ \A o \in R!Opportunities :
                /\ \E n \in held[o[2]] : R!KeyOf(n[1]) = o[1] /\ n[2] <= 0
                /\ \E n \in held[o[3]] : R!KeyOf(n[1]) = o[1] /\ n[2] > 0
           /\ R!Quiet /\ R!TransferComplete /\ first.ok = Stores =>
                \A k \in R!Keys, s, t \in Stores :
                  /\ s # t
                  /\ \E n \in R!Variants(s, k) : n[2] <= 0 /\ n[2] <= Threshold
                  /\ \E n \in R!Variants(t, k) : n[2] > 0
                  => <<k, s, t>> \in R!Opportunities
  <1>1. \A s \in Stores : nodes[s] \subseteq held[s] /\ first.nodes[s] \subseteq held[s]
    BY DEF ReportInv, StoreInv, History, FirstRound
  <1>2. ASSUME NEW o \in R!Opportunities
        PROVE  /\ \E n \in held[o[2]] : R!KeyOf(n[1]) = o[1] /\ n[2] <= 0
               /\ \E n \in held[o[3]] : R!KeyOf(n[1]) = o[1] /\ n[2] > 0
    <2>1. /\ o[2] \in Stores /\ o[3] \in Stores
          /\ \E n \in first.nodes[o[2]] : R!KeyOf(n[1]) = o[1] /\ n[2] <= 0
          /\ \E n \in nodes[o[3]] : R!KeyOf(n[1]) = o[1] /\ n[2] > 0
      BY DEF R!Opportunities
    <2> QED BY <1>1, <2>1
  <1>3. ASSUME R!Quiet, R!TransferComplete, first.ok = Stores,
               NEW k \in R!Keys, NEW s \in Stores, NEW t \in Stores, s # t,
               NEW n \in R!Variants(s, k), n[2] <= 0, n[2] <= Threshold,
               NEW m \in R!Variants(t, k), m[2] > 0
        PROVE  <<k, s, t>> \in R!Opportunities
    <2>1. \A u \in Stores : moved[u] = {} /\ u \notin strayed \cup blank
      BY <1>3 DEF ReportInv, StoreInv, History, R!Quiet
    <2>2. n \in R!Has(s) /\ R!KeyOf(n[1]) = k /\ m \in R!Has(t) /\ R!KeyOf(m[1]) = k
      BY DEF R!Variants
    <2>3. n \in first.nodes[s]
      BY <1>3, <2>1, <2>2 DEF ReportInv, FirstRound
    <2>4. k \in R!OutOfStock(first.nodes)
      BY <1>3, <2>2, <2>3 DEF R!OutOfStock
    <2>5. k \in first.skus
      BY <1>3, <2>4, AllSkus DEF R!TransferComplete
    <2>6. phase[t] = "read" /\ t \notin erred
      BY <1>3, <2>5 DEF R!TransferComplete, R!Ok
    <2>7. m \in Listing(t)
      BY <2>2, <2>5 DEF Listing
    <2>8. more[t] = {}
      BY DEF ReportInv, StoreInv, Reading
    <2>9. m \in nodes[t]
      BY <2>1, <2>6, <2>7, <2>8 DEF ReportInv, StoreInv, Coverage, Covered
    <2> QED BY <1>3, <2>2, <2>3, <2>5, <2>9 DEF R!Opportunities
  <1> QED BY <1>2, <1>3

\* The conclusions of a report are true, for any number of stores and records:
\* what it calls consistent is the same everywhere, the stores it names lack the
\* product, the transfers it finds are possible and, when it says that it is
\* complete, all there are.
THEOREM ReportClaimsTrue == ToolSpec => []ClaimsTrue
  <1>1. ReportInv => ClaimsTrue
    <2> SUFFICES ASSUME ReportInv, round = 0 PROVE R!ClaimsTrue
      BY DEF ClaimsTrue, R!ClaimsTrue
    <2>1. \A k : R!MissingStores(k) \subseteq R!Ok
      BY DEF R!MissingStores
    <2> QED BY <2>1, ConsistentIs, GapsAre, TransfersAre DEF R!ClaimsTrue
  <1> QED BY <1>1, ReportInvariant, PTL

\* Every variable of a call, and of a report, keeps its type.
THEOREM ToolsTypeCorrect == ToolSpec => []ToolTypes
  <1>1. CallInv => TypeOK
    BY DEF CallInv
  <1>2. ReportInv => R!TypeOK
    BY DEF ReportInv, ReportTypes, R!TypeOK, StoreInv, Reading, History
  <1>3. CallInv /\ LookupInv /\ ReportInv => ToolTypes
    BY <1>1, <1>2 DEF ToolTypes, LookupInv
  <1> QED BY <1>3, CallInvariant, LookupHolds, ReportInvariant, PTL
================================================================================
