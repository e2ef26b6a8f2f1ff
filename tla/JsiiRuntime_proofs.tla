------------------------- MODULE JsiiRuntime_proofs -------------------------
(***************************************************************************)
(* Proofs about a native program and its runtime together: both ends agree *)
(* on the calls that are open, calls nest, and every callback is accounted *)
(* for.                                                                    *)
(***************************************************************************)
EXTENDS JsiiRuntime, KernelHost_proofs, FiniteSetTheorems

-----------------------------------------------------------------------------
(* The open items of a stack, cut off at m.                                *)
IsOpened(g, base, s, m) ==
  g = [i \in 0 .. m |->
         IF i = 0 THEN base
         ELSE IF OpenFrame(s[i]) THEN Append(g[i - 1], FrameItem(s[i])) ELSE g[i - 1]]

LEMMA OpenedExists ==
  ASSUME NEW base, NEW s, NEW n \in Nat
  PROVE  \E g : IsOpened(g, base, s, n)
<1> DEFINE T == {m \in Nat : ~ \E g : IsOpened(g, base, s, m)}
<1>1. SUFFICES ASSUME T # {} PROVE FALSE
  OBVIOUS
<1>2. PICK m \in T : \A k \in T : m <= k
  BY <1>1, LeastNumber
<1>3. m \in Nat /\ ~ \E g : IsOpened(g, base, s, m)
  OBVIOUS
<1> DEFINE Next1(h, i) == IF OpenFrame(s[i]) THEN Append(h[i - 1], FrameItem(s[i])) ELSE h[i - 1]
<1>4. \A g, k : IsOpened(g, base, s, k) <=> g = [i \in 0 .. k |-> IF i = 0 THEN base ELSE Next1(g, i)]
  BY DEF IsOpened
<1>5. \A g, h, i : g[i - 1] = h[i - 1] => Next1(g, i) = Next1(h, i)
  OBVIOUS
<1> HIDE DEF Next1
<1>6. CASE m = 0
  <2> DEFINE g == [i \in 0 .. 0 |-> base]
  <2>1. g = [i \in 0 .. 0 |-> IF i = 0 THEN base ELSE Next1(g, i)]
    OBVIOUS
  <2> QED BY <1>3, <1>4, <1>6, <2>1
<1>7. CASE m # 0
  <2>1. m - 1 \in Nat /\ m - 1 \notin T
    BY <1>2, <1>3, <1>7
  <2>2. PICK h : h = [i \in 0 .. m - 1 |-> IF i = 0 THEN base ELSE Next1(h, i)]
    BY <1>4, <2>1
  <2> DEFINE g == [i \in 0 .. m |-> IF i = 0 THEN base ELSE Next1(h, i)]
  <2>3. \A i \in 0 .. m - 1 : g[i] = h[i]
    <3>1. ASSUME NEW i \in 0 .. m - 1
          PROVE  g[i] = h[i]
      <4>1. i \in 0 .. m
        BY <1>3
      <4>2. h[i] = IF i = 0 THEN base ELSE Next1(h, i)
        BY <2>2
      <4> QED BY <4>1, <4>2
    <3> QED BY <3>1
  <2>4. ASSUME NEW i \in 0 .. m, i # 0
        PROVE  Next1(h, i) = Next1(g, i)
    <3> HIDE DEF g
    <3>1. i - 1 \in 0 .. m - 1
      BY <1>3, <2>4
    <3> QED BY <1>5, <2>3, <3>1
  <2>5. g = [i \in 0 .. m |-> IF i = 0 THEN base ELSE Next1(g, i)]
    <3> HIDE DEF g
    <3>1. g = [i \in 0 .. m |-> IF i = 0 THEN base ELSE Next1(h, i)]
      BY DEF g
    <3> QED BY <2>4, <3>1
  <2> HIDE DEF g
  <2> QED BY <1>3, <1>4, <2>5
<1> QED BY <1>6, <1>7

LEMMA OpenedValues ==
  ASSUME NEW base, NEW s, Len(s) \in Nat
  PROVE  \E g : /\ OpenOn(base, s) = g[Len(s)]
                /\ g[0] = base
                /\ \A i \in 1 .. Len(s) :
                     g[i] = IF OpenFrame(s[i]) THEN Append(g[i - 1], FrameItem(s[i])) ELSE g[i - 1]
<1> DEFINE g == CHOOSE g : IsOpened(g, base, s, Len(s))
<1>1. IsOpened(g, base, s, Len(s))
  BY OpenedExists
<1>2. OpenOn(base, s) = g[Len(s)]
  BY DEF OpenOn, IsOpened
<1> HIDE DEF g
<1>3. \A i \in 0 .. Len(s) :
        g[i] = IF i = 0 THEN base
               ELSE IF OpenFrame(s[i]) THEN Append(g[i - 1], FrameItem(s[i])) ELSE g[i - 1]
  BY <1>1 DEF IsOpened
<1>4. 0 \in 0 .. Len(s) /\ \A i \in 1 .. Len(s) : i \in 0 .. Len(s) /\ i # 0
  OBVIOUS
<1> QED BY <1>2, <1>3, <1>4

(* What is open grows with the stack.                                      *)
LEMMA OpenOnNone == \A base : OpenOn(base, << >>) = base
<1>1. Len(<< >>) = 0 /\ Len(<< >>) \in Nat
  OBVIOUS
<1> QED BY <1>1, OpenedValues

LEMMA OpenOnAppend ==
  ASSUME NEW base, NEW S, NEW s \in Seq(S), NEW f \in S
  PROVE  OpenOn(base, Append(s, f)) =
           IF OpenFrame(f) THEN Append(OpenOn(base, s), FrameItem(f)) ELSE OpenOn(base, s)
<1> DEFINE t == Append(s, f)
<1>1. /\ Len(s) \in Nat /\ Len(t) = Len(s) + 1 /\ t[Len(s) + 1] = f
      /\ \A i \in 1 .. Len(s) : t[i] = s[i]
  BY Appended, LenProperties
<1> HIDE DEF t
<1>2. PICK g : /\ OpenOn(base, s) = g[Len(s)]
               /\ g[0] = base
               /\ \A i \in 1 .. Len(s) :
                    g[i] = IF OpenFrame(s[i]) THEN Append(g[i - 1], FrameItem(s[i])) ELSE g[i - 1]
  BY <1>1, OpenedValues
<1>3. PICK h : /\ OpenOn(base, t) = h[Len(t)]
               /\ h[0] = base
               /\ \A i \in 1 .. Len(t) :
                    h[i] = IF OpenFrame(t[i]) THEN Append(h[i - 1], FrameItem(t[i])) ELSE h[i - 1]
  BY <1>1, OpenedValues
<1> DEFINE T == {m \in 0 .. Len(s) : g[m] # h[m]}
<1>4. T = {}
  <2>1. SUFFICES ASSUME T # {} PROVE FALSE
    OBVIOUS
  <2>2. PICK m \in T : \A k \in T : m <= k
    <3>1. T \subseteq Nat
      BY <1>1
    <3> QED BY <2>1, <3>1, LeastNumber
  <2>3. m \in 0 .. Len(s) /\ g[m] # h[m]
    OBVIOUS
  <2>4. m # 0
    BY <1>2, <1>3, <2>3
  <2>5. m \in 1 .. Len(s) /\ m \in 1 .. Len(t) /\ m - 1 \in 0 .. Len(s) /\ m - 1 \notin T
    BY <1>1, <2>2, <2>3, <2>4
  <2>6. g[m - 1] = h[m - 1]
    BY <2>5
  <2>7. t[m] = s[m]
    BY <1>1, <2>5
  <2>8. g[m] = h[m]
    BY <1>2, <1>3, <2>5, <2>6, <2>7
  <2> QED BY <2>3, <2>8
<1>5. g[Len(s)] = h[Len(s)]
  BY <1>1, <1>4
<1>6. Len(s) + 1 \in 1 .. Len(t) /\ (Len(s) + 1) - 1 = Len(s)
  BY <1>1
<1>7. h[Len(t)] = IF OpenFrame(f) THEN Append(h[Len(s)], FrameItem(f)) ELSE h[Len(s)]
  BY <1>1, <1>3, <1>6
<1>8. OpenOn(base, t) = IF OpenFrame(f) THEN Append(OpenOn(base, s), FrameItem(f)) ELSE OpenOn(base, s)
  BY <1>2, <1>3, <1>5, <1>7
<1> QED BY <1>8 DEF t

(* Every open item is one of the base or that of a frame.                  *)
LEMMA OpenOnType ==
  ASSUME NEW S, NEW base \in Seq(S), NEW s, Len(s) \in Nat,
         \A i \in 1 .. Len(s) : OpenFrame(s[i]) => FrameItem(s[i]) \in S
  PROVE  OpenOn(base, s) \in Seq(S)
<1>1. PICK g : /\ OpenOn(base, s) = g[Len(s)]
               /\ g[0] = base
               /\ \A i \in 1 .. Len(s) :
                    g[i] = IF OpenFrame(s[i]) THEN Append(g[i - 1], FrameItem(s[i])) ELSE g[i - 1]
  BY OpenedValues
<1> DEFINE T == {m \in 0 .. Len(s) : g[m] \notin Seq(S)}
<1>2. T = {}
  <2>1. SUFFICES ASSUME T # {} PROVE FALSE
    OBVIOUS
  <2>2. PICK m \in T : \A k \in T : m <= k
    <3>1. T \subseteq Nat
      OBVIOUS
    <3> QED BY <2>1, <3>1, LeastNumber
  <2>3. m \in 0 .. Len(s) /\ g[m] \notin Seq(S)
    OBVIOUS
  <2>4. m # 0
    BY <1>1, <2>3
  <2>5. m \in 1 .. Len(s) /\ m - 1 \in 0 .. Len(s) /\ m - 1 \notin T
    BY <2>2, <2>3, <2>4
  <2>6. g[m - 1] \in Seq(S)
    BY <2>5
  <2>7. OpenFrame(s[m]) => Append(g[m - 1], FrameItem(s[m])) \in Seq(S)
    BY <2>5, <2>6, Appended
  <2> QED BY <1>1, <2>3, <2>5, <2>6, <2>7
<1> QED BY <1>1, <1>2

-----------------------------------------------------------------------------
(* The line under way.                                                     *)
LEMMA DeliveredNone == \A open : Delivered(open, << >>) = open
<1> TAKE open
<1> DEFINE Value(h, i) == Deliver(h[i - 1], << >>[i])
<1>1. Delivered(open, << >>)
        = (CHOOSE h : h = [i \in 0 .. Len(<< >>) |-> IF i = 0 THEN open ELSE Value(h, i)])[Len(<< >>)]
  BY DEF Delivered
<1> HIDE DEF Value
<1>2. Len(<< >>) = 0
  OBVIOUS
<1> DEFINE g == [i \in 0 .. 0 |-> open]
<1>3. g = [i \in 0 .. 0 |-> IF i = 0 THEN open ELSE Value(g, i)]
  OBVIOUS
<1> HIDE DEF g
<1> DEFINE c == CHOOSE h : h = [i \in 0 .. 0 |-> IF i = 0 THEN open ELSE Value(h, i)]
<1>4. c = [i \in 0 .. 0 |-> IF i = 0 THEN open ELSE Value(c, i)]
  BY <1>3
<1>5. Delivered(open, << >>) = c[0]
  BY <1>1, <1>2
<1> HIDE DEF c
<1>6. 0 \in 0 .. 0
  OBVIOUS
<1>7. c[0] = open
  BY <1>4, <1>6
<1> QED BY <1>5, <1>7

LEMMA DeliveredOne == \A open, m : Delivered(open, <<m>>) = Deliver(open, m)
<1> TAKE open, m
<1> DEFINE Value(h, i) == Deliver(h[i - 1], <<m>>[i])
<1>1. Delivered(open, <<m>>)
        = (CHOOSE h : h = [i \in 0 .. Len(<<m>>) |-> IF i = 0 THEN open ELSE Value(h, i)])[Len(<<m>>)]
  BY DEF Delivered
<1>2. \A h : h[0] = open => Value(h, 1) = Deliver(open, m)
  OBVIOUS
<1> HIDE DEF Value
<1>3. Len(<<m>>) = 1
  OBVIOUS
<1> DEFINE g == [i \in 0 .. 1 |-> IF i = 0 THEN open ELSE Deliver(open, m)]
<1>4. g = [i \in 0 .. 1 |-> IF i = 0 THEN open ELSE Value(g, i)]
  <2>1. \A i \in 0 .. 1 : i = 0 \/ i = 1
    OBVIOUS
  <2>2. g[0] = open
    OBVIOUS
  <2>3. Value(g, 1) = Deliver(open, m)
    BY <1>2, <2>2
  <2> QED BY <2>1, <2>3
<1> HIDE DEF g
<1> DEFINE c == CHOOSE h : h = [i \in 0 .. 1 |-> IF i = 0 THEN open ELSE Value(h, i)]
<1>5. c = [i \in 0 .. 1 |-> IF i = 0 THEN open ELSE Value(c, i)]
  BY <1>4
<1>6. Delivered(open, <<m>>) = c[1]
  BY <1>1, <1>3
<1> HIDE DEF c
<1>7. c[0] = open /\ c[1] = Value(c, 1)
  BY <1>5, 0 \in 0 .. 1, 1 \in 0 .. 1
<1> QED BY <1>2, <1>6, <1>7

-----------------------------------------------------------------------------
(* Chains of frames: what may lie at the bottom, and what upon what.       *)
Linked(s, bottoms, links) ==
  /\ s # << >> => s[1] \in bottoms
  /\ \A i \in 1 .. Len(s) - 1 : <<s[i], s[i + 1]>> \in links

LEMMA LinkedNone == \A bottoms, links : Linked(<< >>, bottoms, links)
BY Len(<< >>) = 0 DEF Linked

LEMMA LinkedAppend ==
  ASSUME NEW S, NEW s \in Seq(S), NEW f \in S, NEW bottoms, NEW links,
         Linked(s, bottoms, links),
         s = << >> => f \in bottoms,
         s # << >> => <<Last(s), f>> \in links
  PROVE  Linked(Append(s, f), bottoms, links)
<1> DEFINE t == Append(s, f)
<1>1. /\ Len(t) = Len(s) + 1 /\ t[Len(s) + 1] = f /\ Len(s) \in Nat
      /\ \A i \in 1 .. Len(s) : t[i] = s[i]
      /\ s = << >> <=> Len(s) = 0
  BY Appended, LenProperties, EmptySeq
<1> HIDE DEF t
<1>2. t[1] \in bottoms
  <2>1. CASE s = << >>
    BY <1>1, <2>1
  <2>2. CASE s # << >>
    BY <1>1, <2>2 DEF Linked
  <2> QED BY <2>1, <2>2
<1>3. ASSUME NEW i \in 1 .. Len(t) - 1
      PROVE  <<t[i], t[i + 1]>> \in links
  <2>1. CASE i = Len(s)
    <3>1. t[i] = Last(s) /\ t[i + 1] = f /\ s # << >>
      BY <1>1, <1>3, <2>1 DEF Last
    <3> QED BY <3>1
  <2>2. CASE i # Len(s)
    <3>1. i \in 1 .. Len(s) - 1 /\ t[i] = s[i] /\ t[i + 1] = s[i + 1]
      BY <1>1, <1>3, <2>2
    <3> QED BY <3>1 DEF Linked
  <2> QED BY <2>1, <2>2
<1>4. Linked(t, bottoms, links)
  BY <1>2, <1>3 DEF Linked
<1> QED BY <1>4 DEF t

LEMMA LinkedFront ==
  ASSUME NEW S, NEW s \in Seq(S), s # << >>, NEW bottoms, NEW links,
         Linked(s, bottoms, links)
  PROVE  /\ Linked(Front(s), bottoms, links)
         /\ Front(s) = << >> => Last(s) \in bottoms
         /\ Front(s) # << >> => <<Last(Front(s)), Last(s)>> \in links
<1> DEFINE t == Front(s)
<1>1. /\ t \in Seq(S) /\ Len(t) = Len(s) - 1 /\ Len(s) \in Nat \ {0}
      /\ \A i \in 1 .. Len(s) - 1 : t[i] = s[i]
  BY FrontLast, EmptySeq, LenProperties
<1>2. t = << >> <=> Len(t) = 0
  BY <1>1, EmptySeq
<1> HIDE DEF t
<1>3. Linked(t, bottoms, links)
  <2>1. t # << >> => t[1] \in bottoms
    BY <1>1, <1>2 DEF Linked
  <2>2. ASSUME NEW i \in 1 .. Len(t) - 1
        PROVE  <<t[i], t[i + 1]>> \in links
    <3>1. i \in 1 .. Len(s) - 1 /\ t[i] = s[i] /\ t[i + 1] = s[i + 1]
      BY <1>1, <2>2
    <3> QED BY <3>1 DEF Linked
  <2> QED BY <2>1, <2>2 DEF Linked
<1>4. t = << >> => Last(s) \in bottoms
  <2>1. ASSUME t = << >> PROVE Last(s) = s[1]
    <3>1. Len(s) = 1
      BY <1>1, <1>2, <2>1
    <3> QED BY <3>1 DEF Last
  <2>2. s[1] \in bottoms
    BY DEF Linked
  <2> QED BY <2>1, <2>2
<1>5. ASSUME t # << >>
      PROVE  <<Last(t), Last(s)>> \in links
  <2>1. Len(t) \in 1 .. Len(s) - 1 /\ t[Len(t)] = s[Len(t)] /\ Len(t) + 1 = Len(s)
    BY <1>1, <1>2, <1>5
  <2> QED BY <2>1 DEF Linked, Last
<1> QED BY <1>3, <1>4, <1>5 DEF t

(* What the top of a stack adds to the open items.                         *)
LEMMA OpenOnTop ==
  ASSUME NEW base, NEW S, NEW s \in Seq(S), s # << >>
  PROVE  OpenOn(base, s) = IF OpenFrame(Last(s))
                           THEN Append(OpenOn(base, Front(s)), FrameItem(Last(s)))
                           ELSE OpenOn(base, Front(s))
<1>1. Front(s) \in Seq(S) /\ Last(s) \in S /\ s = Append(Front(s), Last(s))
  BY FrontLast, FrontAndLast
<1>2. OpenOn(base, Append(Front(s), Last(s)))
        = IF OpenFrame(Last(s)) THEN Append(OpenOn(base, Front(s)), FrameItem(Last(s)))
          ELSE OpenOn(base, Front(s))
  BY <1>1, OpenOnAppend
<1> QED BY <1>1, <1>2

-----------------------------------------------------------------------------
(* What the event loop has still to answer.                                *)
DeferredOf(queue, ends) ==
  {e.rid : e \in ends} \cup {i.rid : i \in {x \in ToSet(queue) : x.k = "respond"}}
BaseOf(rids) == SetToSeq({Item("request", r) : r \in rids})

LEMMA HostOpenIs == HostOpen = OpenOn(BaseOf(Deferred), hstack)
BY DEF HostOpen, BaseOf

LEMMA HostOpenBecomes == HostOpen' = OpenOn(BaseOf(Deferred'), hstack')
BY DEF HostOpen, BaseOf

LEMMA BaseNone == BaseOf({}) = << >>
<1>1. {Item("request", r) : r \in {}} = {}
  OBVIOUS
<1>2. BaseOf({}) = CHOOSE f \in [1 .. 0 -> {}] : IsInjective(f)
  BY <1>1, FS_EmptySet DEF BaseOf, SetToSeq
<1>3. << >> \in [1 .. 0 -> {}] /\ IsInjective(<< >>) /\ \A f \in [1 .. 0 -> {}] : f = << >>
  BY DEF IsInjective
<1> QED BY <1>2, <1>3

LEMMA BaseOne == \A rid : BaseOf({rid}) = <<Item("request", rid)>>
<1> TAKE rid
<1> DEFINE x == Item("request", rid)
<1>1. {Item("request", r) : r \in {rid}} = {x}
  OBVIOUS
<1> HIDE DEF x
<1>2. BaseOf({rid}) = CHOOSE f \in [1 .. 1 -> {x}] : IsInjective(f)
  BY <1>1, FS_Singleton DEF BaseOf, SetToSeq
<1>3. <<x>> \in [1 .. 1 -> {x}] /\ IsInjective(<<x>>) /\ \A f \in [1 .. 1 -> {x}] : f = <<x>>
  BY DEF IsInjective
<1>4. BaseOf({rid}) = <<x>>
  BY <1>2, <1>3
<1> QED BY <1>4 DEF x

LEMMA DeferredNone ==
  /\ DeferredOf(<< >>, {}) = {}
  /\ DeferredOf(<<RunNext>>, {}) = {}
BY DEF DeferredOf, RunNext, ToSet

LEMMA DeferredOne ==
  /\ \A e : DeferredOf(<< >>, {e}) = {e.rid}
  /\ \A i : i.k = "respond" => DeferredOf(<<i>>, {}) = {i.rid}
BY DEF DeferredOf, ToSet

-----------------------------------------------------------------------------
(* The continuations of async methods call no sync overrides, or no timer  *)
(* and no nested async call resumes one while the runtime owes no answer.  *)
Prompt  == "timer" \notin Sandbox /\ "nestedAsync" \notin Native
Orderly == "taskSync" \in Sandbox => Prompt

(* The runtime's stack: a callbackHandler waits above the sandbox code     *)
(* that called an override, a request it read meanwhile above the handler. *)
HostBottoms == {f \in Frames : f.k # "cb"}
HostLinks == {p \in Frames \X Frames :
  \/ p[2].k = "cb" /\ p[1].k \in {"sync", "create", "begin"}
  \/ p[2].k = "cb" /\ p[1].k = "task" /\ "taskSync" \in Sandbox
  \/ p[2].k \in {"sync", "create", "begin"} /\ p[1].k = "cb"}

(* The ids of the callbacks that run were handed out.                      *)
RunningIdsInv == \A i \in DOMAIN hstack : hstack[i].k = "cb" => hstack[i].id < nextid

(* A continuation runs only before the answer to the request that resumed  *)
(* it, while the client waits, if nothing else resumes one.                *)
Promised == imm # << >> /\ Head(imm).k = "respond"
TaskInv == Prompt =>
  /\ \A p \in Ids : promises[p] # "timer" /\ (promises[p] = "ready" => Promised)
  /\ hstack # << >> /\ hstack[1].k = "task" => Promised
  /\ \A i \in DOMAIN hstack : i > 1 => hstack[i].k # "begin"

HostInv ==
  /\ ProcessTypeOK
  /\ OneDriver
  /\ Linked(hstack, HostBottoms, HostLinks)
  /\ RunningIdsInv
  /\ TaskInv

HostBusy ==
  \/ Deferred # {} /\ (hstack # << >> => Last(hstack).k = "task")
  \/ hstack # << >> /\ Last(hstack).k \in {"sync", "create", "begin"}

(* The program's stack.                                                    *)
Plain(f) == f.k = "call" /\ f.op \in {"sync", "create", "load"}
Step(f)  == f.k = "call" /\ f.op \in {"begin", "callbacks", "complete", "end"}
ClientBottoms == {f \in ClientFrames : f.k = "async" \/ Plain(f)}
ClientLinks == {p \in ClientFrames \X ClientFrames :
  \/ p[1].k = "handler" /\ (p[2].k = "async" \/ Plain(p[2]))
  \/ p[1].k = "async" /\ Step(p[2]) /\ (p[2].op # "complete" => p[1].todo = {})
  \/ p[1].k = "async" /\ p[2].k = "handler" /\ p[2].op = "callbacks"
  \/ p[1].k = "call" /\ p[2].k = "handler" /\ p[2].op = "sync"}

(* No override that requestResponse read has an async call under way, if   *)
(* the program makes none.                                                 *)
NoAsyncInSync == "nestedAsync" \notin Native =>
  \A i, j \in DOMAIN cstack :
    i < j /\ cstack[i].k = "handler" /\ cstack[i].op = "sync" => cstack[j].k # "async"

ClientInv ==
  /\ ClientTypeOK
  /\ Linked(cstack, ClientBottoms, ClientLinks)
  /\ native = "up" /\ cstack # << >> => Top.k # "async"
  /\ NoAsyncInSync

(* The line under way to the runtime, and the one under way to the program *)
RequestFits(m) ==
  \/ /\ m.m = "api" /\ m.rid = Top.rid /\ m.op = Top.op /\ m.id = Top.id /\ m.err = Top.err
     /\ ClientOpen = Append(HostOpen, Item("request", m.rid))
  \/ m.m = "complete" /\ HostOpen = Append(ClientOpen, Item("callback", m.id))
AnswerFits(m) ==
  \/ /\ m.m = "response" /\ m.rid = Top.rid
     /\ ClientOpen = Append(HostOpen, Item("request", m.rid))
  \/ m.m = "callback" /\ HostOpen = Append(ClientOpen, Item("callback", m.id))

Agree ==
  \/ toHost = << >> /\ toClient = << >> /\ HostOpen = ClientOpen /\ (Reading <=> HostBusy)
  \/ /\ \E m \in Request \cup Finish : toHost = <<m>> /\ RequestFits(m)
     /\ toClient = << >> /\ Reading /\ ~ HostBusy
  \/ /\ \E m \in Response \cup Callback : toClient = <<m>> /\ AnswerFits(m)
     /\ toHost = << >> /\ Reading /\ ~ HostBusy

Inv ==
  /\ HostInv
  /\ ClientInv
  /\ native = "up" => Agree /\ ~ eof
  /\ native = "closed" => toHost = << >>
  /\ native = "failed" => process # "up"

-----------------------------------------------------------------------------
(* The runtime's frames and what they add to the open items.               *)
LEMMA HostFrameItems ==
  ASSUME NEW f \in Frames
  PROVE  /\ OpenFrame(f) <=> f.k \in {"sync", "create", "begin", "cb"}
         /\ FrameItem(f) = IF f.k = "cb" THEN Item("callback", f.id) ELSE Item("request", f.rid)
<1>1. f.k \in {"read", "sync", "create", "begin", "task", "cb"}
  BY FrameFields
<1> QED BY <1>1 DEF OpenFrame, FrameItem

(* The top of the stack and what is open below it.                         *)
OpenBelow(s) == OpenOn(BaseOf(Deferred), s)

LEMMA HostTop ==
  ASSUME HostInv, hstack # << >>
  PROVE  /\ hstack \in Seq(Frames) /\ Front(hstack) \in Seq(Frames) /\ Last(hstack) \in Frames
         /\ Linked(Front(hstack), HostBottoms, HostLinks)
         /\ Front(hstack) = << >> => Last(hstack).k # "cb"
         /\ Front(hstack) # << >> => <<Last(Front(hstack)), Last(hstack)>> \in HostLinks
<1>1. hstack \in Seq(Frames) /\ Linked(hstack, HostBottoms, HostLinks)
  BY DEF HostInv, ProcessTypeOK, HostTypeOK
<1>2. Front(hstack) \in Seq(Frames) /\ Last(hstack) \in Frames
  BY <1>1, FrontLast
<1>3. /\ Linked(Front(hstack), HostBottoms, HostLinks)
      /\ Front(hstack) = << >> => Last(hstack) \in HostBottoms
      /\ Front(hstack) # << >> => <<Last(Front(hstack)), Last(hstack)>> \in HostLinks
  BY <1>1, LinkedFront
<1> QED BY <1>1, <1>2, <1>3 DEF HostBottoms

LEMMA HostOpenTop ==
  ASSUME HostInv, hstack # << >>
  PROVE  HostOpen = CASE Last(hstack).k = "cb" ->
                           Append(OpenBelow(Front(hstack)), Item("callback", Last(hstack).id))
                      [] Last(hstack).k \in {"sync", "create", "begin"} ->
                           Append(OpenBelow(Front(hstack)), Item("request", Last(hstack).rid))
                      [] OTHER -> OpenBelow(Front(hstack))
<1>1. hstack \in Seq(Frames) /\ Last(hstack) \in Frames
  BY HostTop
<1>2. HostOpen = IF OpenFrame(Last(hstack))
                 THEN Append(OpenBelow(Front(hstack)), FrameItem(Last(hstack)))
                 ELSE OpenBelow(Front(hstack))
  BY <1>1, OpenOnTop, HostOpenIs DEF OpenBelow
<1>3. /\ OpenFrame(Last(hstack)) <=> Last(hstack).k \in {"sync", "create", "begin", "cb"}
      /\ FrameItem(Last(hstack)) = IF Last(hstack).k = "cb" THEN Item("callback", Last(hstack).id)
                                   ELSE Item("request", Last(hstack).rid)
  BY <1>1, HostFrameItems
<1> QED BY <1>2, <1>3

(* A frame that reads or continues is alone.                               *)
LEMMA HostAlone ==
  ASSUME HostInv, hstack # << >>, Last(hstack).k \in {"read", "task"}
  PROVE  Front(hstack) = << >> /\ hstack[1] = Last(hstack)
<1>1. Front(hstack) = << >>
  BY HostTop DEF HostLinks
<1> QED BY <1>1, BottomStays DEF HostInv

LEMMA DeferredIs == Deferred = DeferredOf(imm, pendingEnd)
BY DEF Deferred, DeferredOf

LEMMA DeferredBecomes == Deferred' = DeferredOf(imm', pendingEnd')
BY DEF Deferred, DeferredOf

LEMMA NoDriverOwesNothing == NoDriver => Deferred = {}
BY DeferredIs, DeferredNone DEF NoDriver

(* The frames under an answer: none, or a handler on top.                  *)
UnderAnswer(below) ==
  Below(below) /\ (below # << >> => Last(below).k = "cb")

LEMMA AnswerOpens ==
  ASSUME HostInv, NEW below, UnderAnswer(below), NEW rid, NEW ok, NEW ids,
         AnswerAndNext(below, rid, ok, ids)
  PROVE  HostOpen' = OpenBelow(below) /\ ~ HostBusy'
<1>1. hstack' = below /\ pendingEnd' = pendingEnd
      /\ imm' = IF below = << >> THEN Append(imm, RunNext) ELSE imm
  BY DEF AnswerAndNext
<1>2. Deferred' = Deferred /\ (below = << >> => Deferred = {})
  <2>1. CASE below = << >>
    <3>1. imm = << >> /\ pendingEnd = {}
      BY <2>1 DEF UnderAnswer, Below, NoDriver
    <3>2. imm' = <<RunNext>>
      BY <1>1, <2>1, <3>1
    <3> QED BY <1>1, <3>1, <3>2, DeferredIs, DeferredBecomes, DeferredNone
  <2>2. CASE below # << >>
    BY <1>1, <2>2, DeferredIs, DeferredBecomes
  <2> QED BY <2>1, <2>2
<1>3. HostOpen' = OpenBelow(below)
  BY <1>1, <1>2, HostOpenBecomes DEF OpenBelow
<1>4. ~ HostBusy'
  <2>1. HostBusy' = \/ Deferred' # {} /\ (hstack' # << >> => Last(hstack').k = "task")
                    \/ hstack' # << >> /\ Last(hstack').k \in {"sync", "create", "begin"}
    BY DEF HostBusy
  <2> QED BY <1>1, <1>2, <2>1 DEF UnderAnswer
<1> QED BY <1>3, <1>4

LEMMA EnterOpens ==
  ASSUME HostInv, NEW below \in Seq(Frames), NEW f \in Frames,
         f.k \in {"sync", "create", "begin"},
         hstack' = Append(below, f), imm' = imm, pendingEnd' = pendingEnd
  PROVE  HostOpen' = Append(OpenBelow(below), Item("request", f.rid)) /\ HostBusy'
<1>1. Deferred' = Deferred
  BY DeferredIs, DeferredBecomes
<1>2. OpenFrame(f) /\ FrameItem(f) = Item("request", f.rid)
  BY HostFrameItems
<1>3. HostOpen' = Append(OpenBelow(below), Item("request", f.rid))
  BY <1>1, <1>2, HostOpenBecomes, OpenOnAppend DEF OpenBelow
<1>4. hstack' # << >> /\ Last(hstack') = f
  BY AppendedFront
<1>5. HostBusy'
  BY <1>4 DEF HostBusy
<1> QED BY <1>3, <1>5

LEMMA OweOpens ==
  ASSUME HostInv, NoDriver, NEW rid, hstack' = << >>,
         \/ pendingEnd' = pendingEnd
            /\ \E ids : imm' = Append(imm, [k |-> "respond", rid |-> rid, ids |-> ids])
         \/ imm' = imm /\ \E id : pendingEnd' = pendingEnd \cup {[rid |-> rid, id |-> id]}
  PROVE  HostOpen' = Append(OpenBelow(<< >>), Item("request", rid)) /\ HostBusy'
<1>1. Deferred' = {rid}
  <2>1. ASSUME NEW ids, pendingEnd' = pendingEnd,
               imm' = Append(imm, [k |-> "respond", rid |-> rid, ids |-> ids])
        PROVE  Deferred' = {rid}
    <3>1. imm' = <<[k |-> "respond", rid |-> rid, ids |-> ids]>> /\ pendingEnd' = {}
      BY <2>1 DEF NoDriver
    <3> QED BY <3>1, DeferredBecomes, DeferredOne
  <2>2. ASSUME NEW id, imm' = imm, pendingEnd' = pendingEnd \cup {[rid |-> rid, id |-> id]}
        PROVE  Deferred' = {rid}
    <3>1. imm' = << >> /\ pendingEnd' = {[rid |-> rid, id |-> id]}
      BY <2>2 DEF NoDriver
    <3> QED BY <3>1, DeferredBecomes, DeferredOne
  <2> QED BY <2>1, <2>2
<1>2. HostOpen' = <<Item("request", rid)>>
  BY <1>1, HostOpenBecomes, BaseOne, OpenOnNone
<1>3. OpenBelow(<< >>) = << >>
  BY NoDriverOwesNothing, BaseNone, OpenOnNone DEF OpenBelow
<1>4. HostBusy'
  BY <1>1 DEF HostBusy
<1> QED BY <1>2, <1>3, <1>4

-----------------------------------------------------------------------------
(***************************************************************************)
(* All that a step of the runtime does to the open items, to its turn and  *)
(* to the lines under way.                                                 *)
(***************************************************************************)
ReadsApi == toHost # << >> /\ Head(toHost).m = "api" /\ toHost' = Tail(toHost)

(* It goes on by itself. *)
GoesOn ==
  /\ UNCHANGED <<toHost, toClient>>
  /\ HostOpen' = HostOpen /\ (HostBusy' <=> HostBusy)
(* It accepts a request, or answers it at once. *)
Accepts ==
  /\ ReadsApi /\ ~ HostBusy /\ HostBusy'
  /\ UNCHANGED toClient
  /\ HostOpen' = Append(HostOpen, Item("request", Head(toHost).rid))
AnswersAtOnce ==
  /\ ReadsApi /\ ~ HostBusy /\ ~ HostBusy'
  /\ \E ok \in BOOLEAN, ids \in SUBSET Ids : Reply(Head(toHost).rid, ok, ids)
  /\ HostOpen' = HostOpen
(* It answers the youngest open request. *)
Answers ==
  /\ HostBusy /\ ~ HostBusy'
  /\ UNCHANGED toHost
  /\ \E rid \in Rids, ok \in BOOLEAN, ids \in SUBSET Ids :
       /\ Reply(rid, ok, ids)
       /\ HostOpen = Append(HostOpen', Item("request", rid))
(* It calls an override. *)
CallsBack ==
  /\ HostBusy /\ ~ HostBusy'
  /\ UNCHANGED toHost
  /\ nextid \in Ids /\ Write([m |-> "callback", id |-> nextid])
  /\ HostOpen # << >> /\ HostOpen' = Append(HostOpen, Item("callback", nextid))
(* The youngest callback is completed, or given up. *)
IsCompleted ==
  /\ ~ HostBusy /\ HostBusy'
  /\ toHost # << >> /\ Head(toHost).m = "complete" /\ toHost' = Tail(toHost)
  /\ UNCHANGED toClient
  /\ \E id \in Ids : HostOpen = Append(HostOpen', Item("callback", id))
IsInterrupted ==
  /\ ~ HostBusy /\ HostBusy'
  /\ toHost = << >> /\ eof /\ UNCHANGED <<toHost, toClient>>
  /\ \E id \in Ids : HostOpen = Append(HostOpen', Item("callback", id))

HostEvent ==
  GoesOn \/ Accepts \/ AnswersAtOnce \/ Answers \/ CallsBack \/ IsCompleted \/ IsInterrupted

LEMMA ProcessRequestOpens ==
  ASSUME HostInv, NEW below, UnderAnswer(below),
         NEW req \in Request \cup Finish, req.m = "api", ProcessRequest(below, req)
  PROVE  \/ /\ HostOpen' = OpenBelow(below) /\ ~ HostBusy'
            /\ \E ok \in BOOLEAN, ids \in SUBSET Ids : Reply(req.rid, ok, ids)
         \/ /\ HostOpen' = Append(OpenBelow(below), Item("request", req.rid)) /\ HostBusy'
            /\ UNCHANGED toClient
<1> DEFINE Goal == \/ /\ HostOpen' = OpenBelow(below) /\ ~ HostBusy'
                      /\ \E ok \in BOOLEAN, ids \in SUBSET Ids : Reply(req.rid, ok, ids)
                   \/ /\ HostOpen' = Append(OpenBelow(below), Item("request", req.rid)) /\ HostBusy'
                      /\ UNCHANGED toClient
<1>0. req.rid \in Rids /\ req.op \in Api /\ below \in Seq(Frames)
  BY LineFields DEF UnderAnswer, Below
<1>1. ASSUME NEW ok \in BOOLEAN, NEW ids \in SUBSET Ids, AnswerAndNext(below, req.rid, ok, ids)
      PROVE  Goal
  <2>1. Reply(req.rid, ok, ids)
    BY <1>1 DEF AnswerAndNext
  <2>2. HostOpen' = OpenBelow(below) /\ ~ HostBusy'
    BY <1>1, AnswerOpens
  <2> QED BY <2>1, <2>2
<1>2. CASE Refuse(below, req) \/ CompleteFails(below, req)
  BY <1>1, <1>2, {} \in SUBSET Ids, FALSE \in BOOLEAN DEF Refuse, CompleteFails
<1>3. CASE Callbacks(below, req)
  <2>1. {c.id : c \in cbs} \in SUBSET Ids
    BY DEF HostInv, ProcessTypeOK, HostTypeOK, PendingCallbacks
  <2> QED BY <1>1, <1>3, <2>1, TRUE \in BOOLEAN DEF Callbacks
<1>4. CASE EnterSync(below, req)
  <2>1. req.op \in {"sync", "create"}
    BY <1>4 DEF EnterSync, SyncApi
  <2>2. /\ Frame(req.op, req.rid, 0) \in Frames
        /\ Frame(req.op, req.rid, 0).k \in {"sync", "create", "begin"}
        /\ Frame(req.op, req.rid, 0).rid = req.rid
    BY <1>0, <2>1, FramesBuilt DEF Frame
  <2>3. /\ hstack' = Append(below, Frame(req.op, req.rid, 0)) /\ imm' = imm
        /\ pendingEnd' = pendingEnd /\ toClient' = toClient
    BY <1>4 DEF EnterSync
  <2> QED BY <1>0, <2>2, <2>3, EnterOpens
<1>5. CASE EnterBegin(below, req)
  <2>1. nextid \in Ids
    BY <1>5, NextIdIsId DEF EnterBegin, HostInv, ProcessTypeOK, HostTypeOK
  <2>2. /\ Frame("begin", req.rid, nextid) \in Frames
        /\ Frame("begin", req.rid, nextid).k \in {"sync", "create", "begin"}
        /\ Frame("begin", req.rid, nextid).rid = req.rid
    BY <1>0, <2>1, FramesBuilt DEF Frame
  <2>3. /\ hstack' = Append(below, Frame("begin", req.rid, nextid)) /\ imm' = imm
        /\ pendingEnd' = pendingEnd /\ toClient' = toClient
    BY <1>5 DEF EnterBegin
  <2> QED BY <1>0, <2>2, <2>3, EnterOpens
<1>6. CASE Complete(below, req)
  <2>1. RespondLater(below, req.rid, {})
    BY <1>6 DEF Complete
  <2>2. CASE below = << >>
    <3>1. /\ NoDriver /\ hstack' = << >> /\ pendingEnd' = pendingEnd /\ toClient' = toClient
          /\ imm' = Append(imm, [k |-> "respond", rid |-> req.rid, ids |-> {}])
      BY <2>1, <2>2 DEF RespondLater, UnderAnswer, Below
    <3> QED BY <2>2, <3>1, OweOpens
  <2>3. CASE below # << >>
    <3>1. AnswerAndNext(below, req.rid, FALSE, {})
      BY <2>1, <2>3 DEF RespondLater
    <3> QED BY <1>1, <3>1, {} \in SUBSET Ids, FALSE \in BOOLEAN
  <2> QED BY <2>2, <2>3
<1>7. CASE EndOrLoad(below, req)
  <2>1. PICK id : RespondWhenSettled(below, req.rid, id)
    BY <1>7 DEF EndOrLoad
  <2>2. CASE below = << >>
    <3>1. /\ NoDriver /\ hstack' = << >> /\ imm' = imm /\ toClient' = toClient
          /\ pendingEnd' = pendingEnd \cup {[rid |-> req.rid, id |-> id]}
      BY <2>1, <2>2 DEF RespondWhenSettled, UnderAnswer, Below
    <3> QED BY <2>2, <3>1, OweOpens
  <2>3. CASE below # << >>
    <3>1. AnswerAndNext(below, req.rid, FALSE, {})
      BY <2>1, <2>3 DEF RespondWhenSettled
    <3> QED BY <1>1, <3>1, {} \in SUBSET Ids, FALSE \in BOOLEAN
  <2> QED BY <2>2, <2>3
<1> QED BY <1>2, <1>3, <1>4, <1>5, <1>6, <1>7 DEF ProcessRequest

(* The loop's queue has at most one entry.                                 *)
LEMMA QueueOfOne ==
  ASSUME HostInv, imm # << >>
  PROVE  /\ imm = <<Head(imm)>> /\ Head(imm) \in Immediates /\ Tail(imm) = << >>
         /\ pendingEnd = {}
<1>1. imm \in Seq(Immediates) /\ Len(imm) <= 1 /\ pendingEnd = {}
  BY DEF HostInv, ProcessTypeOK, HostTypeOK, OneDriver
<1>2. Head(imm) \in Immediates /\ Tail(imm) \in Seq(Immediates) /\ Len(Tail(imm)) = Len(imm) - 1
  BY <1>1, HeadTail
<1>3. Len(imm) \in Nat \ {0}
  BY <1>1, EmptySeq, LenProperties
<1>4. Len(imm) = 1 /\ Tail(imm) = << >>
  BY <1>1, <1>2, <1>3, EmptySeq
<1>5. imm = <<Head(imm)>>
  BY <1>1, <1>4
<1> QED BY <1>1, <1>2, <1>4, <1>5

LEMMA PromisedOwes ==
  ASSUME HostInv, Promised
  PROVE  /\ Deferred = {Head(imm).rid} /\ Head(imm).rid \in Rids /\ Head(imm).ids \in SUBSET Ids
         /\ OpenBelow(<< >>) = <<Item("request", Head(imm).rid)>>
<1>1. imm = <<Head(imm)>> /\ Head(imm) \in Immediates /\ pendingEnd = {}
      /\ Head(imm).k = "respond"
  BY QueueOfOne DEF Promised
<1>2. Deferred = {Head(imm).rid}
  BY <1>1, DeferredIs, DeferredOne
<1>3. Head(imm).rid \in Rids /\ Head(imm).ids \in SUBSET Ids
  BY <1>1 DEF Immediates
<1> QED BY <1>2, <1>3, BaseOne, OpenOnNone DEF OpenBelow

(* A continuation below a handler: it was allowed to call an override.     *)
LEMMA TaskUnderHandler ==
  ASSUME HostInv, Orderly, hstack # << >>, Last(hstack).k = "cb"
  PROVE  /\ Front(hstack) # << >> /\ Last(Front(hstack)).k \in {"sync", "create", "begin", "task"}
         /\ Last(Front(hstack)).k = "task" => Promised
<1>1. /\ hstack \in Seq(Frames) /\ Front(hstack) \in Seq(Frames) /\ Front(hstack) # << >>
      /\ Linked(Front(hstack), HostBottoms, HostLinks)
      /\ <<Last(Front(hstack)), Last(hstack)>> \in HostLinks
  BY HostTop
<1>2. \/ Last(Front(hstack)).k \in {"sync", "create", "begin"}
      \/ Last(Front(hstack)).k = "task" /\ "taskSync" \in Sandbox
  BY <1>1 DEF HostLinks
<1>3. ASSUME Last(Front(hstack)).k = "task", "taskSync" \in Sandbox
      PROVE  Promised
  <2> DEFINE s == Front(hstack)
  <2>1. Front(s) # << >> => <<Last(Front(s)), Last(s)>> \in HostLinks
    BY <1>1, LinkedFront
  <2>2. Front(s) = << >>
    BY <1>3, <2>1 DEF HostLinks
  <2>3. Len(s) = 1
    <3>1. Len(Front(s)) = Len(s) - 1 /\ Len(s) \in Nat
      BY <1>1, FrontLast, LenProperties
    <3>2. Len(Front(s)) = 0
      BY <2>2
    <3> QED BY <3>1, <3>2
  <2>4. s[1] = hstack[1]
    BY <1>1, BottomStays DEF HostInv
  <2>5. hstack[1].k = "task"
    BY <1>3, <2>3, <2>4 DEF Last
  <2> QED BY <1>3, <2>5 DEF HostInv, TaskInv, Orderly
<1> QED BY <1>1, <1>2, <1>3

LEMMA SameOpens ==
  ASSUME UNCHANGED <<toHost, toClient>>, hstack' = hstack, imm' = imm, pendingEnd' = pendingEnd
  PROVE  GoesOn
<1>1. Deferred' = Deferred
  BY DeferredIs, DeferredBecomes
<1> QED BY <1>1, HostOpenIs, HostOpenBecomes DEF GoesOn, HostBusy

LEMMA ReadOpens ==
  ASSUME HostInv, Run \/ ReadEnd
  PROVE  GoesOn
<1>1. CASE Run
  <2>1. /\ hstack = << >> /\ hstack' = <<ReadFrame>> /\ pendingEnd' = pendingEnd
        /\ imm # << >> /\ Head(imm).k = "run" /\ imm' = Tail(imm)
        /\ UNCHANGED <<toHost, toClient>>
    BY <1>1 DEF Run, Idle, wireVars
  <2>2. imm = <<Head(imm)>> /\ Tail(imm) = << >> /\ pendingEnd = {} /\ Head(imm) \in Immediates
    BY <2>1, QueueOfOne
  <2>3. Head(imm) = RunNext
    BY <2>1, <2>2 DEF Immediates, RunNext
  <2>4. Deferred = {} /\ Deferred' = {}
    BY <2>1, <2>2, <2>3, DeferredIs, DeferredBecomes, DeferredNone
  <2>5. OpenOn(<< >>, Append(<< >>, ReadFrame)) = OpenOn(<< >>, << >>)
    BY OpenOnAppend, FramesBuilt, HostFrameItems, EmptySeq DEF ReadFrame, Frame
  <2>6. HostOpen = << >> /\ HostOpen' = << >>
    BY <2>1, <2>4, <2>5, HostOpenIs, HostOpenBecomes, BaseNone, OpenOnNone
  <2>7. ~ HostBusy
    BY <2>1, <2>4 DEF HostBusy
  <2>8. ~ HostBusy'
    <3>1. Last(hstack').k = "read"
      BY <2>1 DEF Last, ReadFrame, Frame
    <3> QED BY <2>4, <3>1 DEF HostBusy
  <2> QED BY <2>1, <2>6, <2>7, <2>8 DEF GoesOn
<1>2. CASE ReadEnd
  <2>1. /\ hstack # << >> /\ Last(hstack).k = "read" /\ hstack' = Front(hstack)
        /\ imm' = imm /\ pendingEnd' = pendingEnd /\ UNCHANGED <<toHost, toClient>>
    BY <1>2 DEF ReadEnd, Running, wireVars
  <2>2. Front(hstack) = << >> /\ hstack[1].k = "read"
    BY <2>1, HostAlone
  <2>3. NoDriver
    BY <2>1, <2>2 DEF HostInv, OneDriver, NoDriver
  <2>4. Deferred = {} /\ Deferred' = {}
    BY <2>1, <2>3, NoDriverOwesNothing, DeferredIs, DeferredBecomes
  <2>5. HostOpen = << >> /\ HostOpen' = << >>
    BY <2>1, <2>2, <2>4, HostOpenTop, HostOpenBecomes, BaseNone, OpenOnNone DEF OpenBelow
  <2>6. ~ HostBusy /\ ~ HostBusy'
    BY <2>1, <2>2, <2>4 DEF HostBusy
  <2> QED BY <2>1, <2>5, <2>6 DEF GoesOn
<1> QED BY <1>1, <1>2

LEMMA RequestOpens ==
  ASSUME HostInv, ReadRequest \/ ReadNested
  PROVE  Accepts \/ AnswersAtOnce
<1>0. /\ ReadsApi /\ hstack # << >> /\ Last(hstack).k \in {"read", "cb"}
      /\ Head(toHost) \in Request \cup Finish /\ Head(toHost).m = "api"
  BY ReadType DEF ReadRequest, ReadNested, Running, ReadsApi, HostInv
<1>1. PICK below : /\ UnderAnswer(below) /\ OpenBelow(below) = HostOpen
                   /\ ProcessRequest(below, Head(toHost))
  <2>1. CASE ReadRequest
    <3>1. Last(hstack).k = "read" /\ ProcessRequest(Front(hstack), Head(toHost))
      BY <2>1 DEF ReadRequest, Running
    <3>2. UnderAnswer(Front(hstack)) /\ OpenBelow(Front(hstack)) = HostOpen
      BY <1>0, <3>1, BelowTop, HostAlone, HostOpenTop DEF UnderAnswer, HostInv
    <3> QED BY <3>1, <3>2
  <2>2. CASE ReadNested
    <3>1. Last(hstack).k = "cb" /\ ProcessRequest(hstack, Head(toHost))
      BY <2>2 DEF ReadNested, Running
    <3>2. UnderAnswer(hstack) /\ OpenBelow(hstack) = HostOpen
      BY <1>0, <3>1, BelowTop, HostOpenIs DEF UnderAnswer, HostInv, OpenBelow
    <3> QED BY <3>1, <3>2
  <2> QED BY <2>1, <2>2
<1>2. ~ HostBusy
  <2>1. CASE Last(hstack).k = "cb"
    BY <1>0, <2>1 DEF HostBusy
  <2>2. CASE Last(hstack).k = "read"
    BY <1>0, <2>2 DEF HostBusy
  <2> QED BY <1>0, <2>1, <2>2
<1> QED BY <1>0, <1>1, <1>2, ProcessRequestOpens DEF Accepts, AnswersAtOnce

(* A handler returns to the sandbox code that called it.                   *)
LEMMA HandlerReturns ==
  ASSUME HostInv, Orderly, hstack # << >>, Last(hstack).k = "cb",
         hstack' = Front(hstack), imm' = imm, pendingEnd' = pendingEnd
  PROVE  /\ ~ HostBusy /\ HostBusy'
         /\ Last(hstack).id \in Ids
         /\ HostOpen = Append(HostOpen', Item("callback", Last(hstack).id))
<1>1. Deferred' = Deferred
  BY DeferredIs, DeferredBecomes
<1>2. HostOpen' = OpenBelow(Front(hstack))
  BY <1>1, HostOpenBecomes DEF OpenBelow
<1>3. HostOpen = Append(OpenBelow(Front(hstack)), Item("callback", Last(hstack).id))
  BY HostOpenTop
<1>4. Last(hstack).id \in Ids
  BY HostTop, FrameFields
<1>5. ~ HostBusy
  BY DEF HostBusy
<1>6. HostBusy'
  <2>1. /\ Front(hstack) # << >> /\ Last(Front(hstack)).k \in {"sync", "create", "begin", "task"}
        /\ Last(Front(hstack)).k = "task" => Promised
    BY TaskUnderHandler
  <2>2. Promised => Deferred # {}
    BY PromisedOwes
  <2>3. HostBusy' = \/ Deferred' # {} /\ (hstack' # << >> => Last(hstack').k = "task")
                    \/ hstack' # << >> /\ Last(hstack').k \in {"sync", "create", "begin"}
    BY DEF HostBusy
  <2> QED BY <1>1, <2>1, <2>2, <2>3
<1> QED BY <1>2, <1>3, <1>4, <1>5, <1>6

LEMMA HandlerOpens ==
  ASSUME HostInv, Orderly, ReadCompletion \/ ReadInterrupted
  PROVE  IsCompleted \/ IsInterrupted
<1>1. /\ hstack # << >> /\ Last(hstack).k = "cb"
      /\ hstack' = Front(hstack) /\ imm' = imm /\ pendingEnd' = pendingEnd
  BY DEF ReadCompletion, ReadInterrupted, Running, wireVars
<1>2. /\ ~ HostBusy /\ HostBusy'
      /\ \E id \in Ids : HostOpen = Append(HostOpen', Item("callback", id))
  BY <1>1, HandlerReturns
<1>3. CASE ReadCompletion
  BY <1>2, <1>3 DEF ReadCompletion, IsCompleted
<1>4. CASE ReadInterrupted
  BY <1>2, <1>4 DEF ReadInterrupted, IsInterrupted, wireVars
<1> QED BY <1>3, <1>4

LEMMA OverrideOpens ==
  ASSUME HostInv, Orderly, CallSyncOverride
  PROVE  CallsBack
<1>1. /\ hstack # << >> /\ hstack \in Seq(Frames)
      /\ Last(hstack).k \in {"sync", "create", "begin", "task"}
      /\ Last(hstack).k = "task" => "taskSync" \in Sandbox
      /\ nextid <= MaxId
      /\ hstack' = Append(hstack, Frame("cb", 0, nextid))
      /\ Write([m |-> "callback", id |-> nextid])
      /\ imm' = imm /\ pendingEnd' = pendingEnd /\ toHost' = toHost
  BY HostTop DEF CallSyncOverride, Running
<1>2. nextid \in Ids
  BY <1>1, NextIdIsId DEF HostInv, ProcessTypeOK, HostTypeOK
<1>3. /\ Frame("cb", 0, nextid) \in Frames
      /\ Frame("cb", 0, nextid).k = "cb" /\ Frame("cb", 0, nextid).id = nextid
  BY <1>2, FramesBuilt DEF Frame
<1>4. Deferred' = Deferred
  BY <1>1, DeferredIs, DeferredBecomes
<1>5. HostOpen' = Append(HostOpen, Item("callback", nextid))
  <2>1. OpenFrame(Frame("cb", 0, nextid))
        /\ FrameItem(Frame("cb", 0, nextid)) = Item("callback", nextid)
    BY <1>3, HostFrameItems
  <2>2. OpenBelow(Append(hstack, Frame("cb", 0, nextid)))
          = Append(OpenBelow(hstack), Item("callback", nextid))
    BY <1>1, <1>3, <2>1, OpenOnAppend DEF OpenBelow
  <2> QED BY <1>1, <1>4, <2>2, HostOpenIs, HostOpenBecomes DEF OpenBelow
<1>6. ~ HostBusy'
  <2>1. hstack' # << >> /\ Last(hstack').k = "cb"
    BY <1>1, <1>3, AppendedFront
  <2> QED BY <2>1 DEF HostBusy
<1>7. HostBusy /\ HostOpen # << >>
  <2>1. CASE Last(hstack).k = "task"
    <3>1. Front(hstack) = << >> /\ hstack[1].k = "task"
      BY <1>1, <2>1, HostAlone
    <3>2. Promised
      BY <1>1, <2>1, <3>1 DEF HostInv, TaskInv, Orderly
    <3>3. Deferred # {} /\ OpenBelow(<< >>) # << >>
      BY <3>2, PromisedOwes
    <3> QED BY <1>1, <2>1, <3>1, <3>3, HostOpenTop DEF HostBusy
  <2>2. CASE Last(hstack).k # "task"
    <3>1. HostOpen = Append(OpenBelow(Front(hstack)), Item("request", Last(hstack).rid))
      BY <1>1, <2>2, HostOpenTop
    <3>2. HostBusy
      BY <1>1, <2>2 DEF HostBusy
    <3> QED BY <3>1, <3>2
  <2> QED BY <2>1, <2>2
<1> QED BY <1>1, <1>2, <1>5, <1>6, <1>7 DEF CallsBack

(* Sandbox code returns.                                                   *)
LEMMA ReturnOpens ==
  ASSUME HostInv, ReturnSync \/ ReturnBegin \/ ThrowBegin
  PROVE  Answers \/ GoesOn
<1>1. /\ hstack # << >> /\ Last(hstack).k \in {"sync", "create", "begin"}
      /\ Last(hstack).k # "begin" <=> ReturnSync
      /\ toHost' = toHost
  BY DEF ReturnSync, ReturnBegin, ThrowBegin, Running
<1>2. /\ Last(hstack) \in Frames /\ Front(hstack) \in Seq(Frames)
      /\ Front(hstack) # << >> => <<Last(Front(hstack)), Last(hstack)>> \in HostLinks
  BY <1>1, HostTop
<1>3. Last(hstack).rid \in Rids /\ (Last(hstack).k = "begin" => Last(hstack).id \in Ids)
  BY <1>1, <1>2, FrameFields
<1>4. UnderAnswer(Front(hstack))
  <2>1. Below(Front(hstack))
    BY <1>1, BelowTop DEF HostInv
  <2>2. Front(hstack) # << >> => Last(Front(hstack)).k = "cb"
    BY <1>1, <1>2 DEF HostLinks
  <2> QED BY <2>1, <2>2 DEF UnderAnswer
<1>5. /\ HostBusy
      /\ HostOpen = Append(OpenBelow(Front(hstack)), Item("request", Last(hstack).rid))
  BY <1>1, HostOpenTop DEF HostBusy
<1>6. ASSUME NEW ok \in BOOLEAN, AnswerAndNext(Front(hstack), Last(hstack).rid, ok, {})
      PROVE  Answers
  <2>1. HostOpen' = OpenBelow(Front(hstack)) /\ ~ HostBusy'
    BY <1>4, <1>6, AnswerOpens
  <2>2. Reply(Last(hstack).rid, ok, {})
    BY <1>6 DEF AnswerAndNext
  <2> QED BY <1>1, <1>3, <1>5, <2>1, <2>2, {} \in SUBSET Ids DEF Answers
<1>7. CASE ReturnSync
  BY <1>6, <1>7 DEF ReturnSync
<1>8. CASE ThrowBegin
  BY <1>6, <1>8, FALSE \in BOOLEAN DEF ThrowBegin
<1>9. CASE ReturnBegin
  <2>1. RespondLater(Front(hstack), Last(hstack).rid, {nextid})
    BY <1>9 DEF ReturnBegin
  <2>2. CASE Front(hstack) = << >>
    <3>1. /\ NoDriver /\ hstack' = << >> /\ pendingEnd' = pendingEnd /\ toClient' = toClient
          /\ imm' = Append(imm, [k |-> "respond", rid |-> Last(hstack).rid, ids |-> {nextid}])
      BY <1>4, <2>1, <2>2 DEF RespondLater, UnderAnswer, Below
    <3>2. HostOpen' = Append(OpenBelow(<< >>), Item("request", Last(hstack).rid)) /\ HostBusy'
      BY <3>1, OweOpens
    <3> QED BY <1>1, <1>5, <2>2, <3>1, <3>2 DEF GoesOn
  <2>3. CASE Front(hstack) # << >>
    <3>1. AnswerAndNext(Front(hstack), Last(hstack).rid, FALSE, {})
      BY <2>1, <2>3 DEF RespondLater
    <3> QED BY <1>6, <3>1, FALSE \in BOOLEAN
  <2> QED BY <2>2, <2>3
<1> QED BY <1>7, <1>8, <1>9

(* The event loop answers.                                                 *)
LEMMA LoopAnswers ==
  ASSUME HostInv, RespondImmediate \/ RespondSettled
  PROVE  Answers
<1>1. hstack = << >> /\ hstack' = << >> /\ toHost' = toHost
  BY DEF RespondImmediate, RespondSettled, Idle
<1>2. PICK rid \in Rids, ok \in BOOLEAN, ids \in SUBSET Ids :
        Reply(rid, ok, ids) /\ Deferred = {rid} /\ imm' = <<RunNext>> /\ pendingEnd' = {}
  <2>1. CASE RespondImmediate
    <3>1. Promised /\ Reply(Head(imm).rid, TRUE, Head(imm).ids)
          /\ imm' = Append(Tail(imm), RunNext) /\ pendingEnd' = pendingEnd
      BY <2>1 DEF RespondImmediate, Promised
    <3>2. Tail(imm) = << >> /\ pendingEnd = {}
      BY <3>1, QueueOfOne DEF Promised
    <3>3. imm' = <<RunNext>> /\ pendingEnd' = {}
      <4>1. imm' = Append(<< >>, RunNext)
        BY <3>1, <3>2
      <4>2. Append(<< >>, RunNext) = <<RunNext>>
        OBVIOUS
      <4> QED BY <3>1, <3>2, <4>1, <4>2
    <3>4. Deferred = {Head(imm).rid} /\ Head(imm).rid \in Rids /\ Head(imm).ids \in SUBSET Ids
      BY <3>1, PromisedOwes
    <3> QED BY <3>1, <3>3, <3>4, TRUE \in BOOLEAN
  <2>2. CASE RespondSettled
    <3>1. PICK e \in pendingEnd, ok \in BOOLEAN :
            Reply(e.rid, ok, {}) /\ pendingEnd' = pendingEnd \ {e}
      BY <2>2 DEF RespondSettled
    <3>2. pendingEnd = {e} /\ imm = << >>
      BY <3>1 DEF HostInv, OneDriver
    <3>3. imm' = <<RunNext>>
      BY <2>2, <3>2 DEF RespondSettled
    <3>4. Deferred = {e.rid}
      BY <3>2, DeferredIs, DeferredOne
    <3>5. e.rid \in Rids
      BY DEF HostInv, ProcessTypeOK, HostTypeOK
    <3> QED BY <3>1, <3>2, <3>3, <3>4, <3>5, {} \in SUBSET Ids
  <2> QED BY <2>1, <2>2
<1>3. Deferred' = {}
  BY <1>2, DeferredBecomes, DeferredNone
<1>4. HostOpen = <<Item("request", rid)>> /\ HostOpen' = << >>
  BY <1>1, <1>2, <1>3, HostOpenIs, HostOpenBecomes, BaseNone, BaseOne, OpenOnNone
<1>5. HostBusy /\ ~ HostBusy'
  BY <1>1, <1>2, <1>3 DEF HostBusy
<1>6. HostOpen = Append(HostOpen', Item("request", rid))
  BY <1>4
<1> QED BY <1>1, <1>2, <1>5, <1>6 DEF Answers

(* A continuation starts or stops.                                         *)
LEMMA TaskOpens ==
  ASSUME HostInv, ResumeTask \/ ReturnTask
  PROVE  GoesOn
<1>1. Deferred' = Deferred /\ UNCHANGED <<toHost, toClient>>
  BY DeferredIs, DeferredBecomes DEF ResumeTask, ReturnTask, wireVars
<1>2. CASE ResumeTask
  <2>1. PICK p \in Ids : hstack = << >> /\ hstack' = <<Frame("task", 0, p)>>
    BY <1>2 DEF ResumeTask, Idle
  <2>2. /\ Frame("task", 0, p) \in Frames /\ Frame("task", 0, p).k = "task"
    BY FramesBuilt DEF Frame
  <2>3. OpenBelow(Append(<< >>, Frame("task", 0, p))) = OpenBelow(<< >>)
    BY <2>2, HostFrameItems, OpenOnAppend, EmptySeq DEF OpenBelow
  <2>4. HostOpen' = HostOpen
    BY <1>1, <2>1, <2>3, HostOpenIs, HostOpenBecomes DEF OpenBelow
  <2>5. HostBusy' <=> HostBusy
    <3>1. hstack' # << >> /\ Last(hstack').k = "task"
      BY <2>1, <2>2 DEF Last
    <3> QED BY <1>1, <2>1, <3>1 DEF HostBusy
  <2> QED BY <1>1, <2>4, <2>5 DEF GoesOn
<1>3. CASE ReturnTask
  <2>1. hstack # << >> /\ Last(hstack).k = "task" /\ hstack' = Front(hstack)
    BY <1>3 DEF ReturnTask, Running
  <2>2. hstack' = << >>
    BY <2>1, HostAlone
  <2>3. HostOpen' = HostOpen
    BY <1>1, <2>1, HostOpenTop, HostOpenBecomes DEF OpenBelow
  <2>4. HostBusy' <=> HostBusy
    BY <1>1, <2>1, <2>2 DEF HostBusy
  <2> QED BY <1>1, <2>3, <2>4 DEF GoesOn
<1> QED BY <1>2, <1>3

LEMMA HostEvents ==
  ASSUME HostInv, Orderly, HostNext, ~ ReadMalformed
  PROVE  HostEvent
<1>1. CASE Run \/ ReadEnd
  BY <1>1, ReadOpens DEF HostEvent
<1>2. CASE ReadRequest \/ ReadNested
  BY <1>2, RequestOpens DEF HostEvent
<1>3. CASE ReadCompletion \/ ReadInterrupted
  BY <1>3, HandlerOpens DEF HostEvent
<1>4. CASE CallSyncOverride
  BY <1>4, OverrideOpens DEF HostEvent
<1>5. CASE ReturnSync \/ ReturnBegin \/ ThrowBegin
  BY <1>5, ReturnOpens DEF HostEvent
<1>6. CASE RespondImmediate \/ RespondSettled
  BY <1>6, LoopAnswers DEF HostEvent
<1>7. CASE ResumeTask \/ ReturnTask
  BY <1>7, TaskOpens DEF HostEvent
<1>8. CASE CallAsyncOverride \/ TimerFires \/ EventLoopEmpty
  BY <1>8, SameOpens
     DEF HostEvent, CallAsyncOverride, TimerFires, EventLoopEmpty, wireVars, loopVars
<1> QED BY <1>1, <1>2, <1>3, <1>4, <1>5, <1>6, <1>7, <1>8 DEF HostNext

-----------------------------------------------------------------------------
(***************************************************************************)
(* The runtime's invariant.                                                *)
(***************************************************************************)
IdsBelow(s, n)  == \A i \in DOMAIN s : s[i].k = "cb" => s[i].id < n
BeginFirst(s)   == \A i \in DOMAIN s : i > 1 => s[i].k # "begin"
Shape(s, n)     == Linked(s, HostBottoms, HostLinks) /\ IdsBelow(s, n)

LEMMA ShapeIs ==
  /\ HostInv => Shape(hstack, nextid)
  /\ Prompt /\ HostInv => BeginFirst(hstack)
BY DEF HostInv, Shape, IdsBelow, RunningIdsInv, TaskInv, BeginFirst

LEMMA FrontShape ==
  ASSUME NEW s \in Seq(Frames), s # << >>, NEW n
  PROVE  /\ Shape(s, n) => Shape(Front(s), n)
         /\ BeginFirst(s) => BeginFirst(Front(s))
         /\ BeginFirst(s) /\ Last(s).k = "begin" => Front(s) = << >>
<1>1. /\ Front(s) \in Seq(Frames) /\ Len(Front(s)) = Len(s) - 1 /\ Len(s) \in Nat \ {0}
      /\ \A i \in 1 .. Len(s) - 1 : Front(s)[i] = s[i]
      /\ DOMAIN s = 1 .. Len(s)
  BY FrontLast, EmptySeq, LenProperties
<1>2. DOMAIN Front(s) = 1 .. Len(s) - 1
  BY <1>1, LenProperties
<1>3. Linked(s, HostBottoms, HostLinks) => Linked(Front(s), HostBottoms, HostLinks)
  BY LinkedFront
<1>4. \A i \in DOMAIN Front(s) : i \in DOMAIN s /\ Front(s)[i] = s[i]
  BY <1>1, <1>2
<1>5. IdsBelow(s, n) => IdsBelow(Front(s), n)
  BY <1>4 DEF IdsBelow
<1>6. BeginFirst(s) => BeginFirst(Front(s))
  BY <1>4 DEF BeginFirst
<1>7. ASSUME BeginFirst(s), Last(s).k = "begin"
      PROVE  Front(s) = << >>
  <2>1. Len(s) \in DOMAIN s /\ s[Len(s)].k = "begin"
    BY <1>1, <1>7 DEF Last
  <2>2. Len(s) = 1
    BY <1>1, <1>7, <2>1 DEF BeginFirst
  <2> QED BY <1>1, <2>2, EmptySeq
<1> QED BY <1>3, <1>5, <1>6, <1>7 DEF Shape

LEMMA AppendShape ==
  ASSUME NEW s \in Seq(Frames), NEW f \in Frames, NEW n,
         s = << >> => f.k # "cb",
         s # << >> => <<Last(s), f>> \in HostLinks,
         f.k = "cb" => f.id < n
  PROVE  /\ Shape(s, n) => Shape(Append(s, f), n)
         /\ BeginFirst(s) /\ (s = << >> \/ f.k # "begin") => BeginFirst(Append(s, f))
<1> DEFINE t == Append(s, f)
<1>1. /\ Len(t) = Len(s) + 1 /\ DOMAIN t = 1 .. Len(s) + 1 /\ t[Len(s) + 1] = f
      /\ \A i \in 1 .. Len(s) : t[i] = s[i]
      /\ Len(s) \in Nat /\ DOMAIN s = 1 .. Len(s)
      /\ s = << >> <=> Len(s) = 0
  BY Appended, LenProperties, EmptySeq
<1>2. f \in HostBottoms \/ s # << >>
  BY DEF HostBottoms
<1>3. Linked(s, HostBottoms, HostLinks) => Linked(t, HostBottoms, HostLinks)
  BY <1>2, LinkedAppend
<1> HIDE DEF t
<1>4. \A i \in DOMAIN t : i = Len(s) + 1 \/ (i \in DOMAIN s /\ t[i] = s[i])
  BY <1>1
<1>5. IdsBelow(s, n) => IdsBelow(t, n)
  BY <1>1, <1>4 DEF IdsBelow
<1>6. BeginFirst(s) /\ (s = << >> \/ f.k # "begin") => BeginFirst(t)
  BY <1>1, <1>4 DEF BeginFirst
<1> QED BY <1>3, <1>5, <1>6 DEF Shape, t

LEMMA LaterShape ==
  ASSUME NEW s \in Seq(Frames), NEW n \in Nat, NEW m \in Nat, n <= m, Shape(s, n)
  PROVE  Shape(s, m)
<1>1. \A i \in DOMAIN s : s[i] \in Frames
  BY LenProperties
<1>2. \A i \in DOMAIN s : s[i].k = "cb" => s[i].id \in Nat
  BY <1>1, FrameFields DEF Ids
<1> QED BY <1>2 DEF Shape, IdsBelow

LEMMA ProcessRequestShape ==
  ASSUME HostInv, NEW below, UnderAnswer(below), Shape(below, nextid),
         NEW req \in Request \cup Finish, req.m = "api", ProcessRequest(below, req)
  PROVE  /\ Shape(hstack', nextid)
         /\ BeginFirst(below) /\ (below # << >> => req.op # "begin") => BeginFirst(hstack')
<1>0. req.rid \in Rids /\ below \in Seq(Frames)
  BY LineFields DEF UnderAnswer, Below
<1>1. ASSUME NEW f \in Frames, f.k \in {"sync", "create", "begin"}, hstack' = Append(below, f),
             below = << >> \/ f.k # "begin" \/ req.op = "begin"
      PROVE  /\ Shape(hstack', nextid)
             /\ BeginFirst(below) /\ (below # << >> => req.op # "begin") => BeginFirst(hstack')
  <2>1. below # << >> => <<Last(below), f>> \in HostLinks
    <3>1. ASSUME below # << >> PROVE Last(below) \in Frames /\ Last(below).k = "cb"
      BY <1>0, <3>1, FrontLast DEF UnderAnswer
    <3> QED BY <1>1, <3>1 DEF HostLinks
  <2> QED BY <1>0, <1>1, <2>1, AppendShape
<1>2. CASE EnterSync(below, req)
  <2>1. req.op \in {"sync", "create"} /\ hstack' = Append(below, Frame(req.op, req.rid, 0))
    BY <1>2 DEF EnterSync, SyncApi
  <2>2. Frame(req.op, req.rid, 0) \in Frames /\ Frame(req.op, req.rid, 0).k = req.op
    BY <1>0, <2>1, FramesBuilt DEF Frame
  <2> QED BY <1>1, <2>1, <2>2
<1>3. CASE EnterBegin(below, req)
  <2>1. nextid \in Ids /\ req.op = "begin" /\ hstack' = Append(below, Frame("begin", req.rid, nextid))
    BY <1>3, NextIdIsId DEF EnterBegin, HostInv, ProcessTypeOK, HostTypeOK
  <2>2. Frame("begin", req.rid, nextid) \in Frames /\ Frame("begin", req.rid, nextid).k = "begin"
    BY <1>0, <2>1, FramesBuilt DEF Frame
  <2> QED BY <1>1, <2>1, <2>2
<1>4. CASE Refuse(below, req) \/ CompleteFails(below, req) \/ Callbacks(below, req)
  <2>1. hstack' = below
    BY <1>4 DEF Refuse, CompleteFails, Callbacks, AnswerAndNext
  <2> QED BY <2>1
<1>5. CASE Complete(below, req) \/ EndOrLoad(below, req)
  <2>1. hstack' = below
    BY <1>5 DEF Complete, EndOrLoad, RespondLater, RespondWhenSettled, AnswerAndNext
  <2> QED BY <2>1
<1> QED BY <1>2, <1>3, <1>4, <1>5 DEF ProcessRequest

(* A handler reads no request of an async call.                            *)
Calm ==
  Running({"cb"}) /\ toHost # << >> /\ Head(toHost).m = "api"
    => Head(toHost).op \notin {"begin", "complete"}

LEMMA NextIdGrows ==
  ASSUME HostInv, HostNext
  PROVE  nextid \in Nat /\ nextid' \in Nat /\ nextid <= nextid'
<1>1. nextid \in Nat
  BY DEF HostInv, ProcessTypeOK, HostTypeOK
<1>2. nextid' \in {nextid, nextid + 1}
  BY NextOnCallbacks DEF HostInv, ProcessNext, QueueNext, FetchAll, DropOne, KeepAll
<1> QED BY <1>1, <1>2

LEMMA StackStep ==
  ASSUME HostInv, HostNext
  PROVE  /\ Shape(hstack', nextid')
         /\ Prompt /\ Calm => BeginFirst(hstack')
<1> DEFINE Goal == /\ Shape(hstack', nextid')
                   /\ Prompt /\ Calm => BeginFirst(hstack')
<1>0. /\ hstack \in Seq(Frames) /\ Shape(hstack, nextid)
      /\ Prompt => BeginFirst(hstack)
      /\ nextid \in Nat /\ nextid' \in Nat /\ nextid <= nextid'
  BY ShapeIs, NextIdGrows DEF HostInv, ProcessTypeOK, HostTypeOK
<1>1. ASSUME hstack' = hstack PROVE Goal
  BY <1>0, <1>1, LaterShape
<1>2. ASSUME hstack # << >>, hstack' = Front(hstack) PROVE Goal
  <2>1. Front(hstack) \in Seq(Frames) /\ Shape(Front(hstack), nextid)
        /\ (BeginFirst(hstack) => BeginFirst(Front(hstack)))
    BY <1>0, <1>2, FrontShape, FrontLast
  <2> QED BY <1>0, <1>2, <2>1, LaterShape
<1>3. ASSUME NEW f \in Frames, f.k \notin {"cb", "begin"}, hstack' = <<f>> PROVE Goal
  <2>1. Shape(<< >>, nextid) /\ BeginFirst(<< >>)
    BY LinkedNone DEF Shape, IdsBelow, BeginFirst
  <2>2. << >> \in Seq(Frames) /\ Append(<< >>, f) = <<f>> /\ <<f>> \in Seq(Frames)
    BY EmptySeq
  <2>3. Shape(<<f>>, nextid) /\ BeginFirst(<<f>>)
    BY <1>3, <2>1, <2>2, AppendShape
  <2> QED BY <1>0, <1>3, <2>2, <2>3, LaterShape
<1>4. CASE Run
  BY <1>3, <1>4, FramesBuilt DEF Run, ReadFrame, Frame
<1>5. CASE ReadRequest \/ ReadNested
  <2>1. /\ hstack # << >> /\ Last(hstack).k \in {"read", "cb"}
        /\ Head(toHost) \in Request \cup Finish /\ Head(toHost).m = "api"
    BY <1>5, ReadType DEF ReadRequest, ReadNested, Running, HostInv
  <2>2. CASE ReadRequest
    <3>1. Last(hstack).k = "read" /\ ProcessRequest(Front(hstack), Head(toHost))
      BY <2>2 DEF ReadRequest, Running
    <3>2. Front(hstack) = << >> /\ UnderAnswer(Front(hstack))
      BY <2>1, <3>1, BelowTop, HostAlone DEF UnderAnswer, HostInv
    <3>3. Shape(Front(hstack), nextid) /\ BeginFirst(Front(hstack))
      <4>1. Shape(<< >>, nextid) /\ BeginFirst(<< >>)
        BY LinkedNone DEF Shape, IdsBelow, BeginFirst
      <4> QED BY <3>2, <4>1
    <3>4. Shape(hstack', nextid) /\ BeginFirst(hstack')
      BY <2>1, <3>1, <3>2, <3>3, ProcessRequestShape
    <3> QED BY <1>0, <3>4, LaterShape, NextType
            DEF HostInv, ProcessNext, ProcessTypeOK, HostTypeOK
  <2>3. CASE ReadNested
    <3>1. Last(hstack).k = "cb" /\ Running({"cb"}) /\ ProcessRequest(hstack, Head(toHost))
          /\ toHost # << >>
      BY <2>3 DEF ReadNested, Running
    <3>2. UnderAnswer(hstack)
      BY <2>1, <3>1, BelowTop DEF UnderAnswer, HostInv
    <3>3. /\ Shape(hstack', nextid)
          /\ BeginFirst(hstack) /\ (hstack # << >> => Head(toHost).op # "begin") => BeginFirst(hstack')
      BY <1>0, <2>1, <3>1, <3>2, ProcessRequestShape
    <3>4. Prompt /\ Calm => BeginFirst(hstack')
      BY <1>0, <2>1, <3>1, <3>3 DEF Calm
    <3> QED BY <1>0, <3>3, <3>4, LaterShape, NextType
            DEF HostInv, ProcessNext, ProcessTypeOK, HostTypeOK
  <2> QED BY <1>5, <2>2, <2>3
<1>6. CASE ReadMalformed \/ CallAsyncOverride \/ TimerFires \/ EventLoopEmpty
           \/ RespondImmediate \/ RespondSettled
  BY <1>1, <1>6 DEF ReadMalformed, CallAsyncOverride, TimerFires, EventLoopEmpty,
                    RespondImmediate, RespondSettled, loopVars
<1>7. CASE ReadEnd \/ ReadCompletion \/ ReadInterrupted \/ ReturnTask
  BY <1>2, <1>7 DEF ReadEnd, ReadCompletion, ReadInterrupted, ReturnTask, Running
<1>8. CASE CallSyncOverride
  <2>1. /\ hstack # << >> /\ Last(hstack).k \in {"sync", "create", "begin", "task"}
        /\ Last(hstack).k = "task" => "taskSync" \in Sandbox
        /\ hstack' = Append(hstack, Frame("cb", 0, nextid)) /\ nextid' = nextid + 1
        /\ nextid <= MaxId
    BY <1>8 DEF CallSyncOverride, Running
  <2>2. nextid \in Ids
    BY <2>1, NextIdIsId DEF HostInv, ProcessTypeOK, HostTypeOK
  <2>3. /\ Frame("cb", 0, nextid) \in Frames
        /\ Frame("cb", 0, nextid).k = "cb" /\ Frame("cb", 0, nextid).id = nextid
    BY <2>2, FramesBuilt DEF Frame
  <2>4. <<Last(hstack), Frame("cb", 0, nextid)>> \in HostLinks
    BY <1>0, <2>1, <2>3, FrontLast DEF HostLinks
  <2>5. Shape(hstack, nextid') /\ nextid < nextid'
    BY <1>0, <2>1, LaterShape
  <2> QED BY <1>0, <2>1, <2>3, <2>4, <2>5, AppendShape
<1>9. CASE ReturnSync \/ ReturnBegin \/ ThrowBegin
  <2>1. hstack # << >> /\ hstack' = Front(hstack)
    BY <1>9 DEF ReturnSync, ReturnBegin, ThrowBegin, Running, RespondLater, AnswerAndNext
  <2> QED BY <1>2, <2>1
<1>10. CASE ResumeTask
  <2>1. PICK p \in Ids : hstack' = <<Frame("task", 0, p)>>
    BY <1>10 DEF ResumeTask
  <2>2. Frame("task", 0, p) \in Frames /\ Frame("task", 0, p).k = "task"
    BY FramesBuilt DEF Frame
  <2> QED BY <1>3, <2>1, <2>2
<1> QED BY <1>4, <1>5, <1>6, <1>7, <1>8, <1>9, <1>10 DEF HostNext

(* Three ways to keep what continuations rely on.                          *)
TaskBottom == hstack # << >> /\ hstack[1].k = "task"

LEMMA TaskKept ==
  ASSUME HostInv, Prompt, BeginFirst(hstack'),
         \A p \in Ids : promises'[p] # "timer",
         \/ /\ \A p \in Ids : promises'[p] = "ready" => promises[p] = "ready"
            /\ imm' = imm /\ (TaskBottom' => TaskBottom)
         \/ (\A p \in Ids : promises'[p] # "ready") /\ ~ TaskBottom'
         \/ Promised'
  PROVE  TaskInv'
BY DEF HostInv, TaskInv, Promised, TaskBottom, BeginFirst

(* Whoever waits for nothing else owes nobody.                             *)
LEMMA NobodyReady ==
  ASSUME HostInv, Prompt, NoDriver
  PROVE  (\A p \in Ids : promises[p] # "ready") /\ ~ TaskBottom
BY DEF HostInv, TaskInv, Promised, TaskBottom, NoDriver

LEMMA ProcessRequestTask ==
  ASSUME HostInv, Prompt, NEW below, UnderAnswer(below),
         NEW req \in Request \cup Finish, req.m = "api", ProcessRequest(below, req),
         BeginFirst(hstack'), below # << >> => req.op \notin {"begin", "complete"}
  PROVE  TaskInv'
<1>0. /\ req.rid \in Rids /\ below \in Seq(Frames)
      /\ promises \in [Ids -> PromiseStates] /\ \A p \in Ids : promises[p] # "timer"
  BY LineFields DEF UnderAnswer, Below, HostInv, ProcessTypeOK, HostTypeOK, TaskInv
<1>1. ASSUME NEW f, f.k # "task", hstack' = Append(below, f), f \in Frames
      PROVE  TaskBottom' => below # << >> /\ TaskBottom
  <2>1. hstack'[1] = IF below = << >> THEN f ELSE below[1]
    BY <1>0, <1>1, AppendOne
  <2> QED BY <1>1, <2>1 DEF TaskBottom, UnderAnswer, Below
<1>2. ASSUME hstack' = below
      PROVE  TaskBottom' => below # << >> /\ TaskBottom
  BY <1>2 DEF TaskBottom, UnderAnswer, Below
<1>3. /\ below = << >> => NoDriver /\ \A p \in Ids : promises[p] # "ready"
  BY NobodyReady DEF UnderAnswer, Below
<1>4. CASE Refuse(below, req) \/ CompleteFails(below, req) \/ Callbacks(below, req)
  <2>1. hstack' = below /\ promises' = promises /\ (below # << >> => imm' = imm)
    BY <1>4 DEF Refuse, CompleteFails, Callbacks, AnswerAndNext, kernelVars
  <2> QED BY <1>0, <1>2, <1>3, <2>1, TaskKept
<1>5. CASE EndOrLoad(below, req)
  <2>1. hstack' = below /\ promises' = promises /\ (below # << >> => imm' = imm)
    BY <1>5 DEF EndOrLoad, RespondWhenSettled, AnswerAndNext, kernelVars
  <2> QED BY <1>0, <1>2, <1>3, <2>1, TaskKept
<1>6. CASE EnterSync(below, req)
  <2>1. /\ req.op \in {"sync", "create"} /\ hstack' = Append(below, Frame(req.op, req.rid, 0))
        /\ promises' = promises /\ imm' = imm
    BY <1>6 DEF EnterSync, SyncApi
  <2>2. Frame(req.op, req.rid, 0) \in Frames /\ Frame(req.op, req.rid, 0).k # "task"
    BY <1>0, <2>1, FramesBuilt DEF Frame
  <2> QED BY <1>0, <1>1, <1>3, <2>1, <2>2, TaskKept
<1>7. CASE EnterBegin(below, req)
  <2>1. /\ nextid \in Ids /\ req.op = "begin"
        /\ hstack' = Append(below, Frame("begin", req.rid, nextid))
        /\ promises' = [promises EXCEPT ![nextid] = "running"]
    BY <1>7, NextIdIsId DEF EnterBegin, HostInv, ProcessTypeOK, HostTypeOK
  <2>2. Frame("begin", req.rid, nextid) \in Frames /\ Frame("begin", req.rid, nextid).k # "task"
    BY <1>0, <2>1, FramesBuilt DEF Frame
  <2>3. below = << >>
    BY <2>1
  <2>4. \A p \in Ids : promises'[p] \notin {"ready", "timer"}
    BY <1>0, <1>3, <2>1, <2>3
  <2> QED BY <1>1, <2>1, <2>2, <2>3, <2>4, TaskKept
<1>8. CASE Complete(below, req)
  <2>1. req.op = "complete" /\ RespondLater(below, req.rid, {})
    BY <1>8 DEF Complete
  <2>2. below = << >>
    BY <2>1
  <2>3. imm' = <<[k |-> "respond", rid |-> req.rid, ids |-> {}]>>
    BY <1>3, <2>1, <2>2 DEF RespondLater, NoDriver
  <2>4. Promised'
    BY <2>3 DEF Promised
  <2>5. PICK c \in waiting : Settle(c)
    BY <1>8 DEF Complete
  <2>6. \A p \in Ids : promises'[p] # "timer"
    BY <1>0, <2>5 DEF Settle
  <2> QED BY <2>4, <2>6, TaskKept
<1> QED BY <1>4, <1>5, <1>6, <1>7, <1>8 DEF ProcessRequest

LEMMA TaskStep ==
  ASSUME HostInv, HostNext, Calm, Prompt
  PROVE  TaskInv'
<1>0. /\ promises \in [Ids -> PromiseStates] /\ \A p \in Ids : promises[p] # "timer"
      /\ BeginFirst(hstack') /\ BeginFirst(hstack)
  BY StackStep, ShapeIs DEF HostInv, ProcessTypeOK, HostTypeOK, TaskInv
<1>1. \A q : "timer" \notin Suspensions(q) /\ "ready" \notin Suspensions(q)
  BY DEF Suspensions, Prompt
<1>2. ASSUME hstack # << >>, hstack' = Front(hstack)
      PROVE  TaskBottom' => TaskBottom
  BY <1>2, BottomStays DEF TaskBottom, HostInv
<1>3. CASE Run
  <2>1. promises' = promises /\ (\A p \in Ids : promises[p] # "ready") /\ hstack' = <<ReadFrame>>
    BY <1>3 DEF Run, Quiet, kernelVars
  <2> QED BY <1>0, <2>1, TaskKept DEF TaskBottom, ReadFrame, Frame
<1>4. CASE ReadRequest \/ ReadNested
  <2>1. /\ hstack # << >> /\ Last(hstack).k \in {"read", "cb"} /\ toHost # << >>
        /\ Head(toHost) \in Request \cup Finish /\ Head(toHost).m = "api"
    BY <1>4, ReadType DEF ReadRequest, ReadNested, Running, HostInv
  <2>2. CASE ReadRequest
    <3>1. Last(hstack).k = "read" /\ ProcessRequest(Front(hstack), Head(toHost))
      BY <2>2 DEF ReadRequest, Running
    <3>2. Front(hstack) = << >> /\ UnderAnswer(Front(hstack))
      BY <2>1, <3>1, BelowTop, HostAlone DEF UnderAnswer, HostInv
    <3> QED BY <1>0, <2>1, <3>1, <3>2, ProcessRequestTask
  <2>3. CASE ReadNested
    <3>1. Last(hstack).k = "cb" /\ Running({"cb"}) /\ ProcessRequest(hstack, Head(toHost))
      BY <2>3 DEF ReadNested, Running
    <3>2. UnderAnswer(hstack)
      BY <2>1, <3>1, BelowTop DEF UnderAnswer, HostInv
    <3> QED BY <1>0, <2>1, <3>1, <3>2, ProcessRequestTask DEF Calm
  <2> QED BY <1>4, <2>2, <2>3
<1>5. CASE ReadMalformed \/ CallAsyncOverride \/ EventLoopEmpty
  <2>1. hstack' = hstack /\ imm' = imm /\ promises' = promises
    BY <1>5 DEF ReadMalformed, CallAsyncOverride, EventLoopEmpty, loopVars, kernelVars
  <2> QED BY <1>0, <2>1, TaskKept DEF TaskBottom
<1>6. CASE ReadEnd \/ ReadCompletion \/ ReadInterrupted
  <2>1. hstack # << >> /\ hstack' = Front(hstack) /\ imm' = imm /\ promises' = promises
    BY <1>6 DEF ReadEnd, ReadCompletion, ReadInterrupted, Running, kernelVars
  <2> QED BY <1>0, <1>2, <2>1, TaskKept
<1>7. CASE CallSyncOverride
  <2>1. /\ hstack # << >> /\ hstack \in Seq(Frames) /\ nextid <= MaxId
        /\ hstack' = Append(hstack, Frame("cb", 0, nextid))
        /\ imm' = imm /\ promises' = promises
    BY <1>7, HostTop DEF CallSyncOverride, Running
  <2>2. Frame("cb", 0, nextid) \in Frames
    BY <2>1, NextIdIsId, FramesBuilt DEF HostInv, ProcessTypeOK, HostTypeOK
  <2>3. hstack'[1] = hstack[1]
    BY <2>1, <2>2, AppendOne
  <2> QED BY <1>0, <2>1, <2>3, TaskKept DEF TaskBottom
<1>8. CASE ReturnSync \/ ThrowBegin
  <2>1. /\ hstack # << >> /\ hstack' = Front(hstack)
        /\ imm' = IF Front(hstack) = << >> THEN Append(imm, RunNext) ELSE imm
        /\ Last(hstack).k # "task" /\ Last(hstack).k \in {"sync", "create", "begin"}
    BY <1>8 DEF ReturnSync, ThrowBegin, Running, AnswerAndNext
  <2>2. \A p \in Ids : promises'[p] # "timer" /\ (promises'[p] = "ready" => promises[p] = "ready")
    <3>1. CASE ReturnSync
      BY <1>0, <3>1 DEF ReturnSync
    <3>2. CASE ThrowBegin
      BY <1>0, <3>2 DEF ThrowBegin
    <3> QED BY <1>8, <3>1, <3>2
  <2>3. CASE Front(hstack) = << >>
    <3>1. NoDriver
      BY <2>1, <2>3, BelowTop DEF Below, HostInv
    <3>2. \A p \in Ids : promises[p] # "ready"
      BY <3>1, NobodyReady
    <3> QED BY <1>0, <2>1, <2>2, <2>3, <3>2, TaskKept DEF TaskBottom
  <2>4. CASE Front(hstack) # << >>
    BY <1>0, <1>2, <2>1, <2>2, <2>4, TaskKept
  <2> QED BY <2>3, <2>4
<1>9. CASE ReturnBegin
  <2>1. /\ hstack # << >> /\ hstack \in Seq(Frames) /\ Last(hstack).k = "begin"
        /\ RespondLater(Front(hstack), Last(hstack).rid, {nextid})
    BY <1>9, HostTop DEF ReturnBegin, Running
  <2>2. Front(hstack) = << >>
    BY <1>0, <2>1, FrontShape
  <2>3. NoDriver
    BY <2>1, <2>2, BelowTop DEF Below, HostInv
  <2>4. imm' = <<[k |-> "respond", rid |-> Last(hstack).rid, ids |-> {nextid}]>>
    BY <2>1, <2>2, <2>3 DEF RespondLater, NoDriver
  <2>5. Promised'
    BY <2>4 DEF Promised
  <2>6. PICK s \in Suspensions(Last(hstack).id) \cup {"ready"} :
          promises' = [promises EXCEPT ![Last(hstack).id] = s]
    BY <1>9 DEF ReturnBegin
  <2>7. \A p \in Ids : promises'[p] # "timer"
    BY <1>0, <1>1, <2>6
  <2> QED BY <1>0, <2>5, <2>7, TaskKept
<1>10. CASE ResumeTask
  <2>1. PICK p \in Ids : promises[p] = "ready" /\ promises' = [promises EXCEPT ![p] = "running"]
    BY <1>10 DEF ResumeTask
  <2>2. Promised /\ imm' = imm
    BY <1>10, <2>1 DEF HostInv, TaskInv, ResumeTask
  <2>3. Promised'
    BY <2>2 DEF Promised
  <2> QED BY <1>0, <2>1, <2>3, TaskKept
<1>11. CASE ReturnTask
  <2>1. hstack # << >> /\ hstack' = Front(hstack) /\ imm' = imm
    BY <1>11 DEF ReturnTask, Running
  <2>2. PICK s \in Suspensions(Last(hstack).id) :
          promises' = [promises EXCEPT ![Last(hstack).id] = s]
    BY <1>11 DEF ReturnTask
  <2>3. \A p \in Ids : promises'[p] # "timer" /\ (promises'[p] = "ready" => promises[p] = "ready")
    BY <1>0, <1>1, <2>2
  <2> QED BY <1>0, <1>2, <2>1, <2>3, TaskKept
<1>12. CASE TimerFires
  BY <1>0, <1>12 DEF TimerFires
<1>13. CASE RespondImmediate \/ RespondSettled
  <2>1. hstack' = << >> /\ promises' = promises
    BY <1>13 DEF RespondImmediate, RespondSettled, Idle, kernelVars
  <2>2. \A p \in Ids : promises[p] # "ready"
    <3>1. CASE RespondImmediate
      BY <3>1 DEF RespondImmediate, Quiet
    <3>2. CASE RespondSettled
      <4>1. imm = << >>
        BY <3>2 DEF RespondSettled, HostInv, OneDriver
      <4> QED BY <4>1 DEF HostInv, TaskInv, Promised
    <3> QED BY <1>13, <3>1, <3>2
  <2> QED BY <1>0, <2>1, <2>2, TaskKept DEF TaskBottom
<1> QED BY <1>3, <1>4, <1>5, <1>6, <1>7, <1>8, <1>9, <1>10, <1>11, <1>12, <1>13 DEF HostNext

LEMMA HostInvStep ==
  ASSUME HostInv, HostNext, Prompt => Calm
  PROVE  HostInv'
<1>1. ProcessTypeOK' /\ OneDriver'
  BY NextType, DriverStep DEF HostInv, ProcessNext
<1>2. Linked(hstack', HostBottoms, HostLinks) /\ IdsBelow(hstack', nextid')
  BY StackStep DEF Shape
<1>3. RunningIdsInv'
  BY <1>2 DEF IdsBelow, RunningIdsInv
<1>4. TaskInv'
  <2>1. CASE Prompt
    BY <2>1, TaskStep
  <2>2. CASE ~ Prompt
    BY <2>2 DEF TaskInv
  <2> QED BY <2>1, <2>2
<1> QED BY <1>1, <1>2, <1>3, <1>4 DEF HostInv

(* Steps of the program leave the runtime alone, but for the pipes.        *)
LEMMA HostInvKept ==
  ASSUME HostInv, UNCHANGED hostVars, WireTypeOK'
  PROVE  HostInv' /\ HostOpen' = HostOpen /\ (HostBusy' <=> HostBusy)
<1>1. HostInv'
  BY DEF HostInv, ProcessTypeOK, HostTypeOK, OneDriver, RunningIdsInv, TaskInv, Promised,
         hostVars, loopVars, kernelVars
<1>2. Deferred' = Deferred /\ hstack' = hstack
  BY DeferredIs, DeferredBecomes DEF hostVars, loopVars
<1>3. HostOpen' = HostOpen
  BY <1>2, HostOpenIs, HostOpenBecomes
<1>4. HostBusy' <=> HostBusy
  BY <1>2 DEF HostBusy
<1> QED BY <1>1, <1>3, <1>4

-----------------------------------------------------------------------------
(* What may be open.                                                       *)
Items == [k : {"request", "callback"}, id : Nat]

LEMMA IsItem ==
  \A n \in Nat : Item("request", n) \in Items /\ Item("callback", n) \in Items
BY DEF Items, Item

LEMMA SameItem ==
  \A n, m \in Nat :
    /\ Item("request", n) = Item("request", m) => n = m
    /\ Item("callback", n) = Item("callback", m) => n = m
    /\ Item("request", n) # Item("callback", m)
BY DEF Item

LEMMA DeferredShape ==
  ASSUME HostInv
  PROVE  Deferred = {} \/ \E rid \in Rids : Deferred = {rid}
<1>1. CASE imm = << >>
  <2>1. CASE pendingEnd = {}
    BY <1>1, <2>1, DeferredIs, DeferredNone
  <2>2. CASE pendingEnd # {}
    <3>1. PICK e \in pendingEnd : pendingEnd = {e}
      BY <2>2 DEF HostInv, OneDriver
    <3>2. e.rid \in Rids
      BY DEF HostInv, ProcessTypeOK, HostTypeOK
    <3> QED BY <1>1, <3>1, <3>2, DeferredIs, DeferredOne
  <2> QED BY <2>1, <2>2
<1>2. CASE imm # << >>
  <2>1. imm = <<Head(imm)>> /\ Head(imm) \in Immediates /\ pendingEnd = {}
    BY <1>2, QueueOfOne
  <2>2. CASE Head(imm).k = "run"
    <3>1. Head(imm) = RunNext
      BY <2>1, <2>2 DEF Immediates, RunNext
    <3> QED BY <2>1, <3>1, DeferredIs, DeferredNone
  <2>3. CASE Head(imm).k # "run"
    <3>1. Head(imm).k = "respond" /\ Head(imm).rid \in Rids
      BY <2>1, <2>3 DEF Immediates
    <3>2. DeferredOf(<<Head(imm)>>, {}) = {Head(imm).rid}
      BY <3>1, DeferredOne
    <3> QED BY <2>1, <3>1, <3>2, DeferredIs
  <2> QED BY <2>2, <2>3
<1> QED BY <1>1, <1>2

LEMMA BaseType ==
  ASSUME HostInv, NEW S, \A rid \in Deferred : Item("request", rid) \in S
  PROVE  BaseOf(Deferred) \in Seq(S)
<1>1. CASE Deferred = {}
  <2>1. BaseOf(Deferred) = << >>
    BY <1>1, BaseNone
  <2> QED BY <2>1, EmptySeq
<1>2. ASSUME NEW rid \in Rids, Deferred = {rid}
      PROVE  BaseOf(Deferred) \in Seq(S)
  <2>1. Item("request", rid) \in S
    BY <1>2
  <2>2. <<Item("request", rid)>> \in Seq(S)
    BY <2>1
  <2>3. BaseOf(Deferred) = <<Item("request", rid)>>
    BY <1>2, BaseOne
  <2> QED BY <2>2, <2>3
<1> QED BY <1>1, <1>2, DeferredShape

LEMMA HostOpenIn ==
  ASSUME HostInv, NEW S, NEW s \in Seq(Frames),
         \A rid \in Deferred : Item("request", rid) \in S,
         \A i \in DOMAIN s : OpenFrame(s[i]) => FrameItem(s[i]) \in S
  PROVE  OpenBelow(s) \in Seq(S)
<1>1. BaseOf(Deferred) \in Seq(S)
  BY BaseType
<1>2. Len(s) \in Nat /\ DOMAIN s = 1 .. Len(s)
  BY LenProperties
<1> QED BY <1>1, <1>2, OpenOnType DEF OpenBelow

LEMMA BelowType ==
  ASSUME HostInv, NEW s \in Seq(Frames)
  PROVE  OpenBelow(s) \in Seq(Items)
<1>1. \A rid \in Deferred : Item("request", rid) \in Items
  BY DeferredShape, IsItem DEF Rids
<1>2. ASSUME NEW i \in DOMAIN s, OpenFrame(s[i])
      PROVE  FrameItem(s[i]) \in Items
  <2>1. s[i] \in Frames
    BY LenProperties
  <2> QED BY <1>2, <2>1, HostFrameItems, FrameFields, IsItem DEF Ids, Rids
<1> QED BY <1>1, <1>2, HostOpenIn

OpenTyped == HostOpen \in Seq(Items)

LEMMA HostOpenType == HostInv => OpenTyped
BY BelowType, HostOpenIs DEF OpenBelow, OpenTyped, HostInv, ProcessTypeOK, HostTypeOK

LEMMA HostOpenTypeThen == HostInv' => OpenTyped'
BY HostOpenType, PTL

-----------------------------------------------------------------------------
(***************************************************************************)
(* The program's stack.                                                    *)
(***************************************************************************)
LEMMA ClientFrameFields ==
  ASSUME NEW f \in ClientFrames
  PROVE  /\ f.k \in {"call", "handler", "async"} /\ f.op \in Api
         /\ f.rid \in Rids \cup {0} /\ f.id \in Ids \cup {0} /\ f.todo \in SUBSET Ids
         /\ f.rid \in Nat /\ f.id \in Nat
         /\ f.k # "async" => f.todo = {}
         /\ f.k = "handler" => f.op \in {"sync", "callbacks"} /\ f.id \in Ids
         /\ f.k = "call" => f.rid \in Rids /\ (f.op = "complete" => f.id \in Ids)
<1>1. {"begin", "sync", "callbacks", "complete"} \subseteq Api
  BY DEF Api, AsyncApi, SyncApi
<1>2. Rids \subseteq Nat /\ Ids \subseteq Nat
  BY DEF Rids, Ids
<1>3. /\ f.k \in {"call", "handler", "async"} /\ f.op \in Api
      /\ f.rid \in Rids \cup {0} /\ f.id \in Ids \cup {0} /\ f.todo \in SUBSET Ids
      /\ f.k # "async" => f.todo = {}
      /\ f.k = "handler" => f.op \in {"sync", "callbacks"} /\ f.id \in Ids
      /\ f.k = "call" => f.rid \in Rids /\ (f.op = "complete" => f.id \in Ids)
  BY <1>1 DEF ClientFrames
<1>4. Rids \cup {0} \subseteq Nat /\ Ids \cup {0} \subseteq Nat
  BY <1>2
<1>5. f.rid \in Nat /\ f.id \in Nat
  BY <1>3, <1>4
<1> QED BY <1>3, <1>5

LEMMA ClientFramesBuilt ==
  /\ \A op \in Api, rid \in Rids, id \in Ids \cup {0}, err \in BOOLEAN :
       (op = "complete" => id \in Ids) => CallFrame(op, rid, id, err) \in ClientFrames
  /\ \A id \in Ids, op \in {"sync", "callbacks"} : HandlerFrame(id, op) \in ClientFrames
  /\ \A id \in Ids \cup {0}, todo \in SUBSET Ids : AsyncFrame(id, todo) \in ClientFrames
<1>2. ASSUME NEW op \in Api, NEW rid \in Rids, NEW id \in Ids \cup {0}, NEW err \in BOOLEAN,
             op = "complete" => id \in Ids
      PROVE  CallFrame(op, rid, id, err) \in ClientFrames
  BY <1>2 DEF ClientFrames, CallFrame
<1>3. \A id \in Ids, op \in {"sync", "callbacks"} : HandlerFrame(id, op) \in ClientFrames
  BY DEF ClientFrames, HandlerFrame
<1>4. \A id \in Ids \cup {0}, todo \in SUBSET Ids : AsyncFrame(id, todo) \in ClientFrames
  BY DEF ClientFrames, AsyncFrame
<1> QED BY <1>2, <1>3, <1>4

LEMMA ClientFrameItems ==
  ASSUME NEW f \in ClientFrames
  PROVE  /\ f.k = "call" => OpenFrame(f) /\ FrameItem(f) = Item("request", f.rid)
         /\ f.k = "handler" /\ f.op = "sync"
              => OpenFrame(f) /\ FrameItem(f) = Item("callback", f.id)
         /\ f.k = "async" \/ (f.k = "handler" /\ f.op # "sync") => ~ OpenFrame(f)
         /\ FrameItem(f) \in Items
BY ClientFrameFields, IsItem DEF OpenFrame, FrameItem

SyncHandler(f) == f.k = "handler" /\ f.op = "sync"
NoAsyncAbove(s) == \A i, j \in DOMAIN s : i < j /\ SyncHandler(s[i]) => s[j].k # "async"
ProgramShape(s) ==
  /\ Linked(s, ClientBottoms, ClientLinks)
  /\ "nestedAsync" \notin Native => NoAsyncAbove(s)

LEMMA ProgramShapeIs == ClientInv => ProgramShape(cstack)
BY DEF ClientInv, ProgramShape, NoAsyncInSync, NoAsyncAbove, SyncHandler

LEMMA ProgramFront ==
  ASSUME NEW s \in Seq(ClientFrames), s # << >>, ProgramShape(s)
  PROVE  /\ Front(s) \in Seq(ClientFrames) /\ Last(s) \in ClientFrames
         /\ ProgramShape(Front(s))
         /\ Front(s) = << >> => Last(s) \in ClientBottoms
         /\ Front(s) # << >> => <<Last(Front(s)), Last(s)>> \in ClientLinks
<1>1. /\ Front(s) \in Seq(ClientFrames) /\ Last(s) \in ClientFrames
      /\ Len(Front(s)) = Len(s) - 1 /\ Len(s) \in Nat \ {0} /\ DOMAIN s = 1 .. Len(s)
      /\ \A i \in 1 .. Len(s) - 1 : Front(s)[i] = s[i]
  BY FrontLast, EmptySeq, LenProperties
<1>2. DOMAIN Front(s) = 1 .. Len(s) - 1
  BY <1>1, LenProperties
<1>3. \A i \in DOMAIN Front(s) : i \in DOMAIN s /\ Front(s)[i] = s[i]
  BY <1>1, <1>2
<1>4. NoAsyncAbove(s) => NoAsyncAbove(Front(s))
  BY <1>3 DEF NoAsyncAbove
<1>5. /\ Linked(Front(s), ClientBottoms, ClientLinks)
      /\ Front(s) = << >> => Last(s) \in ClientBottoms
      /\ Front(s) # << >> => <<Last(Front(s)), Last(s)>> \in ClientLinks
  BY LinkedFront DEF ProgramShape
<1> QED BY <1>1, <1>4, <1>5 DEF ProgramShape

LEMMA ProgramAppend ==
  ASSUME NEW s \in Seq(ClientFrames), NEW f \in ClientFrames, ProgramShape(s),
         s = << >> => f \in ClientBottoms,
         s # << >> => <<Last(s), f>> \in ClientLinks,
         f.k = "async" /\ "nestedAsync" \notin Native => \A i \in DOMAIN s : ~ SyncHandler(s[i])
  PROVE  Append(s, f) \in Seq(ClientFrames) /\ ProgramShape(Append(s, f))
<1> DEFINE t == Append(s, f)
<1>1. /\ t \in Seq(ClientFrames) /\ DOMAIN t = 1 .. Len(s) + 1 /\ t[Len(s) + 1] = f
      /\ \A i \in 1 .. Len(s) : t[i] = s[i]
      /\ Len(s) \in Nat /\ DOMAIN s = 1 .. Len(s)
  BY Appended, LenProperties
<1>2. Linked(t, ClientBottoms, ClientLinks)
  BY LinkedAppend DEF ProgramShape
<1> HIDE DEF t
<1>3. ASSUME "nestedAsync" \notin Native PROVE NoAsyncAbove(t)
  <2>1. ASSUME NEW i \in DOMAIN t, NEW j \in DOMAIN t, i < j, SyncHandler(t[i]), t[j].k = "async"
        PROVE  FALSE
    <3>1. i \in DOMAIN s /\ t[i] = s[i]
      BY <1>1, <2>1
    <3>2. CASE j = Len(s) + 1
      BY <1>1, <1>3, <2>1, <3>1, <3>2
    <3>3. CASE j # Len(s) + 1
      <4>1. j \in DOMAIN s /\ t[j] = s[j]
        BY <1>1, <2>1, <3>3
      <4> QED BY <1>3, <2>1, <3>1, <4>1 DEF ProgramShape, NoAsyncAbove
    <3> QED BY <3>2, <3>3
  <2> QED BY <2>1 DEF NoAsyncAbove
<1>4. ProgramShape(t)
  BY <1>2, <1>3 DEF ProgramShape
<1> QED BY <1>1, <1>4 DEF t

(* Under an async call nobody runs an override that requestResponse read.  *)
LEMMA AsyncOnTop ==
  ASSUME NEW s \in Seq(ClientFrames), s # << >>, ProgramShape(s), Last(s).k = "async",
         "nestedAsync" \notin Native
  PROVE  \A i \in DOMAIN s : ~ SyncHandler(s[i])
<1>1. Len(s) \in Nat \ {0} /\ DOMAIN s = 1 .. Len(s) /\ Last(s) = s[Len(s)]
  BY EmptySeq, LenProperties DEF Last
<1>2. ASSUME NEW i \in DOMAIN s, SyncHandler(s[i]) PROVE FALSE
  <2>1. Len(s) \in DOMAIN s /\ i # Len(s)
    BY <1>1, <1>2 DEF SyncHandler
  <2>2. i < Len(s)
    BY <1>1, <2>1
  <2> QED BY <1>1, <1>2, <2>1, <2>2 DEF ProgramShape, NoAsyncAbove
<1> QED BY <1>2

(* The async call on top goes on: its frame is replaced.                   *)
LEMMA ReplaceAsync ==
  ASSUME NEW s \in Seq(ClientFrames), s # << >>, ProgramShape(s), Last(s).k = "async",
         NEW p \in Ids \cup {0}, NEW todo \in SUBSET Ids
  PROVE  /\ Append(Front(s), AsyncFrame(p, todo)) \in Seq(ClientFrames)
         /\ ProgramShape(Append(Front(s), AsyncFrame(p, todo)))
         /\ OpenOn(<< >>, Append(Front(s), AsyncFrame(p, todo))) = OpenOn(<< >>, s)
         /\ OpenOn(<< >>, Front(s)) = OpenOn(<< >>, s)
<1> DEFINE f == AsyncFrame(p, todo)
<1>1. f \in ClientFrames /\ f.k = "async"
  BY ClientFramesBuilt DEF AsyncFrame
<1> HIDE DEF f
<1>2. /\ Front(s) \in Seq(ClientFrames) /\ Last(s) \in ClientFrames
      /\ ProgramShape(Front(s))
      /\ Front(s) = << >> => Last(s) \in ClientBottoms
      /\ Front(s) # << >> => <<Last(Front(s)), Last(s)>> \in ClientLinks
  BY ProgramFront
<1>3. Front(s) = << >> => f \in ClientBottoms
  BY <1>1 DEF ClientBottoms
<1>4. ASSUME Front(s) # << >> PROVE <<Last(Front(s)), f>> \in ClientLinks
  <2>1. Last(Front(s)) \in ClientFrames
    BY <1>2, <1>4, FrontLast
  <2>2. Last(Front(s)).k = "handler"
    BY <1>2, <1>4 DEF ClientLinks, Plain, Step
  <2> QED BY <1>1, <2>1, <2>2 DEF ClientLinks
<1>5. ASSUME "nestedAsync" \notin Native PROVE \A i \in DOMAIN Front(s) : ~ SyncHandler(Front(s)[i])
  <2>1. \A i \in DOMAIN s : ~ SyncHandler(s[i])
    BY <1>5, AsyncOnTop
  <2>2. \A i \in DOMAIN Front(s) : i \in DOMAIN s /\ Front(s)[i] = s[i]
    <3>1. /\ Len(Front(s)) = Len(s) - 1 /\ Len(s) \in Nat \ {0} /\ DOMAIN s = 1 .. Len(s)
          /\ \A i \in 1 .. Len(s) - 1 : Front(s)[i] = s[i]
      BY FrontLast, EmptySeq, LenProperties
    <3>2. DOMAIN Front(s) = 1 .. Len(s) - 1
      BY <1>2, <3>1, LenProperties
    <3> QED BY <3>1, <3>2
  <2> QED BY <2>1, <2>2
<1>6. Append(Front(s), f) \in Seq(ClientFrames) /\ ProgramShape(Append(Front(s), f))
  BY <1>1, <1>2, <1>3, <1>4, <1>5, ProgramAppend
<1>7. OpenOn(<< >>, Append(Front(s), f)) = OpenOn(<< >>, Front(s))
  BY <1>1, <1>2, OpenOnAppend, ClientFrameItems
<1>8. OpenOn(<< >>, s) = OpenOn(<< >>, Front(s))
  BY <1>2, OpenOnTop, ClientFrameItems
<1> QED BY <1>6, <1>7, <1>8 DEF f

LEMMA ProgramOpenType ==
  ASSUME NEW s \in Seq(ClientFrames), NEW S,
         \A i \in DOMAIN s : OpenFrame(s[i]) => FrameItem(s[i]) \in S
  PROVE  OpenOn(<< >>, s) \in Seq(S)
<1>1. Len(s) \in Nat /\ DOMAIN s = 1 .. Len(s) /\ << >> \in Seq(S)
  BY LenProperties, EmptySeq
<1> QED BY <1>1, OpenOnType

LEMMA ProgramOpenItems ==
  ASSUME NEW s \in Seq(ClientFrames)
  PROVE  OpenOn(<< >>, s) \in Seq(Items)
<1>1. \A i \in DOMAIN s : s[i] \in ClientFrames
  BY LenProperties
<1> QED BY <1>1, ClientFrameItems, ProgramOpenType

LEMMA ClientOpenBecomes == ClientOpen' = OpenOn(<< >>, cstack')
BY DEF ClientOpen

-----------------------------------------------------------------------------
(***************************************************************************)
(* What agreement says to each end.                                        *)
(***************************************************************************)

(* While the program reads, the youngest open request is its own.          *)
LEMMA WhileReading ==
  ASSUME ClientInv, Reading
  PROVE  /\ cstack \in Seq(ClientFrames) /\ cstack # << >> /\ Top \in ClientFrames
         /\ Front(cstack) \in Seq(ClientFrames) /\ ProgramShape(Front(cstack))
         /\ OpenOn(<< >>, Front(cstack)) \in Seq(Items)
         /\ ClientOpen = Append(OpenOn(<< >>, Front(cstack)), Item("request", Top.rid))
         /\ \/ /\ Top.op \in {"sync", "create", "load"}
               /\ Front(cstack) # << >> => Last(Front(cstack)).k = "handler"
            \/ /\ Top.op \in {"begin", "callbacks", "complete", "end"}
               /\ Front(cstack) # << >> /\ Last(Front(cstack)).k = "async"
               /\ Top.op # "complete" => Last(Front(cstack)).todo = {}
         /\ Top.op = "complete" => Top.id \in Ids
<1>1. cstack \in Seq(ClientFrames) /\ cstack # << >> /\ Top.k = "call" /\ ProgramShape(cstack)
  BY ProgramShapeIs DEF ClientInv, ClientTypeOK, Reading
<1>2. /\ Front(cstack) \in Seq(ClientFrames) /\ Top \in ClientFrames
      /\ ProgramShape(Front(cstack))
      /\ Front(cstack) = << >> => Top \in ClientBottoms
      /\ Front(cstack) # << >> => <<Last(Front(cstack)), Top>> \in ClientLinks
  BY <1>1, ProgramFront DEF Top
<1>3. OpenOn(<< >>, Front(cstack)) \in Seq(Items)
  BY <1>2, ProgramOpenItems
<1>4. ClientOpen = Append(OpenOn(<< >>, Front(cstack)), Item("request", Top.rid))
  BY <1>1, <1>2, OpenOnTop, ClientFrameItems DEF ClientOpen, Top
<1>5. \/ /\ Top.op \in {"sync", "create", "load"}
         /\ Front(cstack) # << >> => Last(Front(cstack)).k = "handler"
      \/ /\ Top.op \in {"begin", "callbacks", "complete", "end"}
         /\ Front(cstack) # << >> /\ Last(Front(cstack)).k = "async"
         /\ Top.op # "complete" => Last(Front(cstack)).todo = {}
  BY <1>1, <1>2 DEF ClientBottoms, ClientLinks, Plain, Step
<1>6. Top.op = "complete" => Top.id \in Ids
  BY <1>1, <1>2, ClientFrameFields
<1> QED BY <1>1, <1>2, <1>3, <1>4, <1>5, <1>6

(* A runtime that has nothing to do waits for the youngest callback.       *)
LEMMA HandlerWaits ==
  ASSUME HostInv, ~ HostBusy, NEW open \in Seq(Items), NEW id \in Nat,
         HostOpen = Append(open, Item("callback", id))
  PROVE  hstack # << >> /\ Last(hstack).k = "cb" /\ Last(hstack).id = id
<1>1. HostOpen # << >>
  BY IsItem, AppendedFront
<1>2. Deferred = {} => BaseOf(Deferred) = << >>
  BY BaseNone
<1>3. hstack # << >>
  <2>1. ASSUME hstack = << >> PROVE FALSE
    <3>1. Deferred = {}
      BY <2>1 DEF HostBusy
    <3>2. HostOpen = << >>
      BY <1>2, <2>1, <3>1, HostOpenIs, OpenOnNone
    <3> QED BY <1>1, <3>2
  <2> QED BY <2>1
<1>4. Last(hstack) \in Frames /\ Front(hstack) \in Seq(Frames)
  BY <1>3, HostTop
<1>5. ASSUME Last(hstack).k \in {"read", "task"} PROVE FALSE
  <2>1. Front(hstack) = << >> /\ hstack[1] = Last(hstack)
    BY <1>3, <1>5, HostAlone
  <2>2. Deferred = {}
    <3>1. CASE Last(hstack).k = "task"
      BY <3>1 DEF HostBusy
    <3>2. CASE Last(hstack).k = "read"
      <4>1. imm = << >> /\ pendingEnd = {}
        BY <1>3, <2>1, <3>2 DEF HostInv, OneDriver
      <4> QED BY <4>1, DeferredIs, DeferredNone
    <3> QED BY <1>5, <3>1, <3>2
  <2>3. HostOpen = << >>
    BY <1>2, <1>3, <1>5, <2>1, <2>2, HostOpenTop, OpenOnNone DEF OpenBelow
  <2> QED BY <1>1, <2>3
<1>6. Last(hstack).k = "cb"
  BY <1>3, <1>4, <1>5, FrameFields DEF HostBusy
<1>7. HostOpen = Append(OpenBelow(Front(hstack)), Item("callback", Last(hstack).id))
  BY <1>3, <1>6, HostOpenTop
<1>8. OpenBelow(Front(hstack)) \in Seq(Items) /\ Last(hstack).id \in Nat
  BY <1>4, <1>6, BelowType, FrameFields DEF Ids
<1>9. Item("callback", Last(hstack).id) = Item("callback", id)
  BY <1>7, <1>8, IsItem, AppendInjective
<1> QED BY <1>3, <1>6, <1>9 DEF Item

(* A line a runtime that is up can read is one the program waits upon.     *)
LEMMA LineUnderWay ==
  ASSUME Inv, process = "up", toHost # << >>
  PROVE  /\ native = "up" /\ toHost = <<Head(toHost)>> /\ Head(toHost) \in Request \cup Finish
         /\ RequestFits(Head(toHost)) /\ toClient = << >> /\ Reading /\ ~ HostBusy
<1>1. native = "up"
  BY DEF Inv, ClientInv, ClientTypeOK
<1>2. PICK m \in Request \cup Finish : toHost = <<m>> /\ RequestFits(m)
  BY <1>1 DEF Inv, Agree
<1>3. Head(toHost) = m
  BY <1>2
<1>4. toClient = << >> /\ Reading /\ ~ HostBusy
  BY <1>1 DEF Inv, Agree
<1> QED BY <1>1, <1>2, <1>3, <1>4

LEMMA NothingMalformed ==
  ASSUME Inv
  PROVE  ~ ReadMalformed
<1>1. ASSUME ReadMalformed PROVE FALSE
  <2>1. process = "up" /\ hstack # << >> /\ Last(hstack).k = "read" /\ toHost # << >>
        /\ Head(toHost).m = "complete"
    BY <1>1 DEF ReadMalformed, Running
  <2>2. /\ Head(toHost) \in Request \cup Finish /\ ~ HostBusy
        /\ HostOpen = Append(ClientOpen, Item("callback", Head(toHost).id))
    BY <2>1, LineUnderWay DEF RequestFits
  <2>3. Head(toHost).id \in Nat
    BY <2>1, <2>2 DEF Request, Finish, Ids
  <2>4. ClientOpen \in Seq(Items)
    BY ProgramOpenItems DEF Inv, ClientInv, ClientTypeOK, ClientOpen
  <2>5. Last(hstack).k = "cb"
    BY <2>2, <2>3, <2>4, HandlerWaits DEF Inv
  <2> QED BY <2>1, <2>5
<1> QED BY <1>1

LEMMA EndsAgreeInv == Inv => EndsAgree
<1> SUFFICES ASSUME Inv PROVE EndsAgree
  OBVIOUS
<1>0. ClientOpen \in Seq(Items) /\ HostOpen \in Seq(Items)
  BY ProgramOpenItems, HostOpenType DEF Inv, ClientInv, ClientTypeOK, ClientOpen, OpenTyped
<1>1. ASSUME native = "up"
      PROVE  Delivered(HostOpen, toHost) = Delivered(ClientOpen, toClient)
  <2>1. CASE toHost = << >> /\ toClient = << >> /\ HostOpen = ClientOpen
    BY <2>1
  <2>2. ASSUME NEW m \in Request \cup Finish, toHost = <<m>>, RequestFits(m), toClient = << >>
        PROVE  Delivered(HostOpen, toHost) = Delivered(ClientOpen, toClient)
    <3>1. Delivered(HostOpen, toHost) = Deliver(HostOpen, m)
          /\ Delivered(ClientOpen, toClient) = ClientOpen
      BY <2>2, DeliveredOne, DeliveredNone
    <3>2. CASE m.m = "api"
      BY <2>2, <3>1, <3>2 DEF Deliver, RequestFits
    <3>3. CASE m.m = "complete"
      <4>1. HostOpen = Append(ClientOpen, Item("callback", m.id)) /\ m.id \in Nat
        BY <2>2, <3>3 DEF RequestFits, Request, Finish, Ids
      <4>2. HostOpen # << >> /\ Front(HostOpen) = ClientOpen
        BY <1>0, <4>1, AppendedFront, IsItem
      <4> QED BY <3>1, <3>3, <4>2 DEF Deliver
    <3> QED BY <3>2, <3>3 DEF Request, Finish
  <2>3. ASSUME NEW m \in Response \cup Callback, toClient = <<m>>, AnswerFits(m), toHost = << >>
        PROVE  Delivered(HostOpen, toHost) = Delivered(ClientOpen, toClient)
    <3>1. Delivered(ClientOpen, toClient) = Deliver(ClientOpen, m)
          /\ Delivered(HostOpen, toHost) = HostOpen
      BY <2>3, DeliveredOne, DeliveredNone
    <3>2. CASE m.m = "callback"
      BY <2>3, <3>1, <3>2 DEF Deliver, AnswerFits
    <3>3. CASE m.m = "response"
      <4>1. ClientOpen = Append(HostOpen, Item("request", m.rid)) /\ m.rid \in Nat
        BY <2>3, <3>3 DEF AnswerFits, Response, Callback, Rids
      <4>2. ClientOpen # << >> /\ Front(ClientOpen) = HostOpen
        BY <1>0, <4>1, AppendedFront, IsItem
      <4> QED BY <3>1, <3>3, <4>2 DEF Deliver
    <3> QED BY <3>2, <3>3 DEF Response, Callback
  <2> QED BY <1>1, <2>1, <2>2, <2>3 DEF Inv, Agree
<1>2. ASSUME Reading, toClient # << >>, Head(toClient).m = "response"
      PROVE  Head(toClient).rid = Top.rid
  <2>1. native = "up"
    BY <1>2 DEF Reading
  <2>2. PICK m \in Response \cup Callback : toClient = <<m>> /\ AnswerFits(m)
    BY <1>2, <2>1 DEF Inv, Agree
  <2>3. Head(toClient) = m
    BY <2>2
  <2> QED BY <1>2, <2>2, <2>3 DEF AnswerFits
<1>3. ASSUME process = "up", toHost # << >>, Head(toHost).m = "complete"
      PROVE  Running({"cb"}) /\ Last(hstack).id = Head(toHost).id
  <2>1. /\ Head(toHost) \in Request \cup Finish /\ ~ HostBusy
        /\ HostOpen = Append(ClientOpen, Item("callback", Head(toHost).id))
    BY <1>3, LineUnderWay DEF RequestFits
  <2>2. Head(toHost).id \in Nat
    BY <1>3, <2>1 DEF Request, Finish, Ids
  <2> QED BY <1>0, <1>3, <2>1, <2>2, HandlerWaits DEF Inv, Running
<1> QED BY <1>1, <1>2, <1>3 DEF EndsAgree

LEMMA StaysCalm ==
  ASSUME Inv, "nestedAsync" \notin Native
  PROVE  Calm
<1>1. ASSUME Running({"cb"}), toHost # << >>, Head(toHost).m = "api",
             Head(toHost).op \in {"begin", "complete"}
      PROVE  FALSE
  <2> DEFINE S == [k : {"request"}, id : Nat]
  <2>1. process = "up" /\ hstack # << >> /\ Last(hstack).k = "cb"
    BY <1>1 DEF Running
  <2>2. /\ Reading /\ Head(toHost) \in Request \cup Finish
        /\ Head(toHost).op = Top.op
        /\ ClientOpen = Append(HostOpen, Item("request", Head(toHost).rid))
    BY <1>1, <2>1, LineUnderWay DEF RequestFits
  <2>3. /\ cstack \in Seq(ClientFrames) /\ cstack # << >> /\ Top.k = "call"
        /\ Front(cstack) \in Seq(ClientFrames) /\ Front(cstack) # << >>
        /\ ProgramShape(Front(cstack)) /\ Last(Front(cstack)).k = "async"
    BY <1>1, <2>2, WhileReading DEF Inv, Reading
  <2>4. \A i \in DOMAIN Front(cstack) : ~ SyncHandler(Front(cstack)[i])
    BY <2>3, AsyncOnTop
  <2>5. ASSUME NEW i \in DOMAIN cstack PROVE ~ SyncHandler(cstack[i])
    <3>1. /\ Len(Front(cstack)) = Len(cstack) - 1 /\ Len(cstack) \in Nat \ {0}
          /\ DOMAIN cstack = 1 .. Len(cstack) /\ Top = cstack[Len(cstack)]
          /\ \A j \in 1 .. Len(cstack) - 1 : Front(cstack)[j] = cstack[j]
      BY <2>3, FrontLast, EmptySeq, LenProperties DEF Top, Last
    <3>2. DOMAIN Front(cstack) = 1 .. Len(cstack) - 1
      BY <2>3, <3>1, LenProperties
    <3>3. CASE i = Len(cstack)
      BY <2>3, <3>1, <3>3 DEF SyncHandler
    <3>4. CASE i # Len(cstack)
      <4>1. i \in DOMAIN Front(cstack) /\ Front(cstack)[i] = cstack[i]
        BY <3>1, <3>2, <3>4
      <4> QED BY <2>4, <4>1
    <3> QED BY <3>3, <3>4
  <2>6. \A i \in DOMAIN cstack : OpenFrame(cstack[i]) => FrameItem(cstack[i]) \in S
    <3>1. \A i \in DOMAIN cstack : cstack[i] \in ClientFrames
      BY <2>3, LenProperties
    <3>2. \A n \in Nat : Item("request", n) \in S
      BY DEF Item
    <3> HIDE DEF S
    <3> QED BY <2>5, <3>1, <3>2, ClientFrameItems, ClientFrameFields DEF SyncHandler
  <2>7. ClientOpen \in Seq(S)
    <3> HIDE DEF S
    <3> QED BY <2>3, <2>6, ProgramOpenType DEF ClientOpen
  <2>8. HostOpen \in Seq(Items) /\ Head(toHost).rid \in Nat
    BY <1>1, <2>2, HostOpenType DEF Inv, OpenTyped, Request, Finish, Rids
  <2>9. HostOpen = Front(ClientOpen) /\ ClientOpen # << >>
    BY <2>2, <2>8, IsItem, AppendedFront
  <2>10. HostOpen = Append(OpenBelow(Front(hstack)), Item("callback", Last(hstack).id))
    BY <2>1, HostOpenTop DEF Inv
  <2>11. /\ OpenBelow(Front(hstack)) \in Seq(Items)
         /\ Item("callback", Last(hstack).id) \in Items
    BY <2>1, HostTop, BelowType, FrameFields, IsItem DEF Inv, Ids
  <2>12. HostOpen # << >> /\ Last(HostOpen) = Item("callback", Last(hstack).id)
    BY <2>10, <2>11, AppendedFront
  <2>13. Last(HostOpen) \in S
    <3> HIDE DEF S
    <3>1. HostOpen \in Seq(S)
      BY <2>7, <2>9, FrontLast
    <3> QED BY <2>12, <3>1, FrontLast
  <2> QED BY <2>12, <2>13 DEF Item
<1> QED BY <1>1 DEF Calm

(* The step of the runtime that the invariant allows.                      *)
LEMMA HostGoesOn ==
  ASSUME Inv, Orderly, HostNext
  PROVE  HostInv' /\ HostEvent
<1>1. HostEvent
  BY NothingMalformed, HostEvents DEF Inv
<1>2. HostInv'
  BY StaysCalm, HostInvStep DEF Inv, Prompt
<1> QED BY <1>1, <1>2

LEMMA HostKeepsEof ==
  ASSUME HostNext
  PROVE  eof' = eof
BY DEF HostNext, Run, ReadRequest, ReadMalformed, ReadEnd, ReadNested, ReadCompletion,
       ReadInterrupted, CallSyncOverride, CallAsyncOverride, ReturnSync, ReturnBegin,
       ThrowBegin, ResumeTask, ReturnTask, TimerFires, RespondImmediate, RespondSettled,
       EventLoopEmpty, wireVars

LEMMA HostIsUp ==
  ASSUME HostNext
  PROVE  process = "up"
BY DEF HostNext, Run, ReadRequest, ReadMalformed, ReadEnd, ReadNested, ReadCompletion,
       ReadInterrupted, CallSyncOverride, CallAsyncOverride, ReturnSync, ReturnBegin,
       ThrowBegin, ResumeTask, ReturnTask, TimerFires, RespondImmediate, RespondSettled,
       EventLoopEmpty, Running, Idle

LEMMA ResponseFields ==
  ASSUME NEW rid \in Rids, NEW ok \in BOOLEAN, NEW ids \in SUBSET Ids, Reply(rid, ok, ids),
         toClient = << >>
  PROVE  \E m \in Response : toClient' = <<m>> /\ m.m = "response" /\ m.rid = rid
<1> DEFINE m == [m |-> "response", rid |-> rid, ok |-> ok, ids |-> ids]
<1>1. m \in Response /\ m.m = "response" /\ m.rid = rid
  BY DEF Response
<1>2. toClient' = <<m>>
  BY DEF Reply, Write
<1> QED BY <1>1, <1>2

LEMMA HostKeepsAgreement ==
  ASSUME Inv, Orderly, HostNext, UNCHANGED clientVars, native = "up"
  PROVE  Agree'
<1>0. /\ ClientOpen' = ClientOpen /\ (Reading' <=> Reading) /\ (Reading => Top' = Top)
      /\ ClientOpen \in Seq(Items) /\ HostOpen \in Seq(Items) /\ HostOpen' \in Seq(Items)
  <2>1. ClientOpen' = ClientOpen /\ (Reading' <=> Reading) /\ Top' = Top
    BY DEF clientVars, ClientOpen, Reading, Top
  <2>2. ClientOpen \in Seq(Items)
    BY ProgramOpenItems DEF Inv, ClientInv, ClientTypeOK, ClientOpen
  <2>3. HostOpen \in Seq(Items) /\ HostOpen' \in Seq(Items)
    BY HostGoesOn, HostOpenType, HostOpenTypeThen DEF Inv, OpenTyped
  <2> QED BY <2>1, <2>2, <2>3
<1>1. HostEvent /\ ~ eof /\ Agree /\ process = "up"
  BY HostGoesOn, HostIsUp DEF Inv
<1>2. CASE GoesOn
  <2>1. /\ toHost' = toHost /\ toClient' = toClient /\ HostOpen' = HostOpen
        /\ HostBusy' <=> HostBusy
    BY <1>2 DEF GoesOn
  <2>2. CASE toHost = << >> /\ toClient = << >> /\ HostOpen = ClientOpen /\ (Reading <=> HostBusy)
    BY <1>0, <2>1, <2>2 DEF Agree
  <2>3. CASE /\ \E m \in Request \cup Finish : toHost = <<m>> /\ RequestFits(m)
             /\ toClient = << >> /\ Reading /\ ~ HostBusy
    BY <1>0, <2>1, <2>3 DEF Agree, RequestFits
  <2>4. CASE /\ \E m \in Response \cup Callback : toClient = <<m>> /\ AnswerFits(m)
             /\ toHost = << >> /\ Reading /\ ~ HostBusy
    BY <1>0, <2>1, <2>4 DEF Agree, AnswerFits
  <2> QED BY <1>1, <2>2, <2>3, <2>4 DEF Agree
<1>3. CASE Accepts \/ AnswersAtOnce
  <2>1. /\ toHost # << >> /\ Head(toHost).m = "api" /\ toHost' = Tail(toHost)
        /\ Head(toHost) \in Request \cup Finish
        /\ RequestFits(Head(toHost)) /\ toClient = << >> /\ Reading /\ ~ HostBusy
        /\ toHost = <<Head(toHost)>>
    BY <1>1, <1>3, LineUnderWay DEF Accepts, AnswersAtOnce, ReadsApi
  <2>2. toHost' = << >>
    BY <2>1
  <2>3. /\ Head(toHost).rid = Top.rid /\ Head(toHost).rid \in Rids
        /\ ClientOpen = Append(HostOpen, Item("request", Head(toHost).rid))
    BY <2>1, LineFields DEF RequestFits
  <2>4. CASE Accepts
    BY <1>0, <2>1, <2>2, <2>3, <2>4 DEF Accepts, Agree
  <2>5. CASE AnswersAtOnce
    <3>1. PICK m \in Response : toClient' = <<m>> /\ m.m = "response" /\ m.rid = Head(toHost).rid
      BY <2>1, <2>3, <2>5, ResponseFields DEF AnswersAtOnce
    <3>2. HostOpen' = HostOpen /\ ~ HostBusy'
      BY <2>5 DEF AnswersAtOnce
    <3>3. AnswerFits(m)'
      BY <1>0, <2>1, <2>3, <3>1, <3>2 DEF AnswerFits
    <3> QED BY <1>0, <2>1, <2>2, <3>1, <3>2, <3>3 DEF Agree
  <2> QED BY <1>3, <2>4, <2>5
<1>4. ASSUME HostBusy
      PROVE  toHost = << >> /\ toClient = << >> /\ HostOpen = ClientOpen /\ Reading
  BY <1>1, <1>4 DEF Agree
<1>5. CASE Answers
  <2>1. /\ toHost = << >> /\ toClient = << >> /\ HostOpen = ClientOpen /\ Reading
        /\ toHost' = << >> /\ ~ HostBusy'
    BY <1>4, <1>5 DEF Answers
  <2>2. PICK rid \in Rids, ok \in BOOLEAN, ids \in SUBSET Ids :
          /\ Reply(rid, ok, ids)
          /\ HostOpen = Append(HostOpen', Item("request", rid))
    BY <1>5 DEF Answers
  <2>3. PICK m \in Response : toClient' = <<m>> /\ m.m = "response" /\ m.rid = rid
    BY <2>1, <2>2, ResponseFields
  <2>4. /\ ClientOpen = Append(OpenOn(<< >>, Front(cstack)), Item("request", Top.rid))
        /\ OpenOn(<< >>, Front(cstack)) \in Seq(Items) /\ Top \in ClientFrames
    BY <2>1, WhileReading DEF Inv
  <2>5. Item("request", Top.rid) = Item("request", rid)
    <3>1. Item("request", rid) \in Items /\ Item("request", Top.rid) \in Items
      BY <2>4, ClientFrameFields, IsItem DEF Rids
    <3>2. /\ HostOpen' \in Seq(Items) /\ OpenOn(<< >>, Front(cstack)) \in Seq(Items)
          /\ Append(OpenOn(<< >>, Front(cstack)), Item("request", Top.rid))
               = Append(HostOpen', Item("request", rid))
      BY <1>0, <2>1, <2>2, <2>4
    <3> QED BY <3>1, <3>2, AppendInjective
  <2>6. rid = Top.rid
    BY <2>5 DEF Item
  <2>7. AnswerFits(m)'
    BY <1>0, <2>1, <2>2, <2>3, <2>6 DEF AnswerFits
  <2> QED BY <1>0, <2>1, <2>3, <2>7 DEF Agree
<1>6. CASE CallsBack
  <2>1. /\ toHost = << >> /\ toClient = << >> /\ HostOpen = ClientOpen /\ Reading
        /\ toHost' = << >> /\ ~ HostBusy'
        /\ HostOpen' = Append(HostOpen, Item("callback", nextid))
    BY <1>4, <1>6 DEF CallsBack
  <2> DEFINE m == [m |-> "callback", id |-> nextid]
  <2>2. m \in Callback /\ m.m = "callback" /\ m.id = nextid
    BY <1>6 DEF CallsBack, Callback
  <2>3. toClient' = <<m>>
    BY <1>6, <2>1 DEF CallsBack, Write
  <2> HIDE DEF m
  <2>4. \A x : x.m = "callback" /\ x.id = nextid => AnswerFits(x)'
    BY <1>0, <2>1 DEF AnswerFits
  <2> QED BY <1>0, <2>1, <2>2, <2>3, <2>4 DEF Agree
<1>7. CASE IsCompleted
  <2>1. /\ toHost # << >> /\ Head(toHost).m = "complete" /\ toHost' = Tail(toHost)
        /\ HostBusy' /\ toClient' = toClient
    BY <1>7 DEF IsCompleted
  <2>2. /\ toHost = <<Head(toHost)>> /\ toClient = << >> /\ Reading
        /\ Head(toHost) \in Request \cup Finish
        /\ HostOpen = Append(ClientOpen, Item("callback", Head(toHost).id))
    BY <1>1, <2>1, LineUnderWay DEF RequestFits
  <2>3. PICK id \in Ids : HostOpen = Append(HostOpen', Item("callback", id))
    BY <1>7 DEF IsCompleted
  <2>4. HostOpen' = ClientOpen
    <3>1. id \in Nat /\ Head(toHost).id \in Nat
      BY <2>1, <2>2 DEF Ids, Request, Finish
    <3> QED BY <1>0, <2>2, <2>3, <3>1, IsItem, AppendInjective
  <2>5. toHost' = << >>
    <3>1. Tail(<<Head(toHost)>>) = << >>
      OBVIOUS
    <3> QED BY <2>1, <2>2, <3>1
  <2> QED BY <1>0, <2>1, <2>2, <2>4, <2>5 DEF Agree
<1>8. CASE IsInterrupted
  BY <1>1, <1>8 DEF IsInterrupted
<1> QED BY <1>1, <1>2, <1>3, <1>5, <1>6, <1>7, <1>8 DEF HostEvent

LEMMA HostStepKeeps ==
  ASSUME Inv, Orderly, HostStep
  PROVE  Inv'
<1>1. HostNext /\ UNCHANGED clientVars
  BY DEF HostStep
<1>2. HostInv' /\ HostEvent
  BY <1>1, HostGoesOn
<1>3. ClientInv'
  BY <1>1 DEF Inv, ClientInv, ClientTypeOK, NoAsyncInSync, clientVars, Top
<1>4. native' = "up" => Agree' /\ ~ eof'
  BY <1>1, HostKeepsAgreement, HostKeepsEof DEF Inv, clientVars
<1>5. native' = "closed" => toHost' = << >>
  BY <1>1, <1>2 DEF Inv, clientVars, HostEvent, GoesOn, Accepts, AnswersAtOnce, ReadsApi, Answers,
                    CallsBack, IsCompleted, IsInterrupted
<1>6. native' # "failed"
  BY <1>1, HostIsUp DEF Inv, clientVars
<1> QED BY <1>2, <1>3, <1>4, <1>5, <1>6 DEF Inv

-----------------------------------------------------------------------------
(***************************************************************************)
(* All that a step of the program does to the line under way.              *)
(***************************************************************************)
Asks(rid) ==
  /\ toHost = << >> /\ ~ HostBusy
  /\ \E m \in Request : m.rid = rid /\ toHost' = <<m>>
CompletesCallback ==
  /\ toHost = << >> /\ ~ HostBusy
  /\ \E m \in Finish, open \in Seq(Items) :
       toHost' = <<m>> /\ HostOpen = Append(open, Item("callback", m.id))
ClientEvent(rid) == Asks(rid) \/ CompletesCallback \/ UNCHANGED toHost

(* The program has the turn, and goes on upon the frames s.                *)
ItsTurn(s) == s \in Seq(ClientFrames) /\ ProgramShape(s) /\ OpenOn(<< >>, s) = HostOpen
KeepsTurn ==
  /\ native = "up" /\ native' = "up" /\ eof' = eof /\ calls' \in 0 .. MaxCalls
  /\ toHost = << >> /\ toClient' = << >> /\ ~ HostBusy
  /\ UNCHANGED hostVars

LEMMA ProgramInvThen ==
  ASSUME cstack' \in Seq(ClientFrames), ProgramShape(cstack'), calls' \in 0 .. MaxCalls,
         native' \in {"up", "closed", "failed"},
         native' = "up" /\ cstack' # << >> => Last(cstack').k # "async"
  PROVE  ClientInv'
BY DEF ClientInv, ClientTypeOK, ProgramShape, NoAsyncInSync, NoAsyncAbove, SyncHandler, Top

LEMMA AskKeeps ==
  ASSUME Inv, KeepsTurn, NEW s, ItsTurn(s), NEW op \in Api, NEW rid \in Rids,
         NEW id \in Ids \cup {0}, NEW err \in BOOLEAN, Send(s, op, rid, id, err),
         s = << >> => op \in {"sync", "create", "load"},
         s # << >> => \/ Last(s).k = "handler" /\ op \in {"sync", "create", "load"}
                      \/ /\ Last(s).k = "async" /\ op \in {"begin", "callbacks", "complete", "end"}
                         /\ op # "complete" => Last(s).todo = {},
         op = "complete" => id \in Ids
  PROVE  Inv' /\ ClientEvent(rid)
<1> DEFINE m == [m |-> "api", op |-> op, rid |-> rid, id |-> id, err |-> err]
           f == CallFrame(op, rid, id, err)
<1>1. m \in Request /\ m.m = "api" /\ m.rid = rid /\ m.op = op /\ m.id = id /\ m.err = err
  BY DEF Request
<1>2. f \in ClientFrames /\ f.k = "call" /\ f.op = op /\ f.rid = rid /\ f.id = id /\ f.err = err
  BY ClientFramesBuilt DEF CallFrame
<1>3. toHost' = <<m>> /\ cstack' = Append(s, f)
  BY DEF Send, KeepsTurn
<1> HIDE DEF m, f
<1>4. WireTypeOK' /\ toClient' = << >>
  BY <1>1, <1>3 DEF KeepsTurn, WireTypeOK, Inv, HostInv, ProcessTypeOK
<1>5. HostInv' /\ HostOpen' = HostOpen /\ ~ HostBusy'
  BY <1>4, HostInvKept DEF KeepsTurn, Inv
<1>6. s = << >> => f \in ClientBottoms
  BY <1>2 DEF ClientBottoms, Plain
<1>7. s # << >> => <<Last(s), f>> \in ClientLinks
  BY <1>2, FrontLast DEF ClientLinks, Plain, Step, ItsTurn
<1>8. /\ cstack' \in Seq(ClientFrames) /\ ProgramShape(cstack')
      /\ cstack' # << >> /\ Last(cstack') = f
      /\ OpenOn(<< >>, cstack') = Append(HostOpen, Item("request", rid))
  BY <1>2, <1>3, <1>6, <1>7, ProgramAppend, AppendedFront, OpenOnAppend, ClientFrameItems
     DEF ItsTurn
<1>9. ClientInv'
  BY <1>2, <1>8, ProgramInvThen DEF KeepsTurn
<1>10. Reading' /\ Top' = f
  BY <1>2, <1>8 DEF Reading, Top, KeepsTurn
<1>11. RequestFits(m)'
  BY <1>1, <1>2, <1>5, <1>8, <1>10, ClientOpenBecomes DEF RequestFits
<1>12. Agree'
  BY <1>1, <1>3, <1>4, <1>5, <1>10, <1>11 DEF Agree
<1>13. Inv'
  BY <1>5, <1>9, <1>12 DEF Inv, KeepsTurn
<1>14. ClientEvent(rid)
  BY <1>1, <1>3 DEF ClientEvent, Asks, KeepsTurn
<1> QED BY <1>13, <1>14

LEMMA ComeBackKeeps ==
  ASSUME Inv, KeepsTurn, NEW s, ItsTurn(s), s # << >> => Last(s).k = "handler",
         cstack' = s, toHost' = toHost, NEW rid
  PROVE  Inv' /\ ClientEvent(rid)
<1>1. WireTypeOK' /\ toClient' = << >> /\ toHost' = << >>
  BY DEF KeepsTurn, WireTypeOK, Inv, HostInv, ProcessTypeOK
<1>2. HostInv' /\ HostOpen' = HostOpen /\ ~ HostBusy'
  BY <1>1, HostInvKept DEF KeepsTurn, Inv
<1>3. ClientInv'
  BY ProgramInvThen DEF KeepsTurn, ItsTurn
<1>4. ~ Reading'
  BY DEF Reading, Top
<1>5. Agree'
  BY <1>1, <1>2, <1>4, ClientOpenBecomes DEF Agree, ItsTurn
<1>6. Inv'
  BY <1>2, <1>3, <1>5 DEF Inv, KeepsTurn
<1> QED BY <1>6 DEF ClientEvent

LEMMA NextPendingKeeps ==
  ASSUME Inv, KeepsTurn, NEW s, ItsTurn(s), s # << >>, Last(s).k = "async",
         NEW p \in Ids \cup {0}, NEW todo \in SUBSET Ids, NEW rid \in Rids,
         NextPending(Front(s), p, todo, rid)
  PROVE  Inv' /\ ClientEvent(rid)
<1>1. CASE todo = {}
  <2> DEFINE t == Append(Front(s), AsyncFrame(p, {}))
  <2>1. ItsTurn(t)
    BY ReplaceAsync, {} \in SUBSET Ids DEF ItsTurn
  <2>2. t # << >> /\ Last(t).k = "async" /\ Last(t).todo = {}
    <3>1. /\ AsyncFrame(p, {}) \in ClientFrames /\ AsyncFrame(p, {}).k = "async"
          /\ AsyncFrame(p, {}).todo = {}
      BY ClientFramesBuilt, {} \in SUBSET Ids DEF AsyncFrame
    <3>2. Front(s) \in Seq(ClientFrames)
      BY FrontLast DEF ItsTurn
    <3>3. t # << >> /\ Last(t) = AsyncFrame(p, {})
      BY <3>1, <3>2, AppendedFront
    <3> QED BY <3>1, <3>3
  <2>3. Send(t, "callbacks", rid, 0, FALSE)
    BY <1>1 DEF NextPending
  <2>4. "callbacks" \in Api /\ 0 \in Ids \cup {0} /\ FALSE \in BOOLEAN
    BY DEF Api
  <2> HIDE DEF t
  <2> QED BY <2>1, <2>2, <2>3, <2>4, AskKeeps
<1>2. CASE todo # {}
  <2> DEFINE rest == todo \ {Min(todo)}
             f == AsyncFrame(p, rest)
             h == HandlerFrame(Min(todo), "callbacks")
             t == Append(Front(s), f)
  <2>1. Min(todo) \in todo
    <3>0. todo \subseteq Nat
      BY DEF Ids
    <3>1. \E n \in todo : \A k \in todo : n <= k
      BY <1>2, <3>0, LeastNumber
    <3> QED BY <3>1 DEF Min
  <2>2. rest \in SUBSET Ids /\ Min(todo) \in Ids
    BY <2>1
  <2> HIDE DEF rest
  <2>3. f \in ClientFrames /\ f.k = "async" /\ h \in ClientFrames /\ h.k = "handler"
        /\ h.op = "callbacks"
    BY <2>2, ClientFramesBuilt DEF AsyncFrame, HandlerFrame
  <2>4. /\ t \in Seq(ClientFrames) /\ ProgramShape(t) /\ OpenOn(<< >>, t) = HostOpen
        /\ t # << >> /\ Last(t) = f
    <3>1. Front(s) \in Seq(ClientFrames)
      BY FrontLast DEF ItsTurn
    <3> QED BY <2>2, <2>3, <3>1, ReplaceAsync, AppendedFront DEF ItsTurn
  <2>5. cstack' = Front(s) \o <<f, h>> /\ toHost' = toHost
    BY <1>2 DEF NextPending, rest
  <2>6. Front(s) \o <<f, h>> = Append(t, h)
    <3>1. Front(s) \in Seq(ClientFrames)
      BY FrontLast DEF ItsTurn
    <3> HIDE DEF f, h
    <3> QED BY <2>3, <3>1, ConcatTwo
  <2> HIDE DEF f, h, t
  <2>7. ProgramShape(Append(t, h)) /\ Append(t, h) \in Seq(ClientFrames)
    <3>1. <<Last(t), h>> \in ClientLinks
      BY <2>3, <2>4 DEF ClientLinks
    <3> QED BY <2>3, <2>4, <3>1, ProgramAppend
  <2>8. OpenOn(<< >>, Append(t, h)) = HostOpen
    BY <2>3, <2>4, OpenOnAppend, ClientFrameItems
  <2>9. Last(Append(t, h)) = h
    BY <2>3, <2>4, AppendedFront
  <2> QED BY <2>3, <2>5, <2>6, <2>7, <2>8, <2>9, ComeBackKeeps DEF ItsTurn
<1> QED BY <1>1, <1>2

(* A program that runs its own code has the turn.                          *)
LEMMA InProgramTurn ==
  ASSUME Inv, InProgram
  PROVE  /\ toHost = << >> /\ toClient = << >> /\ ~ HostBusy /\ native = "up"
         /\ ItsTurn(cstack) /\ (cstack # << >> => Last(cstack).k = "handler")
<1>1. ~ Reading /\ native = "up" /\ (cstack # << >> => Last(cstack).k = "handler")
  BY DEF InProgram, Reading, Top
<1>2. toHost = << >> /\ toClient = << >> /\ HostOpen = ClientOpen /\ ~ HostBusy
  BY <1>1 DEF Inv, Agree
<1>3. ItsTurn(cstack)
  BY <1>2, ProgramShapeIs DEF ItsTurn, Inv, ClientInv, ClientTypeOK, ClientOpen
<1> QED BY <1>1, <1>2, <1>3

(* So has a program that has read a response, upon the caller's frames.    *)
LEMMA ResponseTurn ==
  ASSUME Inv, Reading, toClient # << >>, Head(toClient).m = "response"
  PROVE  /\ toHost = << >> /\ Tail(toClient) = << >> /\ ~ HostBusy
         /\ Head(toClient).ok \in BOOLEAN /\ Head(toClient).ids \in SUBSET Ids
         /\ ItsTurn(Front(cstack))
<1>1. PICK m \in Response \cup Callback : toClient = <<m>> /\ AnswerFits(m)
  BY DEF Inv, Agree, Reading
<1>2. toHost = << >> /\ ~ HostBusy
  BY DEF Inv, Agree, Reading
<1>3. Head(toClient) = m /\ Tail(toClient) = << >>
  BY <1>1
<1>4. /\ m.m = "response" /\ m.ok \in BOOLEAN /\ m.ids \in SUBSET Ids /\ m.rid \in Rids
      /\ m.rid = Top.rid /\ ClientOpen = Append(HostOpen, Item("request", m.rid))
  BY <1>1, <1>3 DEF Response, Callback, AnswerFits
<1>5. /\ Front(cstack) \in Seq(ClientFrames) /\ ProgramShape(Front(cstack))
      /\ OpenOn(<< >>, Front(cstack)) \in Seq(Items)
      /\ ClientOpen = Append(OpenOn(<< >>, Front(cstack)), Item("request", Top.rid))
  BY WhileReading DEF Inv
<1>6. HostOpen \in Seq(Items) /\ Item("request", m.rid) \in Items
  BY <1>4, HostOpenType, IsItem DEF Inv, OpenTyped, Rids
<1>7. OpenOn(<< >>, Front(cstack)) = HostOpen
  <2>1. /\ Append(HostOpen, Item("request", m.rid))
             = Append(OpenOn(<< >>, Front(cstack)), Item("request", m.rid))
    BY <1>4, <1>5
  <2> QED BY <1>5, <1>6, <2>1, AppendInjective
<1> QED BY <1>2, <1>3, <1>4, <1>5, <1>7 DEF ItsTurn

LEMMA StartKeeps ==
  ASSUME Inv, NEW rid \in Rids, UNCHANGED hostVars, StartCall(rid) \/ StartAsyncCall(rid)
  PROVE  Inv' /\ ClientEvent(rid)
<1>1. InProgram /\ calls < MaxCalls /\ calls' = calls + 1
      /\ toClient' = toClient /\ eof' = eof /\ native' = native
  BY DEF StartCall, StartAsyncCall
<1>2. /\ toHost = << >> /\ toClient = << >> /\ ~ HostBusy /\ native = "up"
      /\ ItsTurn(cstack) /\ (cstack # << >> => Last(cstack).k = "handler")
  BY <1>1, InProgramTurn
<1>3. KeepsTurn
  <2>1. calls' \in 0 .. MaxCalls
    BY <1>1, MaxCallsAssumption DEF Inv, ClientInv, ClientTypeOK
  <2> QED BY <1>1, <1>2, <2>1 DEF KeepsTurn
<1>4. 0 \in Ids \cup {0} /\ FALSE \in BOOLEAN /\ {"sync", "create", "load", "begin"} \subseteq Api
  BY DEF Api, SyncApi, AsyncApi
<1>5. CASE StartCall(rid)
  <2>1. PICK op \in {"sync", "create", "load"} : Send(cstack, op, rid, 0, FALSE)
    BY <1>5 DEF StartCall
  <2> QED BY <1>2, <1>3, <1>4, <2>1, AskKeeps
<1>6. CASE StartAsyncCall(rid)
  <2> DEFINE f == AsyncFrame(0, {})
             s == Append(cstack, f)
  <2>1. Send(s, "begin", rid, 0, FALSE) /\ (InSyncOverride => "nestedAsync" \in Native)
    BY <1>6 DEF StartAsyncCall
  <2>2. f \in ClientFrames /\ f.k = "async" /\ f.todo = {}
    BY <1>4, ClientFramesBuilt, {} \in SUBSET Ids DEF AsyncFrame
  <2> HIDE DEF f
  <2>3. cstack \in Seq(ClientFrames) /\ ProgramShape(cstack)
    BY <1>2 DEF ItsTurn
  <2>4. cstack = << >> => f \in ClientBottoms
    BY <2>2 DEF ClientBottoms
  <2>5. cstack # << >> => <<Last(cstack), f>> \in ClientLinks
    BY <1>2, <2>2, <2>3, FrontLast DEF ClientLinks
  <2>6. "nestedAsync" \notin Native => \A i \in DOMAIN cstack : ~ SyncHandler(cstack[i])
    BY <2>1 DEF InSyncOverride, SyncHandler
  <2>7. s \in Seq(ClientFrames) /\ ProgramShape(s)
    BY <2>2, <2>3, <2>4, <2>5, <2>6, ProgramAppend
  <2>8. OpenOn(<< >>, s) = HostOpen
    BY <1>2, <2>2, <2>3, OpenOnAppend, ClientFrameItems DEF ItsTurn
  <2>9. s # << >> /\ Last(s) = f
    BY <2>2, <2>3, AppendedFront
  <2>10. ItsTurn(s) /\ (s # << >> => Last(s).k = "async" /\ Last(s).todo = {})
    BY <2>2, <2>7, <2>8, <2>9 DEF ItsTurn
  <2> HIDE DEF s
  <2> QED BY <1>3, <1>4, <2>1, <2>9, <2>10, AskKeeps
<1> QED BY <1>5, <1>6

LEMMA ResponseKeeps ==
  ASSUME Inv, NEW rid \in Rids, UNCHANGED hostVars, ReadResponse(rid)
  PROVE  Inv' /\ ClientEvent(rid)
<1> DEFINE res == Head(toClient)
           below == Front(cstack)
<1>1. /\ Reading /\ toClient # << >> /\ res.m = "response" /\ toClient' = Tail(toClient)
      /\ Continue(res, rid) /\ eof' = eof /\ calls' = calls /\ native' = native
  BY DEF ReadResponse
<1>2. /\ toHost = << >> /\ Tail(toClient) = << >> /\ ~ HostBusy
      /\ res.ok \in BOOLEAN /\ res.ids \in SUBSET Ids /\ ItsTurn(below)
  BY <1>1, ResponseTurn
<1>3. KeepsTurn
  BY <1>1, <1>2 DEF KeepsTurn, Reading, Inv, ClientInv, ClientTypeOK
<1>4. /\ cstack # << >> /\ Top \in ClientFrames
      /\ \/ /\ Top.op \in {"sync", "create", "load"}
            /\ below # << >> => Last(below).k = "handler"
         \/ /\ Top.op \in {"begin", "callbacks", "complete", "end"}
            /\ below # << >> /\ Last(below).k = "async"
            /\ Top.op # "complete" => Last(below).todo = {}
      /\ Top.op = "complete" => Top.id \in Ids
  BY <1>1, WhileReading DEF Inv
<1> HIDE DEF res, below
<1>5. CASE Top.op \in {"sync", "create", "load"}
  <2>1. cstack' = below /\ toHost' = toHost
    BY <1>1, <1>5 DEF Continue, below
  <2> QED BY <1>2, <1>3, <1>4, <1>5, <2>1, ComeBackKeeps
<1>6. CASE Top.op \in {"begin", "callbacks", "complete", "end"}
  <2> DEFINE caller == Last(below)
  <2>1. below # << >> /\ caller.k = "async" /\ below \in Seq(ClientFrames) /\ ProgramShape(below)
    BY <1>2, <1>4, <1>6 DEF ItsTurn
  <2>2. /\ caller \in ClientFrames /\ Front(below) \in Seq(ClientFrames) /\ ProgramShape(Front(below))
        /\ Front(below) = << >> => caller \in ClientBottoms
        /\ Front(below) # << >> => <<Last(Front(below)), caller>> \in ClientLinks
    BY <2>1, ProgramFront
  <2>3. /\ caller.id \in Ids \cup {0} /\ caller.todo \in SUBSET Ids
        /\ Top.id \in Ids \cup {0} /\ {} \in SUBSET Ids
    BY <1>4, <2>2, ClientFrameFields
  <2>4. {"end", "complete"} \subseteq Api /\ FALSE \in BOOLEAN /\ TRUE \in BOOLEAN
    BY DEF Api, AsyncApi
  <2>5. ASSUME NEW p \in Ids \cup {0}, NEW todo \in SUBSET Ids,
               NextPending(Front(below), p, todo, rid)
        PROVE  Inv' /\ ClientEvent(rid)
    BY <1>2, <1>3, <2>1, <2>5, NextPendingKeeps
  <2>6. ASSUME NEW op \in {"end", "complete"}, NEW id \in Ids \cup {0}, NEW err \in BOOLEAN,
               Send(below, op, rid, id, err),
               op = "complete" => id \in Ids, op # "complete" => caller.todo = {}
        PROVE  Inv' /\ ClientEvent(rid)
    <3>1. /\ op \in Api /\ below # << >>
          /\ \/ Last(below).k = "handler" /\ op \in {"sync", "create", "load"}
             \/ /\ Last(below).k = "async" /\ op \in {"begin", "callbacks", "complete", "end"}
                /\ op # "complete" => Last(below).todo = {}
      BY <2>1, <2>4, <2>6
    <3>2. Send(below, op, rid, id, err) /\ (op = "complete" => id \in Ids)
      BY <2>6
    <3> QED BY <1>2, <1>3, <3>1, <3>2, AskKeeps
  <2>7. ASSUME cstack' = Front(below), toHost' = toHost
        PROVE  Inv' /\ ClientEvent(rid)
    <3>1. Front(below) # << >> => Last(Front(below)).k = "handler"
      BY <2>1, <2>2 DEF ClientLinks, Step, Plain
    <3>2. OpenOn(<< >>, Front(below)) = HostOpen
      BY <1>2, <2>1, <2>3, ReplaceAsync DEF ItsTurn
    <3> QED BY <1>3, <2>2, <2>7, <3>1, <3>2, ComeBackKeeps DEF ItsTurn
  <2>8. CASE Top.op = "begin" /\ res.ok
    <3>1. PICK p \in res.ids : NextPending(Front(below), p, {}, rid)
      BY <1>1, <2>8 DEF Continue, below
    <3> QED BY <1>2, <2>3, <2>5, <3>1
  <2>9. CASE Top.op = "callbacks"
    <3>1. CASE res.ids = {}
      <4>1. Send(below, "end", rid, caller.id, FALSE)
        BY <1>1, <2>9, <3>1 DEF Continue, below
      <4> QED BY <1>4, <2>3, <2>4, <2>6, <2>9, <4>1
    <3>2. CASE res.ids # {}
      <4>1. NextPending(Front(below), caller.id, res.ids, rid)
        BY <1>1, <2>9, <3>2 DEF Continue, below
      <4> QED BY <1>2, <2>3, <2>5, <4>1
    <3> QED BY <3>1, <3>2
  <2>10. CASE Top.op = "complete" /\ res.ok
    <3>1. NextPending(Front(below), caller.id, caller.todo, rid)
      BY <1>1, <2>10 DEF Continue, below
    <3> QED BY <2>3, <2>5, <3>1
  <2>11. CASE Top.op = "complete" /\ ~ res.ok /\ ~ Top.err
    <3>1. Send(below, "complete", rid, Top.id, TRUE)
      BY <1>1, <2>11 DEF Continue, below
    <3> QED BY <1>4, <2>3, <2>4, <2>6, <2>11, <3>1
  <2>12. CASE \/ Top.op = "begin" /\ ~ res.ok
              \/ Top.op = "complete" /\ ~ res.ok /\ Top.err
              \/ Top.op = "end"
    <3>1. cstack' = Front(below) /\ toHost' = toHost
      BY <1>1, <2>12 DEF Continue, below
    <3> QED BY <2>7, <3>1
  <2> QED BY <1>6, <2>8, <2>9, <2>10, <2>11, <2>12
<1> QED BY <1>4, <1>5, <1>6

LEMMA CallbackKeeps ==
  ASSUME Inv, NEW rid \in Rids, UNCHANGED hostVars, ReadCallback
  PROVE  Inv' /\ ClientEvent(rid)
<1>1. /\ Reading /\ toClient # << >> /\ Head(toClient).m = "callback"
      /\ toClient' = Tail(toClient) /\ toHost' = toHost /\ eof' = eof
      /\ calls' = calls /\ native' = native
      /\ cstack' = Append(cstack, HandlerFrame(Head(toClient).id, "sync"))
  BY DEF ReadCallback
<1>2. PICK m \in Response \cup Callback : toClient = <<m>> /\ AnswerFits(m)
  BY <1>1 DEF Inv, Agree, Reading
<1>3. Head(toClient) = m /\ Tail(toClient) = << >>
  BY <1>2
<1>4. toHost = << >> /\ ~ HostBusy /\ native = "up"
  BY <1>1 DEF Inv, Agree, Reading
<1>5. m.id \in Ids /\ HostOpen = Append(ClientOpen, Item("callback", m.id))
  BY <1>1, <1>2, <1>3 DEF AnswerFits, Response, Callback
<1>6. KeepsTurn
  BY <1>1, <1>3, <1>4 DEF KeepsTurn, Inv, ClientInv, ClientTypeOK
<1> DEFINE f == HandlerFrame(m.id, "sync")
<1>7. f \in ClientFrames /\ f.k = "handler" /\ f.op = "sync" /\ f.id = m.id
  <2>1. m.id \in Ids
    BY <1>5
  <2> QED BY <2>1, ClientFramesBuilt DEF HandlerFrame
<1>8. cstack' = Append(cstack, f)
  BY <1>1, <1>3
<1> HIDE DEF f
<1>9. /\ cstack \in Seq(ClientFrames) /\ cstack # << >> /\ Last(cstack) \in ClientFrames
      /\ Last(cstack).k = "call" /\ ProgramShape(cstack)
  BY <1>1, WhileReading, ProgramShapeIs DEF Inv, Reading, Top
<1>10. <<Last(cstack), f>> \in ClientLinks
  BY <1>7, <1>9 DEF ClientLinks
<1>11. Append(cstack, f) \in Seq(ClientFrames) /\ ProgramShape(Append(cstack, f))
  BY <1>7, <1>9, <1>10, ProgramAppend
<1>12. OpenOn(<< >>, Append(cstack, f)) = HostOpen
  BY <1>5, <1>7, <1>9, OpenOnAppend, ClientFrameItems DEF ClientOpen
<1>13. Last(Append(cstack, f)).k = "handler"
  BY <1>7, <1>9, AppendedFront
<1> QED BY <1>1, <1>6, <1>8, <1>11, <1>12, <1>13, ComeBackKeeps DEF ItsTurn

LEMMA FinishSyncKeeps ==
  ASSUME Inv, NEW rid \in Rids, UNCHANGED hostVars, FinishSync
  PROVE  Inv' /\ ClientEvent(rid)
<1>1. /\ InProgram /\ cstack # << >> /\ Top.op = "sync"
      /\ toHost' = Append(toHost, [m |-> "complete", id |-> Top.id])
      /\ cstack' = Front(cstack) /\ toClient' = toClient /\ eof' = eof
      /\ calls' = calls /\ native' = native
  BY DEF FinishSync
<1>2. /\ toHost = << >> /\ toClient = << >> /\ ~ HostBusy /\ native = "up"
      /\ ItsTurn(cstack) /\ Top.k = "handler"
  BY <1>1, InProgramTurn DEF Top
<1>3. /\ cstack \in Seq(ClientFrames) /\ Front(cstack) \in Seq(ClientFrames) /\ Top \in ClientFrames
      /\ ProgramShape(Front(cstack))
      /\ Front(cstack) = << >> => Top \in ClientBottoms
      /\ Front(cstack) # << >> => <<Last(Front(cstack)), Top>> \in ClientLinks
  BY <1>1, <1>2, ProgramFront DEF ItsTurn, Top
<1>4. Front(cstack) # << >> /\ Last(Front(cstack)).k = "call"
  BY <1>1, <1>2, <1>3 DEF ClientBottoms, ClientLinks, Plain, Step
<1>5. HostOpen = Append(OpenOn(<< >>, Front(cstack)), Item("callback", Top.id))
  BY <1>1, <1>2, <1>3, OpenOnTop, ClientFrameItems DEF ItsTurn, Top
<1>6. OpenOn(<< >>, Front(cstack)) \in Seq(Items) /\ HostOpen \in Seq(Items)
  BY <1>3, ProgramOpenItems, HostOpenType DEF Inv, OpenTyped
<1>7. Top.id \in Ids
  <2>1. hstack # << >> /\ Last(hstack).k = "cb" /\ Last(hstack).id = Top.id
    BY <1>2, <1>3, <1>5, <1>6, HandlerWaits, ClientFrameFields DEF Inv
  <2>2. Last(hstack) \in Frames
    BY <2>1, HostTop DEF Inv
  <2> QED BY <2>1, <2>2, FrameFields
<1>8. PICK m \in Finish : m.m = "complete" /\ m.id = Top.id /\ toHost' = <<m>>
  <2>1. [m |-> "complete", id |-> Top.id] \in Finish
    BY <1>7 DEF Finish
  <2> QED BY <1>1, <1>2, <2>1
<1>9. WireTypeOK' /\ toClient' = << >>
  BY <1>1, <1>2, <1>8 DEF WireTypeOK, Inv, HostInv, ProcessTypeOK
<1>10. HostInv' /\ HostOpen' = HostOpen /\ ~ HostBusy'
  BY <1>2, <1>9, HostInvKept DEF Inv
<1>11. ClientInv'
  BY <1>1, <1>2, <1>3, <1>4, ProgramInvThen DEF Inv, ClientInv, ClientTypeOK
<1>12. Reading'
  BY <1>1, <1>2, <1>4 DEF Reading, Top
<1>13. RequestFits(m)'
  BY <1>1, <1>5, <1>8, <1>10, ClientOpenBecomes DEF RequestFits
<1>14. Agree'
  BY <1>8, <1>9, <1>10, <1>12, <1>13 DEF Agree
<1>15. Inv'
  BY <1>1, <1>2, <1>10, <1>11, <1>14 DEF Inv
<1>16. CompletesCallback
  BY <1>2, <1>5, <1>6, <1>8 DEF CompletesCallback
<1> QED BY <1>15, <1>16 DEF ClientEvent

LEMMA FinishAsyncKeeps ==
  ASSUME Inv, NEW rid \in Rids, UNCHANGED hostVars, FinishAsync(rid)
  PROVE  Inv' /\ ClientEvent(rid)
<1> DEFINE below == Front(cstack)
<1>1. /\ InProgram /\ cstack # << >> /\ Top.op = "callbacks"
      /\ toClient' = toClient /\ eof' = eof /\ calls' = calls /\ native' = native
  BY DEF FinishAsync
<1>2. /\ toHost = << >> /\ toClient = << >> /\ ~ HostBusy /\ native = "up"
      /\ ItsTurn(cstack) /\ Top.k = "handler"
  BY <1>1, InProgramTurn DEF Top
<1>3. /\ cstack \in Seq(ClientFrames) /\ below \in Seq(ClientFrames) /\ Top \in ClientFrames
      /\ ProgramShape(below)
      /\ below = << >> => Top \in ClientBottoms
      /\ below # << >> => <<Last(below), Top>> \in ClientLinks
  BY <1>1, <1>2, ProgramFront DEF ItsTurn, Top
<1>4. below # << >> /\ Last(below).k = "async"
  BY <1>1, <1>2, <1>3 DEF ClientBottoms, ClientLinks, Plain, Step
<1>5. OpenOn(<< >>, below) = HostOpen
  BY <1>1, <1>2, <1>3, OpenOnTop, ClientFrameItems DEF ItsTurn, Top
<1>6. ItsTurn(below)
  BY <1>3, <1>5 DEF ItsTurn
<1>7. KeepsTurn
  BY <1>1, <1>2 DEF KeepsTurn, Inv, ClientInv, ClientTypeOK
<1>8. Top.id \in Ids /\ "complete" \in Api
  BY <1>2, <1>3, ClientFrameFields DEF Api, AsyncApi
<1>9. \/ \E err \in BOOLEAN : Send(below, "complete", rid, Top.id, err)
      \/ cstack' = Front(below) /\ toHost' = toHost
  BY DEF FinishAsync
<1> HIDE DEF below
<1>10. CASE \E err \in BOOLEAN : Send(below, "complete", rid, Top.id, err)
  BY <1>4, <1>6, <1>7, <1>8, <1>10, AskKeeps
<1>11. CASE cstack' = Front(below) /\ toHost' = toHost
  <2>1. /\ Last(below) \in ClientFrames /\ Front(below) \in Seq(ClientFrames)
        /\ ProgramShape(Front(below))
        /\ Front(below) # << >> => <<Last(Front(below)), Last(below)>> \in ClientLinks
    BY <1>3, <1>4, ProgramFront
  <2>2. Front(below) # << >> => Last(Front(below)).k = "handler"
    BY <1>4, <2>1 DEF ClientLinks, Step, Plain
  <2>3. 0 \in Ids \cup {0} /\ {} \in SUBSET Ids
    OBVIOUS
  <2>4. OpenOn(<< >>, Front(below)) = HostOpen
    BY <1>3, <1>4, <1>5, <2>3, ReplaceAsync
  <2> QED BY <1>7, <1>11, <2>1, <2>2, <2>4, ComeBackKeeps DEF ItsTurn
<1> QED BY <1>9, <1>10, <1>11

LEMMA ExitKeeps ==
  ASSUME Inv, NEW rid \in Rids, UNCHANGED hostVars, Exit
  PROVE  Inv' /\ ClientEvent(rid)
<1>1. /\ InProgram /\ native' = "closed" /\ eof' = TRUE /\ toHost' = toHost
      /\ toClient' = toClient /\ cstack' = cstack /\ calls' = calls
  BY DEF Exit
<1>2. toHost = << >>
  BY <1>1, InProgramTurn
<1>3. WireTypeOK'
  BY <1>1 DEF WireTypeOK, Inv, HostInv, ProcessTypeOK
<1>4. HostInv'
  BY <1>3, HostInvKept DEF Inv
<1>5. ClientInv'
  BY <1>1 DEF Inv, ClientInv, ClientTypeOK, NoAsyncInSync
<1> QED BY <1>1, <1>2, <1>4, <1>5 DEF Inv, ClientEvent

LEMMA ProgramKeeps ==
  ASSUME Inv, NEW rid \in Rids, UNCHANGED hostVars, ClientNext(rid)
  PROVE  Inv' /\ ClientEvent(rid)
BY StartKeeps, ResponseKeeps, CallbackKeeps, FinishSyncKeeps, FinishAsyncKeeps, ExitKeeps
   DEF ClientNext, ClientProgress

-----------------------------------------------------------------------------
(* The runtime is gone; the program finds out when it reads.               *)
LEMMA ReadClosedKeeps ==
  ASSUME Inv, UNCHANGED hostVars, ReadClosed
  PROVE  Inv'
<1>1. /\ process' # "up" /\ native' = "failed" /\ cstack' = << >> /\ calls' = calls
      /\ UNCHANGED wireVars
  BY DEF ReadClosed, hostVars, loopVars
<1>2. HostInv'
  BY <1>1, HostInvKept DEF Inv, HostInv, ProcessTypeOK, WireTypeOK, wireVars
<1>3. << >> \in Seq(ClientFrames) /\ ProgramShape(<< >>)
  BY EmptySeq, LinkedNone DEF ProgramShape, NoAsyncAbove
<1>4. ClientInv'
  BY <1>1, <1>3, ProgramInvThen DEF Inv, ClientInv, ClientTypeOK
<1> QED BY <1>1, <1>2, <1>4 DEF Inv

LEMMA DeathKeeps ==
  ASSUME Inv, RuntimeDies \/ UNCHANGED vars
  PROVE  Inv'
<1>1. /\ UNCHANGED <<wireVars, clientVars, hstack, imm, pendingEnd, kernelVars>>
      /\ process' = process \/ process' = "crashed"
  BY DEF RuntimeDies, vars, hostVars, loopVars
<1>2. HostInv'
  BY <1>1 DEF Inv, HostInv, ProcessTypeOK, HostTypeOK, WireTypeOK, OneDriver, RunningIdsInv,
              TaskInv, Promised, wireVars, kernelVars
<1>3. ClientInv' /\ ClientOpen' = ClientOpen /\ (Reading' <=> Reading) /\ Top' = Top
  BY <1>1 DEF Inv, ClientInv, ClientTypeOK, NoAsyncInSync, clientVars, Top, Reading, ClientOpen
<1>4. HostOpen' = HostOpen /\ (HostBusy' <=> HostBusy)
  BY <1>1 DEF HostOpen, HostBusy, Deferred
<1>5. Agree => Agree'
  BY <1>1, <1>3, <1>4 DEF Agree, RequestFits, AnswerFits, wireVars
<1> QED BY <1>1, <1>2, <1>3, <1>5 DEF Inv, wireVars, clientVars

LEMMA InvInit == Init => Inv
<1> SUFFICES ASSUME Init PROVE Inv
  OBVIOUS
<1>1. /\ toHost = << >> /\ toClient = << >> /\ eof = FALSE
      /\ cstack = << >> /\ calls = 0 /\ native = "up"
      /\ HostInit
  BY DEF Init, WireInit, ClientInit
<1>2. hstack = << >> /\ imm = <<RunNext>> /\ pendingEnd = {} /\ Deferred = {}
  BY <1>1, DeferredIs, DeferredNone DEF HostInit
<1>3. HostOpen = << >> /\ ClientOpen = << >> /\ ~ HostBusy /\ ~ Reading
  BY <1>1, <1>2, HostOpenIs, BaseNone, OpenOnNone DEF ClientOpen, HostBusy, Reading
<1>4. HostInv
  <2>1. ProcessTypeOK
    BY InitType DEF ProcessInit, Init
  <2>2. OneDriver
    <3>1. Len(imm) = 1
      BY <1>2
    <3> QED BY <1>2, <3>1 DEF OneDriver
  <2>3. \A p \in Ids : promises[p] = "none"
    BY <1>1 DEF HostInit
  <2> QED BY <1>2, <2>1, <2>2, <2>3, LinkedNone DEF HostInv, RunningIdsInv, TaskInv
<1>5. ClientInv
  <2>1. << >> \in Seq(ClientFrames) /\ 0 \in 0 .. MaxCalls
    BY EmptySeq, MaxCallsAssumption
  <2> QED BY <1>1, <2>1, LinkedNone DEF ClientInv, ClientTypeOK, NoAsyncInSync
<1> QED BY <1>1, <1>3, <1>4, <1>5 DEF Inv, Agree

LEMMA InvStep ==
  ASSUME Inv, Orderly, [Next]_vars
  PROVE  Inv'
<1>1. CASE ClientStep
  <2>1. CASE ReadClosed /\ UNCHANGED hostVars
    BY <2>1, ReadClosedKeeps
  <2>2. CASE \E rid \in Rids : FreshRid(rid) /\ ClientNext(rid) /\ UNCHANGED hostVars
    BY <2>2, ProgramKeeps
  <2> QED BY <1>1, <2>1, <2>2 DEF ClientStep
<1>2. CASE HostStep
  BY <1>2, HostStepKeeps
<1>3. CASE RuntimeDies \/ UNCHANGED vars
  BY <1>3, DeathKeeps
<1> QED BY <1>1, <1>2, <1>3 DEF Next

(* Both ends always agree on what is open, and every answer reaches the    *)
(* call it is for, whatever the bounds, the sandbox code and the overrides *)
(* do, if continuations are orderly.                                       *)
THEOREM EndsAlwaysAgree == ASSUME Orderly PROVE Spec => []EndsAgree
<1>1. Inv /\ [Next]_vars => Inv'
  BY InvStep
<1> QED BY <1>1, InvInit, EndsAgreeInv, PTL DEF Spec

-----------------------------------------------------------------------------
(***************************************************************************)
(* The two processes implement nested calls (RpcStack).                    *)
(***************************************************************************)
CallStack == Delivered(HostOpen, toHost)

LEMMA CallStackIs ==
  /\ toHost = << >> => CallStack = HostOpen
  /\ \A m \in Request : toHost = <<m>> => CallStack = Append(HostOpen, Item("request", m.rid))
  /\ \A m \in Finish : toHost = <<m>> /\ HostOpen # << >> => CallStack = Front(HostOpen)
<1>1. \A m \in Request : Deliver(HostOpen, m) = Append(HostOpen, Item("request", m.rid))
  BY DEF Deliver, Request
<1>2. \A m \in Finish : HostOpen # << >> => Deliver(HostOpen, m) = Front(HostOpen)
  BY DEF Deliver, Finish
<1> QED BY <1>1, <1>2, DeliveredNone, DeliveredOne DEF CallStack

LEMMA CallStackBecomes ==
  /\ toHost' = << >> => CallStack' = HostOpen'
  /\ \A m \in Request : toHost' = <<m>> => CallStack' = Append(HostOpen', Item("request", m.rid))
  /\ \A m \in Finish : toHost' = <<m>> /\ HostOpen' # << >> => CallStack' = Front(HostOpen')
<1>1. \A m \in Request : Deliver(HostOpen', m) = Append(HostOpen', Item("request", m.rid))
  BY DEF Deliver, Request
<1>2. \A m \in Finish : HostOpen' # << >> => Deliver(HostOpen', m) = Front(HostOpen')
  BY DEF Deliver, Finish
<1>3. \A m : toHost' = <<m>> => CallStack' = Deliver(HostOpen', m)
  BY DeliveredOne DEF CallStack
<1>4. toHost' = << >> => CallStack' = HostOpen'
  BY DeliveredNone DEF CallStack
<1> QED BY <1>1, <1>2, <1>3, <1>4

LEMMA TurnIs ==
  /\ Turn = IF toHost # << >> \/ HostBusy THEN "host" ELSE "client"
  /\ Turn' = IF toHost' # << >> \/ HostBusy' THEN "host" ELSE "client"
BY DEF Turn, HostBusy

(* A step of the nested calls, or none.                                    *)
IsIn(c, open) == \E i \in DOMAIN open : open[i] = c
NestsStep ==
  \/ CallStack' = CallStack /\ Turn' = Turn
  \/ /\ Turn = "client" /\ Turn' = "host"
     /\ \E rid \in Rids : /\ ~ IsIn(Item("request", rid), CallStack)
                          /\ CallStack' = Append(CallStack, Item("request", rid))
  \/ /\ Turn = "host" /\ Turn' = "client" /\ CallStack # << >>
     /\ \E id \in Ids : /\ ~ IsIn(Item("callback", id), CallStack)
                        /\ CallStack' = Append(CallStack, Item("callback", id))
  \/ /\ Turn = "host" /\ Turn' = "client" /\ CallStack # << >>
     /\ Last(CallStack).k = "request" /\ CallStack' = Front(CallStack)
  \/ /\ Turn = "client" /\ Turn' = "host" /\ CallStack # << >>
     /\ Last(CallStack).k = "callback" /\ CallStack' = Front(CallStack)

LEMMA NotIn ==
  ASSUME NEW S, NEW c, c \notin S, NEW s \in Seq(S)
  PROVE  ~ IsIn(c, s)
BY LenProperties DEF IsIn

(* The id of a request that is not in use is not open.                     *)
LEMMA FreshRequest ==
  ASSUME HostInv, NEW rid \in Rids, FreshRid(rid)
  PROVE  ~ IsIn(Item("request", rid), HostOpen)
<1> DEFINE c == Item("request", rid)
           S == Items \ {c}
<1>1. \A r \in Deferred : r # rid
  BY DEF FreshRid, RidsInUse, Deferred
<1>2. \A i \in DOMAIN hstack : hstack[i].rid # rid
  BY DEF FreshRid, RidsInUse, ToSet
<1>3. \A r \in Deferred : Item("request", r) \in S
  BY <1>1, DeferredShape, IsItem, SameItem DEF Rids
<1>4. hstack \in Seq(Frames)
  BY DEF HostInv, ProcessTypeOK, HostTypeOK
<1>5. ASSUME NEW i \in DOMAIN hstack, OpenFrame(hstack[i])
      PROVE  FrameItem(hstack[i]) \in S
  <2>1. hstack[i] \in Frames
    BY <1>4, LenProperties
  <2>2. hstack[i].k \in {"sync", "create", "begin", "cb"}
    BY <1>5, <2>1, HostFrameItems
  <2>3. CASE hstack[i].k = "cb"
    <3>1. hstack[i].id \in Nat /\ rid \in Nat
      BY <2>1, <2>3, FrameFields DEF Ids, Rids
    <3>2. FrameItem(hstack[i]) = Item("callback", hstack[i].id)
      BY <2>1, <2>3, HostFrameItems
    <3> QED BY <3>1, <3>2, IsItem, SameItem
  <2>4. CASE hstack[i].k # "cb"
    <3>1. hstack[i].rid \in Nat /\ rid \in Nat /\ hstack[i].rid # rid
      BY <1>2, <2>1, <2>2, <2>4, FrameFields DEF Rids
    <3>2. FrameItem(hstack[i]) = Item("request", hstack[i].rid)
      BY <2>1, <2>4, HostFrameItems
    <3> QED BY <3>1, <3>2, IsItem, SameItem
  <2> QED BY <2>3, <2>4
<1>6. HostOpen \in Seq(S)
  <2> HIDE DEF S
  <2> QED BY <1>3, <1>4, <1>5, HostOpenIn, HostOpenIs DEF OpenBelow
<1>7. c \notin S
  OBVIOUS
<1> HIDE DEF S, c
<1>8. ~ IsIn(c, HostOpen)
  BY <1>6, <1>7, NotIn
<1> QED BY <1>8 DEF c

(* The id handed out next is that of no callback that runs.                *)
LEMMA FreshCallback ==
  ASSUME HostInv, nextid \in Ids
  PROVE  ~ IsIn(Item("callback", nextid), HostOpen)
<1> DEFINE c == Item("callback", nextid)
           S == Items \ {c}
<1>1. hstack \in Seq(Frames)
  BY DEF HostInv, ProcessTypeOK, HostTypeOK
<1>2. \A r \in Deferred : Item("request", r) \in S
  <2>1. nextid \in Nat
    BY DEF Ids
  <2>2. \A r \in Deferred : r \in Nat
    BY DeferredShape DEF Rids
  <2> QED BY <2>1, <2>2, IsItem, SameItem
<1>3. ASSUME NEW i \in DOMAIN hstack, OpenFrame(hstack[i])
      PROVE  FrameItem(hstack[i]) \in S
  <2>1. hstack[i] \in Frames
    BY <1>1, LenProperties
  <2>2. hstack[i].k \in {"sync", "create", "begin", "cb"}
    BY <1>3, <2>1, HostFrameItems
  <2>3. CASE hstack[i].k = "cb"
    <3>1. hstack[i].id < nextid /\ hstack[i].id \in Nat /\ nextid \in Nat
      BY <2>1, <2>3, FrameFields DEF HostInv, RunningIdsInv, Ids
    <3>2. hstack[i].id # nextid
      BY <3>1
    <3>3. FrameItem(hstack[i]) = Item("callback", hstack[i].id)
      BY <2>1, <2>3, HostFrameItems
    <3> QED BY <3>1, <3>2, <3>3, IsItem, SameItem
  <2>4. CASE hstack[i].k # "cb"
    <3>1. hstack[i].rid \in Nat /\ nextid \in Nat
      BY <2>1, <2>2, <2>4, FrameFields DEF Rids, Ids
    <3>2. FrameItem(hstack[i]) = Item("request", hstack[i].rid)
      BY <2>1, <2>4, HostFrameItems
    <3> QED BY <3>1, <3>2, IsItem, SameItem
  <2> QED BY <2>3, <2>4
<1>4. HostOpen \in Seq(S)
  <2> HIDE DEF S
  <2> QED BY <1>1, <1>2, <1>3, HostOpenIn, HostOpenIs DEF OpenBelow
<1>5. c \notin S
  OBVIOUS
<1> HIDE DEF S, c
<1>6. ~ IsIn(c, HostOpen)
  BY <1>4, <1>5, NotIn
<1> QED BY <1>6 DEF c

LEMMA ProgramNests ==
  ASSUME Inv, NEW rid \in Rids, FreshRid(rid), ClientNext(rid), UNCHANGED hostVars
  PROVE  NestsStep
<1>1. ClientEvent(rid) /\ Inv'
  BY ProgramKeeps
<1>2. HostOpen' = HostOpen /\ (HostBusy' <=> HostBusy)
  BY <1>1, HostInvKept DEF Inv, HostInv, ProcessTypeOK
<1>3. CASE Asks(rid)
  <2>1. PICK m \in Request : m.rid = rid /\ toHost' = <<m>>
    BY <1>3 DEF Asks
  <2>2. toHost = << >> /\ ~ HostBusy /\ CallStack = HostOpen
    BY <1>3, CallStackIs DEF Asks
  <2>3. CallStack' = Append(CallStack, Item("request", rid))
    BY <1>2, <2>1, <2>2, CallStackBecomes
  <2>4. ~ IsIn(Item("request", rid), CallStack)
    BY <2>2, FreshRequest DEF Inv
  <2>5. Turn = "client" /\ Turn' = "host"
    BY <2>1, <2>2, TurnIs
  <2> QED BY <2>3, <2>4, <2>5 DEF NestsStep
<1>4. CASE CompletesCallback
  <2>1. PICK m \in Finish, open \in Seq(Items) :
          toHost' = <<m>> /\ HostOpen = Append(open, Item("callback", m.id))
    BY <1>4 DEF CompletesCallback
  <2>2. toHost = << >> /\ ~ HostBusy /\ CallStack = HostOpen
    BY <1>4, CallStackIs DEF CompletesCallback
  <2>3. HostOpen # << >> /\ Last(HostOpen) = Item("callback", m.id)
    <3>1. Item("callback", m.id) \in Items
      BY IsItem DEF Finish, Ids
    <3> QED BY <2>1, <3>1, AppendedFront
  <2>4. CallStack' = Front(CallStack)
    BY <1>2, <2>1, <2>2, <2>3, CallStackBecomes
  <2>5. Turn = "client" /\ Turn' = "host"
    BY <2>1, <2>2, TurnIs
  <2> QED BY <2>2, <2>3, <2>4, <2>5 DEF NestsStep, Item
<1>5. CASE UNCHANGED toHost
  BY <1>2, <1>5, TurnIs DEF NestsStep, CallStack
<1> QED BY <1>1, <1>3, <1>4, <1>5 DEF ClientEvent

LEMMA HostNests ==
  ASSUME Inv, Orderly, HostNext
  PROVE  NestsStep
<1>1. HostEvent /\ HostInv' /\ process = "up"
  BY HostGoesOn, HostIsUp
<1>2. HostOpen \in Seq(Items) /\ HostOpen' \in Seq(Items)
  BY <1>1, HostOpenType, HostOpenTypeThen DEF Inv, OpenTyped
<1>3. HostBusy => toHost = << >>
  BY <1>1, LineUnderWay
<1>4. CASE GoesOn
  BY <1>4, TurnIs DEF GoesOn, NestsStep, CallStack
<1>5. CASE Accepts \/ AnswersAtOnce
  <2>1. /\ toHost # << >> /\ Head(toHost).m = "api" /\ toHost' = Tail(toHost)
        /\ Head(toHost) \in Request \cup Finish /\ toHost = <<Head(toHost)>>
    BY <1>1, <1>5, LineUnderWay DEF Accepts, AnswersAtOnce, ReadsApi
  <2>2. toHost' = << >> /\ Head(toHost) \in Request
    <3>1. Tail(<<Head(toHost)>>) = << >>
      OBVIOUS
    <3> QED BY <2>1, <3>1 DEF Finish
  <2>3. CallStack = Append(HostOpen, Item("request", Head(toHost).rid)) /\ CallStack' = HostOpen'
    BY <2>1, <2>2, CallStackIs, CallStackBecomes
  <2>4. CASE Accepts
    BY <2>1, <2>2, <2>3, <2>4, TurnIs DEF Accepts, NestsStep
  <2>5. CASE AnswersAtOnce
    <3>1. Item("request", Head(toHost).rid) \in Items
      BY <2>2, IsItem DEF Request, Rids
    <3>2. /\ CallStack # << >> /\ Front(CallStack) = HostOpen
          /\ Last(CallStack) = Item("request", Head(toHost).rid)
      BY <1>2, <2>3, <3>1, AppendedFront
    <3>3. HostOpen' = HostOpen /\ Turn = "host" /\ Turn' = "client"
      BY <2>1, <2>2, <2>5, TurnIs DEF AnswersAtOnce
    <3> QED BY <2>3, <3>2, <3>3 DEF NestsStep, Item
  <2> QED BY <1>5, <2>4, <2>5
<1>6. CASE Answers
  <2>1. toHost = << >> /\ toHost' = << >> /\ CallStack = HostOpen /\ CallStack' = HostOpen'
        /\ Turn = "host" /\ Turn' = "client"
    BY <1>3, <1>6, CallStackIs, CallStackBecomes, TurnIs DEF Answers
  <2>2. PICK rid \in Rids : HostOpen = Append(HostOpen', Item("request", rid))
    BY <1>6 DEF Answers
  <2>3. /\ HostOpen # << >> /\ Front(HostOpen) = HostOpen'
        /\ Last(HostOpen) = Item("request", rid)
    <3>1. Item("request", rid) \in Items
      BY IsItem DEF Rids
    <3> QED BY <1>2, <2>2, <3>1, AppendedFront
  <2> QED BY <2>1, <2>3 DEF NestsStep, Item
<1>7. CASE CallsBack
  <2>1. toHost = << >> /\ toHost' = << >> /\ CallStack = HostOpen /\ CallStack' = HostOpen'
        /\ Turn = "host" /\ Turn' = "client"
    BY <1>3, <1>7, CallStackIs, CallStackBecomes, TurnIs DEF CallsBack
  <2>2. /\ nextid \in Ids /\ HostOpen # << >>
        /\ HostOpen' = Append(HostOpen, Item("callback", nextid))
    BY <1>7 DEF CallsBack
  <2>3. ~ IsIn(Item("callback", nextid), HostOpen)
    BY <2>2, FreshCallback DEF Inv
  <2> QED BY <2>1, <2>2, <2>3 DEF NestsStep
<1>8. CASE IsCompleted \/ IsInterrupted
  <2>1. PICK id \in Ids : HostOpen = Append(HostOpen', Item("callback", id))
    BY <1>8 DEF IsCompleted, IsInterrupted
  <2>2. /\ HostOpen # << >> /\ Front(HostOpen) = HostOpen'
        /\ Last(HostOpen) = Item("callback", id)
    <3>1. Item("callback", id) \in Items
      BY IsItem DEF Ids
    <3> QED BY <1>2, <2>1, <3>1, AppendedFront
  <2>3. CASE IsCompleted
    <3>1. /\ toHost # << >> /\ Head(toHost).m = "complete" /\ toHost' = Tail(toHost)
          /\ Head(toHost) \in Request \cup Finish /\ toHost = <<Head(toHost)>> /\ HostBusy'
      BY <1>1, <2>3, LineUnderWay DEF IsCompleted
    <3>2. toHost' = << >> /\ Head(toHost) \in Finish
      <4>1. Tail(<<Head(toHost)>>) = << >>
        OBVIOUS
      <4> QED BY <3>1, <4>1 DEF Request
    <3>3. CallStack = HostOpen' /\ CallStack' = HostOpen'
      BY <2>2, <3>1, <3>2, CallStackIs, CallStackBecomes
    <3> QED BY <3>1, <3>3, TurnIs DEF NestsStep
  <2>4. CASE IsInterrupted
    <3>1. toHost = << >> /\ toHost' = << >> /\ CallStack = HostOpen /\ CallStack' = HostOpen'
          /\ Turn = "client" /\ Turn' = "host"
      BY <2>4, CallStackIs, CallStackBecomes, TurnIs DEF IsInterrupted
    <3> QED BY <2>2, <3>1 DEF NestsStep, Item
  <2> QED BY <1>8, <2>3, <2>4
<1> QED BY <1>1, <1>4, <1>5, <1>6, <1>7, <1>8 DEF HostEvent

LEMMA NextNests ==
  ASSUME Inv, Orderly, [Next]_vars
  PROVE  NestsStep
<1>1. CASE \E rid \in Rids : FreshRid(rid) /\ ClientNext(rid) /\ UNCHANGED hostVars
  BY <1>1, ProgramNests
<1>2. CASE HostStep
  BY <1>2, HostNests DEF HostStep
<1>3. CASE (ReadClosed /\ UNCHANGED hostVars) \/ RuntimeDies \/ UNCHANGED vars
  <2>1. toHost' = toHost /\ hstack' = hstack /\ imm' = imm /\ pendingEnd' = pendingEnd
    BY <1>3 DEF ReadClosed, RuntimeDies, vars, wireVars, hostVars, loopVars
  <2>2. HostOpen' = HostOpen /\ (HostBusy' <=> HostBusy)
    BY <2>1 DEF HostOpen, HostBusy, Deferred
  <2> QED BY <2>1, <2>2, TurnIs DEF NestsStep, CallStack
<1> QED BY <1>1, <1>2, <1>3 DEF Next, ClientStep

(* A program and its runtime only ever call and return in nested order:    *)
(* every request or callback either end has in flight is answered before   *)
(* any older one, and never while it is the other's turn to speak.         *)
THEOREM CallsAlwaysNest == ASSUME Orderly PROVE Spec => CallsNest
<1>1. Init => Rpc!RpcInit
  <2> SUFFICES ASSUME Init PROVE Rpc!RpcInit
    OBVIOUS
  <2>1. toHost = << >> /\ hstack = << >> /\ Deferred = {}
    BY DeferredIs, DeferredNone DEF Init, WireInit, HostInit
  <2>2. CallStack = << >>
    BY <2>1, CallStackIs, HostOpenIs, BaseNone, OpenOnNone
  <2> QED BY <2>1, <2>2, TurnIs DEF Rpc!RpcInit, CallStack, HostBusy
<1>2. Inv /\ [Next]_vars => Inv'
  BY InvStep
<1>3. Inv /\ [Next]_vars => [Rpc!RpcNext]_(Rpc!rpcVars)
  <2> SUFFICES ASSUME Inv, [Next]_vars PROVE [Rpc!RpcNext]_(Rpc!rpcVars)
    OBVIOUS
  <2>1. NestsStep
    BY NextNests
  <2> QED BY <2>1 DEF NestsStep, CallStack, IsIn, Item, Last, Front, Rpc!RpcNext, Rpc!rpcVars,
                      Rpc!Request, Rpc!Callback, Rpc!Respond, Rpc!Complete, Rpc!Calls,
                      Rpc!IsOpen, Rpc!Youngest, Rpc!Return
<1> QED BY <1>1, <1>2, <1>3, InvInit, PTL DEF Spec, CallsNest, Rpc!RpcSpec

-----------------------------------------------------------------------------
(***************************************************************************)
(* Every callback that was fetched and not completed is in one place.      *)
(***************************************************************************)

(* What a request is when the runtime answers it, with the request `rid'   *)
(* on the stack, promised by an immediate, or left to a promise.           *)
RequestFrame(f) == f.k \in {"sync", "create", "begin"}
ServedAs(rid, op) ==
  /\ \A j \in DOMAIN hstack : RequestFrame(hstack[j]) /\ hstack[j].rid = rid => hstack[j].k = op
  /\ Promised /\ Head(imm).rid = rid => op \in {"begin", "complete"}
  /\ \A e \in pendingEnd : e.rid = rid => op \in {"end", "load"}

(* The calls on the program's stack are different requests, each served as *)
(* what it is.                                                             *)
CallsFit(s) ==
  /\ \A i, j \in DOMAIN s : s[i].k = "call" /\ s[j].k = "call" /\ s[i].rid = s[j].rid => i = j
  /\ \A i \in DOMAIN s : s[i].k = "call" => ServedAs(s[i].rid, s[i].op)

(* The callbacks a frame of the program's stack answers for.               *)
Held(f) == f.todo \cup (IF f.k = "handler" /\ f.op = "callbacks" THEN {f.id} ELSE {})

(* The callbacks W are held by the frames of s, or are among those in A:   *)
(* each in one place.                                                      *)
Ledger(W, s, A) ==
  /\ \A i, j \in DOMAIN s : \A c : c \in Held(s[i]) /\ c \in Held(s[j]) => i = j
  /\ \A i \in DOMAIN s : \A c : c \in Held(s[i]) => c \notin A
  /\ \A c : c \in W <=> c \in A \/ \E i \in DOMAIN s : c \in Held(s[i])

(* The callbacks whose completion, refusal or delivery is under way.       *)
Answer == toClient # << >> /\ Head(toClient).m = "response"
UnderWay ==
  IF toHost # << >>
  THEN IF Head(toHost).m = "api" /\ Head(toHost).op = "complete" THEN {Head(toHost).id} ELSE {}
  ELSE IF Answer /\ Top.op = "callbacks" THEN Head(toClient).ids
  ELSE IF Answer /\ Top.op = "complete" /\ ~ Head(toClient).ok THEN {Top.id} ELSE {}
Waiting == {w.id : w \in waiting}

(* What an answer under way tells of the runtime.                          *)
AnswerInv == Answer =>
  /\ Top.op = "complete" /\ ~ Head(toClient).ok => ~ Top.err
  /\ Top.op = "callbacks" => cbs = {}
  /\ Top.op = "begin" => ~ Promised

(* The program is about to fetch callbacks, before it is back in its code. *)
Fetching(f) ==
  \/ f.k = "handler" /\ f.op = "callbacks"
  \/ f.k = "call" /\ f.op = "complete"
  \/ f.k = "call" /\ f.op = "begin" /\ Promised
Sustained(s) == \E i \in DOMAIN s : Fetching(s[i])
Fetches ==
  \/ Sustained(cstack)
  \/ toHost # << >> /\ Head(toHost).m = "api" /\ Head(toHost).op = "callbacks"
  \/ Answer /\ Top.op = "begin" /\ Head(toClient).ok

(* A queued callback belongs to a method that threw, to one that is still  *)
(* beginning, or will be fetched.                                          *)
Beginning(p) == hstack # << >> /\ hstack[1].k = "begin" /\ hstack[1].id = p
Covered == \A c \in cbs : promises[c.owner] = "none" \/ Beginning(c.owner) \/ Fetches

OwnersInv ==
  /\ \A c \in cbs \cup waiting : c.owner < nextid
  /\ \A i \in DOMAIN hstack : hstack[i].k \in {"begin", "task"} => hstack[i].id <= nextid
  /\ \A p \in Ids : promises[p] # "none" => p <= nextid

CallbackInv ==
  /\ CallbackIdsUnique
  /\ OwnersInv
  /\ native = "up" =>
       /\ Ledger(Waiting, cstack, UnderWay)
       /\ CallsFit(cstack)
       /\ AnswerInv
       /\ Covered

-----------------------------------------------------------------------------
(* A frame comes off the program's stack, and one goes onto it.            *)
LEMMA FrontDomain ==
  ASSUME NEW S, NEW s \in Seq(S), s # << >>
  PROVE  /\ Len(s) \in Nat \ {0} /\ DOMAIN s = 1 .. Len(s) /\ Last(s) = s[Len(s)]
         /\ DOMAIN Front(s) = 1 .. Len(s) - 1
         /\ \A i \in DOMAIN Front(s) : i \in DOMAIN s /\ i # Len(s) /\ Front(s)[i] = s[i]
         /\ \A i \in DOMAIN s : i # Len(s) => i \in DOMAIN Front(s)
<1>1. /\ Front(s) \in Seq(S) /\ Len(Front(s)) = Len(s) - 1 /\ Len(s) \in Nat \ {0}
      /\ DOMAIN s = 1 .. Len(s) /\ Last(s) = s[Len(s)]
      /\ \A i \in 1 .. Len(s) - 1 : Front(s)[i] = s[i]
  BY FrontLast, EmptySeq, LenProperties DEF Last
<1>2. DOMAIN Front(s) = 1 .. Len(s) - 1
  BY <1>1, LenProperties
<1> QED BY <1>1, <1>2

LEMMA AppendDomain ==
  ASSUME NEW S, NEW s \in Seq(S), NEW f \in S
  PROVE  /\ Len(s) \in Nat /\ DOMAIN Append(s, f) = 1 .. Len(s) + 1
         /\ Append(s, f)[Len(s) + 1] = f
         /\ DOMAIN s = 1 .. Len(s)
         /\ \A i \in DOMAIN s : /\ i \in DOMAIN Append(s, f) /\ i # Len(s) + 1
                                /\ Append(s, f)[i] = s[i]
         /\ \A i \in DOMAIN Append(s, f) : i # Len(s) + 1 => i \in DOMAIN s
<1>1. /\ Len(s) \in Nat /\ DOMAIN s = 1 .. Len(s) /\ DOMAIN Append(s, f) = 1 .. Len(s) + 1
      /\ Append(s, f)[Len(s) + 1] = f
      /\ \A i \in 1 .. Len(s) : Append(s, f)[i] = s[i]
  BY Appended, LenProperties
<1> QED BY <1>1

LEMMA LedgerPop ==
  ASSUME NEW s \in Seq(ClientFrames), s # << >>, NEW W, NEW A, Ledger(W, s, A)
  PROVE  Ledger(W, Front(s), A \cup Held(Last(s)))
<1> DEFINE t == Front(s)
           n == Len(s)
<1>1. /\ n \in DOMAIN s /\ Last(s) = s[n]
      /\ \A i \in DOMAIN t : i \in DOMAIN s /\ i # n /\ t[i] = s[i]
      /\ \A i \in DOMAIN s : i # n => i \in DOMAIN t
  BY FrontDomain
<1> HIDE DEF t, n
<1>2. \A i, j \in DOMAIN t : \A c : c \in Held(t[i]) /\ c \in Held(t[j]) => i = j
  BY <1>1 DEF Ledger
<1>3. \A i \in DOMAIN t : \A c : c \in Held(t[i]) => c \notin A \cup Held(Last(s))
  BY <1>1 DEF Ledger
<1>4. \A c : c \in W <=> c \in A \cup Held(Last(s)) \/ \E i \in DOMAIN t : c \in Held(t[i])
  BY <1>1 DEF Ledger
<1>5. Ledger(W, t, A \cup Held(Last(s)))
  BY <1>2, <1>3, <1>4 DEF Ledger
<1> QED BY <1>5 DEF t

LEMMA LedgerPush ==
  ASSUME NEW s \in Seq(ClientFrames), NEW f \in ClientFrames, NEW W, NEW A, Ledger(W, s, A),
         Held(f) \subseteq A
  PROVE  Ledger(W, Append(s, f), A \ Held(f))
<1> DEFINE t == Append(s, f)
           n == Len(s) + 1
<1>1. /\ n \in DOMAIN t /\ t[n] = f
      /\ \A i \in DOMAIN s : i \in DOMAIN t /\ i # n /\ t[i] = s[i]
      /\ \A i \in DOMAIN t : i # n => i \in DOMAIN s
  BY AppendDomain
<1> HIDE DEF t, n
<1>2. \A i, j \in DOMAIN t : \A c : c \in Held(t[i]) /\ c \in Held(t[j]) => i = j
  <2>1. TAKE i, j \in DOMAIN t
  <2>2. CASE i # n /\ j # n
    BY <1>1, <2>2 DEF Ledger
  <2>3. CASE i = n \/ j = n
    BY <1>1, <2>3 DEF Ledger
  <2> QED BY <2>2, <2>3
<1>3. \A i \in DOMAIN t : \A c : c \in Held(t[i]) => c \notin A \ Held(f)
  BY <1>1 DEF Ledger
<1>4. \A c : c \in W <=> c \in A \ Held(f) \/ \E i \in DOMAIN t : c \in Held(t[i])
  BY <1>1 DEF Ledger
<1>5. Ledger(W, t, A \ Held(f))
  BY <1>2, <1>3, <1>4 DEF Ledger
<1> QED BY <1>5 DEF t

LEMMA FitPop ==
  ASSUME NEW s \in Seq(ClientFrames), s # << >>, CallsFit(s)
  PROVE  CallsFit(Front(s))
<1>1. \A i \in DOMAIN Front(s) : i \in DOMAIN s /\ Front(s)[i] = s[i]
  BY FrontDomain
<1> QED BY <1>1 DEF CallsFit

LEMMA FitPush ==
  ASSUME NEW s \in Seq(ClientFrames), NEW f \in ClientFrames, CallsFit(s),
         f.k = "call" => /\ \A i \in DOMAIN s : s[i].rid # f.rid
                         /\ ServedAs(f.rid, f.op)
  PROVE  CallsFit(Append(s, f))
<1> DEFINE t == Append(s, f)
           n == Len(s) + 1
<1>1. /\ n \in DOMAIN t /\ t[n] = f
      /\ \A i \in DOMAIN s : i \in DOMAIN t /\ i # n /\ t[i] = s[i]
      /\ \A i \in DOMAIN t : i # n => i \in DOMAIN s
  BY AppendDomain
<1> HIDE DEF t, n
<1>2. \A i, j \in DOMAIN t : t[i].k = "call" /\ t[j].k = "call" /\ t[i].rid = t[j].rid => i = j
  <2>1. TAKE i, j \in DOMAIN t
  <2>2. CASE i # n /\ j # n
    BY <1>1, <2>2 DEF CallsFit
  <2>3. CASE i = n \/ j = n
    BY <1>1, <2>3
  <2> QED BY <2>2, <2>3
<1>3. \A i \in DOMAIN t : t[i].k = "call" => ServedAs(t[i].rid, t[i].op)
  BY <1>1 DEF CallsFit
<1>4. CallsFit(t)
  BY <1>2, <1>3 DEF CallsFit
<1> QED BY <1>4 DEF t

LEMMA SustainedPop ==
  ASSUME NEW s \in Seq(ClientFrames), s # << >>
  PROVE  Sustained(s) <=> Sustained(Front(s)) \/ Fetching(Last(s))
<1>1. /\ Len(s) \in DOMAIN s /\ Last(s) = s[Len(s)]
      /\ \A i \in DOMAIN Front(s) : i \in DOMAIN s /\ Front(s)[i] = s[i]
      /\ \A i \in DOMAIN s : i # Len(s) => i \in DOMAIN Front(s)
  BY FrontDomain
<1> QED BY <1>1 DEF Sustained

LEMMA SustainedPush ==
  ASSUME NEW s \in Seq(ClientFrames), NEW f \in ClientFrames
  PROVE  Sustained(Append(s, f)) <=> Sustained(s) \/ Fetching(f)
<1> DEFINE t == Append(s, f)
           n == Len(s) + 1
<1>1. /\ n \in DOMAIN t /\ t[n] = f
      /\ \A i \in DOMAIN s : i \in DOMAIN t /\ t[i] = s[i]
      /\ \A i \in DOMAIN t : i # n => i \in DOMAIN s
  BY AppendDomain
<1> HIDE DEF t, n
<1>2. Sustained(t) <=> Sustained(s) \/ Fetching(f)
  BY <1>1 DEF Sustained
<1> QED BY <1>2 DEF t

-----------------------------------------------------------------------------
(* The program goes on upon the frames s, with the callbacks A in hand and *)
(* a request number nobody uses.                                           *)
Books(s, A, rid) ==
  /\ s \in Seq(ClientFrames) /\ rid \in Rids
  /\ Ledger(Waiting, s, A) /\ CallsFit(s)
  /\ \A i \in DOMAIN s : s[i].rid # rid
  /\ \A op \in Api : ServedAs(rid, op)
BooksKept == Ledger(Waiting, cstack', UnderWay') /\ CallsFit(cstack')

LEMMA BooksPop ==
  ASSUME NEW s, NEW A, NEW rid, Books(s, A, rid), s # << >>
  PROVE  Books(Front(s), A \cup Held(Last(s)), rid)
<1>1. s \in Seq(ClientFrames) /\ Front(s) \in Seq(ClientFrames)
  BY FrontLast DEF Books
<1>2. \A i \in DOMAIN Front(s) : i \in DOMAIN s /\ Front(s)[i] = s[i]
  BY <1>1, FrontDomain
<1>3. Ledger(Waiting, Front(s), A \cup Held(Last(s))) /\ CallsFit(Front(s))
  BY <1>1, LedgerPop, FitPop DEF Books
<1>4. \A i \in DOMAIN Front(s) : Front(s)[i].rid # rid
  BY <1>2 DEF Books
<1> QED BY <1>1, <1>3, <1>4 DEF Books

LEMMA BooksPush ==
  ASSUME NEW s, NEW A, NEW rid, Books(s, A, rid), NEW f \in ClientFrames, Held(f) \subseteq A,
         f.k # "call", f.rid = 0
  PROVE  Books(Append(s, f), A \ Held(f), rid)
<1>1. s \in Seq(ClientFrames) /\ Append(s, f) \in Seq(ClientFrames) /\ rid # 0
  BY Appended DEF Books, Rids
<1>2. Ledger(Waiting, Append(s, f), A \ Held(f)) /\ CallsFit(Append(s, f))
  BY <1>1, LedgerPush, FitPush DEF Books
<1>3. \A i \in DOMAIN Append(s, f) : Append(s, f)[i].rid # rid
  BY <1>1, AppendDomain DEF Books
<1> QED BY <1>1, <1>2, <1>3 DEF Books

LEMMA FetchesThen ==
  ASSUME UNCHANGED hostVars, Sustained(cstack')
  PROVE  Fetches'
BY DEF Fetches, Sustained, Fetching, Promised, hostVars, loopVars

(* The program asks.                                                       *)
LEMMA AskBooks ==
  ASSUME KeepsTurn, NEW s, NEW rid, NEW op \in Api, NEW id \in Ids \cup {0}, NEW err \in BOOLEAN,
         op = "complete" => id \in Ids,
         Books(s, IF op = "complete" THEN {id} ELSE {}, rid), Send(s, op, rid, id, err)
  PROVE  /\ BooksKept
         /\ op \in {"callbacks", "complete"} \/ Sustained(s) => Fetches'
<1> DEFINE f == CallFrame(op, rid, id, err)
           m == [m |-> "api", op |-> op, rid |-> rid, id |-> id, err |-> err]
           A == IF op = "complete" THEN {id} ELSE {}
<1>1. s \in Seq(ClientFrames) /\ rid \in Rids
  BY DEF Books
<1>2. /\ f \in ClientFrames /\ f.k = "call" /\ f.op = op /\ f.rid = rid /\ f.todo = {}
      /\ Held(f) = {}
  BY <1>1, ClientFramesBuilt DEF CallFrame, Held
<1>3. toHost' = <<m>> /\ cstack' = Append(s, f) /\ toClient' = << >> /\ UNCHANGED hostVars
  BY DEF Send, KeepsTurn
<1>4. m.m = "api" /\ m.op = op /\ m.id = id
  OBVIOUS
<1> HIDE DEF f, m
<1>5. UnderWay' = A
  <2>1. toHost' # << >> /\ Head(toHost') = m
    BY <1>3
  <2>2. UnderWay' = IF m.m = "api" /\ m.op = "complete" THEN {m.id} ELSE {}
    BY <2>1 DEF UnderWay
  <2> QED BY <1>4, <2>2
<1> HIDE DEF A
<1>6. Ledger(Waiting, Append(s, f), A \ Held(f))
  BY <1>1, <1>2, LedgerPush DEF Books, A
<1>7. A \ Held(f) = A
  BY <1>2
<1>8. CallsFit(Append(s, f))
  BY <1>1, <1>2, FitPush DEF Books
<1>9. Sustained(Append(s, f)) <=> Sustained(s) \/ Fetching(f)
  BY <1>1, <1>2, SustainedPush
<1>10. op = "complete" => Fetching(f)
  BY <1>2 DEF Fetching
<1>11. op = "callbacks" => Fetches'
  BY <1>3, <1>4 DEF Fetches
<1> QED BY <1>3, <1>5, <1>6, <1>7, <1>8, <1>9, <1>10, <1>11, FetchesThen DEF BooksKept

(* It runs an override, or its own code.                                   *)
LEMMA RunBooks ==
  ASSUME KeepsTurn, NEW s, NEW rid, Books(s, {}, rid), cstack' = s, toHost' = toHost
  PROVE  BooksKept /\ (Sustained(s) => Fetches')
<1>1. toHost' = << >> /\ toClient' = << >> /\ UNCHANGED hostVars
  BY DEF KeepsTurn
<1>2. UnderWay' = {}
  BY <1>1 DEF UnderWay, Answer
<1> QED BY <1>1, <1>2, FetchesThen DEF BooksKept, Books

(* It runs the next override of a batch, or fetches another batch.         *)
LEMMA NextBooks ==
  ASSUME KeepsTurn, NEW below, NEW p \in Ids \cup {0}, NEW todo \in SUBSET Ids, NEW rid,
         Books(below, todo, rid), NextPending(below, p, todo, rid)
  PROVE  BooksKept /\ Fetches'
<1>0. below \in Seq(ClientFrames) /\ rid \in Rids
  BY DEF Books
<1>1. CASE todo = {}
  <2> DEFINE f == AsyncFrame(p, {})
  <2>1. f \in ClientFrames /\ f.k = "async" /\ f.rid = 0 /\ Held(f) = {}
    BY ClientFramesBuilt, {} \in SUBSET Ids DEF AsyncFrame, Held
  <2>2. Send(Append(below, f), "callbacks", rid, 0, FALSE)
    BY <1>1 DEF NextPending
  <2> HIDE DEF f
  <2>3. Books(Append(below, f), {} \ Held(f), rid)
    BY <1>1, <2>1, BooksPush
  <2>4. Books(Append(below, f), {}, rid)
    BY <2>1, <2>3
  <2>5. "callbacks" \in Api /\ 0 \in Ids \cup {0} /\ FALSE \in BOOLEAN
    BY DEF Api
  <2> QED BY <2>2, <2>4, <2>5, AskBooks
<1>2. CASE todo # {}
  <2> DEFINE n == Min(todo)
             f == AsyncFrame(p, todo \ {n})
             h == HandlerFrame(n, "callbacks")
  <2>1. n \in todo
    <3>1. todo \subseteq Nat
      BY DEF Ids
    <3>2. \E k \in todo : \A j \in todo : k <= j
      BY <1>2, <3>1, LeastNumber
    <3> QED BY <3>2 DEF Min
  <2>2. cstack' = below \o <<f, h>> /\ toHost' = toHost
    BY <1>2 DEF NextPending
  <2> HIDE DEF n
  <2>3. f \in ClientFrames /\ f.k = "async" /\ f.rid = 0 /\ Held(f) = todo \ {n}
    <3>1. todo \ {n} \in SUBSET Ids
      OBVIOUS
    <3> QED BY <3>1, ClientFramesBuilt DEF AsyncFrame, Held
  <2>4. h \in ClientFrames /\ h.k = "handler" /\ h.rid = 0 /\ Held(h) = {n} /\ Fetching(h)
    BY <2>1, ClientFramesBuilt DEF HandlerFrame, Held, Fetching
  <2> HIDE DEF f, h
  <2>5. Books(Append(below, f), {n}, rid)
    <3>1. Books(Append(below, f), todo \ Held(f), rid)
      BY <2>3, BooksPush
    <3>2. todo \ Held(f) = {n}
      BY <2>1, <2>3
    <3> QED BY <3>1, <3>2
  <2>6. Books(Append(Append(below, f), h), {}, rid)
    <3>1. Books(Append(Append(below, f), h), {n} \ Held(h), rid)
      BY <2>4, <2>5, BooksPush
    <3>2. {n} \ Held(h) = {}
      BY <2>4
    <3> QED BY <3>1, <3>2
  <2>7. cstack' = Append(Append(below, f), h)
    BY <1>0, <2>2, <2>3, <2>4, ConcatTwo
  <2>8. Sustained(Append(Append(below, f), h))
    <3>1. Append(below, f) \in Seq(ClientFrames)
      BY <1>0, <2>3, Appended
    <3> QED BY <2>4, <3>1, SustainedPush
  <2> QED BY <2>2, <2>6, <2>7, <2>8, RunBooks
<1> QED BY <1>1, <1>2

-----------------------------------------------------------------------------
(* What the program's steps do to the accounts.                            *)
LEMMA FreshBooks ==
  ASSUME Inv, CallbackInv, native = "up", NEW rid \in Rids, FreshRid(rid)
  PROVE  Books(cstack, UnderWay, rid)
<1> DEFINE F == ToSet(cstack) \cup ToSet(hstack) \cup ToSet(imm) \cup pendingEnd
<1>1. /\ cstack \in Seq(ClientFrames) /\ hstack \in Seq(Frames) /\ imm \in Seq(Immediates)
  BY DEF Inv, ClientInv, ClientTypeOK, HostInv, ProcessTypeOK, HostTypeOK
<1>2. \A f \in F : f.rid # rid
  BY DEF FreshRid, RidsInUse
<1>3. \A i \in DOMAIN cstack : cstack[i] \in F
  BY <1>1, Elements
<1>4. \A i \in DOMAIN hstack : hstack[i] \in F
  BY <1>1, Elements
<1>5. imm # << >> => Head(imm) \in F
  <2>1. ASSUME imm # << >> PROVE Head(imm) \in ToSet(imm)
    <3>1. 1 \in 1 .. Len(imm) /\ Head(imm) = imm[1]
      BY <1>1, <2>1, Elements
    <3> QED BY <1>1, <3>1, Elements
  <2> QED BY <2>1
<1>6. \A e \in pendingEnd : e \in F
  OBVIOUS
<1> HIDE DEF F
<1>7. \A op \in Api : ServedAs(rid, op)
  BY <1>2, <1>4, <1>5, <1>6 DEF ServedAs, Promised
<1>8. \A i \in DOMAIN cstack : cstack[i].rid # rid
  BY <1>2, <1>3
<1> QED BY <1>1, <1>7, <1>8 DEF Books, CallbackInv

LEMMA StartBooks ==
  ASSUME Inv, NEW rid \in Rids, Books(cstack, UnderWay, rid), UNCHANGED hostVars,
         StartCall(rid) \/ StartAsyncCall(rid)
  PROVE  BooksKept /\ (Fetches => Fetches')
<1>1. InProgram /\ calls < MaxCalls /\ calls' = calls + 1
      /\ toClient' = toClient /\ eof' = eof /\ native' = native
  BY DEF StartCall, StartAsyncCall
<1>2. toHost = << >> /\ toClient = << >> /\ ~ HostBusy /\ native = "up"
  BY <1>1, InProgramTurn
<1>3. KeepsTurn
  <2>1. calls' \in 0 .. MaxCalls
    BY <1>1, MaxCallsAssumption DEF Inv, ClientInv, ClientTypeOK
  <2> QED BY <1>1, <1>2, <2>1 DEF KeepsTurn
<1>4. Books(cstack, {}, rid) /\ (Fetches => Sustained(cstack))
  BY <1>2 DEF UnderWay, Answer, Fetches
<1>5. 0 \in Ids \cup {0} /\ FALSE \in BOOLEAN /\ {"sync", "create", "load", "begin"} \subseteq Api
  BY DEF Api, SyncApi, AsyncApi
<1>6. CASE StartCall(rid)
  <2>1. PICK op \in {"sync", "create", "load"} : Send(cstack, op, rid, 0, FALSE)
    BY <1>6 DEF StartCall
  <2>2. op \in Api /\ op # "complete"
    BY <1>5
  <2> QED BY <1>3, <1>4, <1>5, <2>1, <2>2, AskBooks
<1>7. CASE StartAsyncCall(rid)
  <2> DEFINE f == AsyncFrame(0, {})
  <2>1. Send(Append(cstack, f), "begin", rid, 0, FALSE)
    BY <1>7 DEF StartAsyncCall
  <2>2. f \in ClientFrames /\ f.k = "async" /\ f.rid = 0 /\ Held(f) = {}
    BY ClientFramesBuilt, {} \in SUBSET Ids DEF AsyncFrame, Held
  <2> HIDE DEF f
  <2>3. Books(Append(cstack, f), {} \ Held(f), rid)
    BY <1>4, <2>2, BooksPush
  <2>4. Books(Append(cstack, f), {}, rid)
    BY <2>2, <2>3
  <2>5. Sustained(cstack) => Sustained(Append(cstack, f))
    BY <1>4, <2>2, SustainedPush DEF Books
  <2> QED BY <1>3, <1>4, <1>5, <2>1, <2>4, <2>5, AskBooks
<1> QED BY <1>6, <1>7

LEMMA CallbackBooks ==
  ASSUME Inv, NEW rid \in Rids, Books(cstack, UnderWay, rid), UNCHANGED hostVars, ReadCallback
  PROVE  BooksKept /\ (Fetches => Fetches')
<1>1. /\ Reading /\ toClient # << >> /\ Head(toClient).m = "callback"
      /\ toClient' = Tail(toClient) /\ toHost' = toHost /\ eof' = eof
      /\ calls' = calls /\ native' = native
      /\ cstack' = Append(cstack, HandlerFrame(Head(toClient).id, "sync"))
  BY DEF ReadCallback
<1>2. PICK m \in Response \cup Callback : toClient = <<m>>
  BY <1>1 DEF Inv, Agree, Reading
<1>3. Head(toClient) = m /\ Tail(toClient) = << >>
  BY <1>2
<1>4. toHost = << >> /\ ~ HostBusy /\ native = "up"
  BY <1>1 DEF Inv, Agree, Reading
<1>5. m.id \in Ids
  BY <1>1, <1>3 DEF Response, Callback
<1>6. KeepsTurn
  BY <1>1, <1>3, <1>4 DEF KeepsTurn, Inv, ClientInv, ClientTypeOK
<1>7. ~ Answer
  BY <1>1 DEF Answer
<1>8. Books(cstack, {}, rid) /\ (Fetches => Sustained(cstack))
  BY <1>4, <1>7 DEF UnderWay, Fetches
<1> DEFINE f == HandlerFrame(m.id, "sync")
<1>9. f \in ClientFrames /\ f.k = "handler" /\ f.rid = 0 /\ Held(f) = {}
  BY <1>5, ClientFramesBuilt DEF HandlerFrame, Held
<1>10. cstack' = Append(cstack, f)
  BY <1>1, <1>3
<1> HIDE DEF f
<1>11. Books(Append(cstack, f), {} \ Held(f), rid)
  BY <1>8, <1>9, BooksPush
<1>12. Books(Append(cstack, f), {}, rid)
  BY <1>9, <1>11
<1>13. Sustained(cstack) => Sustained(Append(cstack, f))
  BY <1>8, <1>9, SustainedPush DEF Books
<1> QED BY <1>1, <1>6, <1>8, <1>10, <1>12, <1>13, RunBooks

LEMMA FinishBooks ==
  ASSUME Inv, "unmapped" \notin Native, NEW rid \in Rids, Books(cstack, UnderWay, rid),
         UNCHANGED hostVars, FinishSync \/ FinishAsync(rid)
  PROVE  BooksKept /\ (Fetches => Fetches')
<1>1. /\ InProgram /\ cstack # << >> /\ toClient' = toClient /\ eof' = eof /\ calls' = calls
      /\ native' = native
  BY DEF FinishSync, FinishAsync
<1>2. /\ toHost = << >> /\ toClient = << >> /\ ~ HostBusy /\ native = "up"
      /\ Top.k = "handler" /\ cstack \in Seq(ClientFrames)
  BY <1>1, InProgramTurn DEF Top, ItsTurn
<1>3. KeepsTurn
  BY <1>1, <1>2 DEF KeepsTurn, Inv, ClientInv, ClientTypeOK
<1>4. Books(cstack, {}, rid) /\ (Fetches => Sustained(cstack))
  BY <1>2 DEF UnderWay, Answer, Fetches
<1>5. Books(Front(cstack), {} \cup Held(Top), rid)
  BY <1>1, <1>4, BooksPop DEF Top
<1>6. Top \in ClientFrames /\ Top.todo = {} /\ Top.id \in Ids /\ Front(cstack) \in Seq(ClientFrames)
  <2>1. Top \in ClientFrames /\ Front(cstack) \in Seq(ClientFrames)
    BY <1>1, <1>2, FrontLast DEF Top
  <2> QED BY <1>2, <2>1, ClientFrameFields
<1>7. CASE FinishSync
  <2>1. /\ Top.op = "sync" /\ cstack' = Front(cstack)
        /\ toHost' = <<[m |-> "complete", id |-> Top.id]>>
    BY <1>2, <1>7 DEF FinishSync
  <2>2. Held(Top) = {} /\ ~ Fetching(Top)
    BY <1>2, <1>6, <2>1 DEF Held, Fetching
  <2>3. Books(Front(cstack), {}, rid)
    BY <1>5, <2>2
  <2>4. UnderWay' = {}
    <3>1. toHost' # << >> /\ Head(toHost').m = "complete"
      BY <2>1
    <3> QED BY <3>1 DEF UnderWay
  <2>5. Sustained(cstack) => Sustained(Front(cstack))
    BY <1>1, <1>2, <2>2, SustainedPop DEF Top
  <2> QED BY <1>4, <2>1, <2>3, <2>4, <2>5, FetchesThen DEF BooksKept, Books
<1>8. CASE FinishAsync(rid)
  <2>1. Top.op = "callbacks"
    BY <1>8 DEF FinishAsync
  <2>2. PICK err \in BOOLEAN : Send(Front(cstack), "complete", rid, Top.id, err)
    BY <1>8 DEF FinishAsync
  <2>3. {} \cup Held(Top) = {Top.id}
    BY <1>2, <1>6, <2>1 DEF Held
  <2>4. Books(Front(cstack), {Top.id}, rid)
    BY <1>5, <2>3
  <2>5. "complete" \in Api /\ Top.id \in Ids \cup {0}
    BY <1>6 DEF Api, AsyncApi
  <2> QED BY <1>3, <1>6, <2>2, <2>4, <2>5, AskBooks
<1> QED BY <1>7, <1>8

LEMMA ResponseBooks ==
  ASSUME Inv, CallbackInv, NEW rid \in Rids, Books(cstack, UnderWay, rid), UNCHANGED hostVars,
         ReadResponse(rid)
  PROVE  BooksKept /\ (cbs = {} \/ (Fetches => Fetches'))
<1> DEFINE res == Head(toClient)
           below == Front(cstack)
           caller == Last(below)
           outer == Front(below)
<1>1. /\ Reading /\ toClient # << >> /\ res.m = "response" /\ toClient' = Tail(toClient)
      /\ Continue(res, rid) /\ eof' = eof /\ calls' = calls /\ native' = native
  BY DEF ReadResponse
<1>2. /\ toHost = << >> /\ Tail(toClient) = << >> /\ ~ HostBusy
      /\ res.ok \in BOOLEAN /\ res.ids \in SUBSET Ids
  BY <1>1, ResponseTurn
<1>3. KeepsTurn
  BY <1>1, <1>2 DEF KeepsTurn, Reading, Inv, ClientInv, ClientTypeOK
<1>4. /\ cstack \in Seq(ClientFrames) /\ cstack # << >> /\ Top \in ClientFrames
      /\ below \in Seq(ClientFrames)
      /\ \/ Top.op \in {"sync", "create", "load"}
         \/ /\ Top.op \in {"begin", "callbacks", "complete", "end"}
            /\ below # << >> /\ caller.k = "async"
            /\ Top.op # "complete" => caller.todo = {}
      /\ Top.op = "complete" => Top.id \in Ids
  BY <1>1, WhileReading DEF Inv
<1>5. Top.k = "call" /\ Held(Top) = {}
  BY <1>1, <1>4, ClientFrameFields DEF Reading, Held
<1>6. Answer /\ native = "up"
  BY <1>1 DEF Answer, Reading
<1>7. /\ Top.op = "complete" /\ ~ res.ok => ~ Top.err
      /\ Top.op = "callbacks" => cbs = {}
      /\ Top.op = "begin" => ~ Promised
  BY <1>6 DEF CallbackInv, AnswerInv
<1>8. /\ Top.op = "callbacks" => UnderWay = res.ids
      /\ Top.op = "complete" /\ ~ res.ok => UnderWay = {Top.id}
      /\ Top.op # "callbacks" /\ (Top.op = "complete" => res.ok) => UnderWay = {}
  BY <1>2, <1>6 DEF UnderWay
<1>9. Books(below, UnderWay, rid)
  <2>1. Books(below, UnderWay \cup Held(Top), rid)
    BY <1>4, BooksPop DEF Top
  <2>2. UnderWay \cup Held(Top) = UnderWay
    BY <1>5
  <2> QED BY <2>1, <2>2
<1>10. ASSUME Top.op # "complete", Top.op = "begin" => ~ res.ok, Fetches
       PROVE  Sustained(below)
  <2>1. ~ Fetching(Top)
    BY <1>5, <1>7, <1>10 DEF Fetching
  <2>2. Sustained(cstack)
    BY <1>2, <1>10 DEF Fetches
  <2> QED BY <1>4, <2>1, <2>2, SustainedPop DEF Top
<1>11. CASE Top.op \in {"sync", "create", "load"}
  <2>1. cstack' = below /\ toHost' = toHost
    BY <1>1, <1>11 DEF Continue
  <2>2. Books(below, {}, rid)
    BY <1>8, <1>9, <1>11
  <2> HIDE DEF below
  <2> QED BY <1>3, <1>10, <1>11, <2>1, <2>2, RunBooks
<1>12. CASE Top.op \in {"begin", "callbacks", "complete", "end"}
  <2>1. below # << >> /\ caller.k = "async" /\ (Top.op # "complete" => caller.todo = {})
    BY <1>4, <1>12
  <2>2. caller \in ClientFrames /\ outer \in Seq(ClientFrames)
    BY <1>4, <2>1, FrontLast
  <2>3. /\ caller.id \in Ids \cup {0} /\ caller.todo \in SUBSET Ids
        /\ Held(caller) = caller.todo /\ ~ Fetching(caller)
    BY <2>1, <2>2, ClientFrameFields DEF Held, Fetching
  <2>4. Books(outer, UnderWay \cup caller.todo, rid)
    BY <1>9, <2>1, <2>3, BooksPop
  <2>5. {"end", "complete"} \subseteq Api /\ FALSE \in BOOLEAN /\ TRUE \in BOOLEAN
    BY DEF Api, AsyncApi
  <2>6. ASSUME NEW p \in Ids \cup {0}, NEW todo \in SUBSET Ids,
               todo = UnderWay \cup caller.todo, NextPending(outer, p, todo, rid)
        PROVE  BooksKept /\ Fetches'
    BY <1>3, <2>4, <2>6, NextBooks
  <2>7. Sustained(below) => Sustained(outer)
    BY <1>4, <2>1, <2>3, SustainedPop
  <2>8. CASE Top.op = "begin" /\ res.ok
    <3>1. PICK p \in res.ids : NextPending(outer, p, {}, rid)
      BY <1>1, <2>8 DEF Continue
    <3>2. p \in Ids \cup {0} /\ {} \in SUBSET Ids /\ {} = UnderWay \cup caller.todo
      BY <1>2, <1>8, <2>1, <2>8
    <3> QED BY <2>6, <3>1, <3>2
  <2>9. CASE Top.op = "callbacks"
    <3>0. UnderWay \cup caller.todo = res.ids
      BY <1>8, <2>1, <2>9
    <3>1. CASE res.ids = {}
      <4>1. Send(below, "end", rid, caller.id, FALSE)
        BY <1>1, <2>9, <3>1 DEF Continue
      <4>2. Books(below, {}, rid)
        BY <1>8, <1>9, <2>9, <3>1
      <4> HIDE DEF below
      <4> QED BY <1>3, <1>7, <2>3, <2>5, <2>9, <4>1, <4>2, AskBooks
    <3>2. CASE res.ids # {}
      <4>1. NextPending(outer, caller.id, res.ids, rid)
        BY <1>1, <2>9, <3>2 DEF Continue
      <4> QED BY <1>2, <2>3, <2>6, <3>0, <4>1
    <3> QED BY <3>1, <3>2
  <2>10. CASE Top.op = "complete" /\ res.ok
    <3>1. NextPending(outer, caller.id, caller.todo, rid)
      BY <1>1, <2>10 DEF Continue
    <3>2. UnderWay \cup caller.todo = caller.todo
      BY <1>8, <2>10
    <3> QED BY <2>3, <2>6, <3>1, <3>2
  <2>11. CASE Top.op = "complete" /\ ~ res.ok
    <3>1. Send(below, "complete", rid, Top.id, TRUE)
      BY <1>1, <1>7, <2>11 DEF Continue
    <3>2. Books(below, {Top.id}, rid)
      BY <1>8, <1>9, <2>11
    <3>3. Top.id \in Ids /\ Top.id \in Ids \cup {0}
      BY <1>4, <2>11
    <3> HIDE DEF below
    <3> QED BY <1>3, <2>5, <3>1, <3>2, <3>3, AskBooks
  <2>12. CASE Top.op = "end" \/ (Top.op = "begin" /\ ~ res.ok)
    <3>1. cstack' = outer /\ toHost' = toHost
      BY <1>1, <2>12 DEF Continue
    <3>2. UnderWay \cup caller.todo = {}
      BY <1>8, <2>1, <2>12
    <3>3. Books(outer, {}, rid)
      BY <2>4, <3>2
    <3>4. Fetches => Sustained(outer)
      BY <1>10, <2>7, <2>12
    <3> HIDE DEF outer
    <3> QED BY <1>3, <3>1, <3>3, <3>4, RunBooks
  <2> HIDE DEF res, below, caller, outer
  <2>13. CASE Top.op = "begin"
    BY <2>8, <2>12, <2>13
  <2>14. CASE Top.op = "complete"
    BY <2>10, <2>11, <2>14
  <2> QED BY <1>12, <2>9, <2>12, <2>13, <2>14
<1> QED BY <1>4, <1>11, <1>12

(* A step of the program leaves each callback in one place.                *)
LEMMA CallbackInvThen ==
  ASSUME CallbackInv, UNCHANGED hostVars, toClient' = << >>, BooksKept,
         cbs = {} \/ (Fetches => Fetches'), native = "up"
  PROVE  CallbackInv'
<1>1. /\ hstack' = hstack /\ imm' = imm /\ pendingEnd' = pendingEnd /\ promises' = promises
      /\ cbs' = cbs /\ waiting' = waiting /\ nextid' = nextid
  BY DEF hostVars, loopVars, kernelVars
<1>2. CallbackIdsUnique' /\ OwnersInv'
  BY <1>1 DEF CallbackInv, CallbackIdsUnique, OwnersInv
<1>3. Ledger(Waiting, cstack, UnderWay)'
  <2>1. Waiting' = Waiting
    BY <1>1 DEF Waiting
  <2>2. Ledger(Waiting', cstack', UnderWay')
    BY <2>1 DEF BooksKept
  <2> QED BY <2>2
<1>4. CallsFit(cstack)'
  BY <1>1 DEF BooksKept, CallsFit, ServedAs, Promised
<1>5. AnswerInv'
  BY DEF AnswerInv, Answer
<1>6. Covered'
  BY <1>1 DEF CallbackInv, Covered, Beginning
<1> QED BY <1>2, <1>3, <1>4, <1>5, <1>6 DEF CallbackInv

LEMMA ProgramKeepsBooks ==
  ASSUME Inv, CallbackInv, "unmapped" \notin Native, NEW rid \in Rids, FreshRid(rid),
         UNCHANGED hostVars, ClientNext(rid)
  PROVE  CallbackInv'
<1>1. CASE Exit
  <2>1. native' = "closed" /\ UNCHANGED hostVars
    BY <1>1 DEF Exit
  <2>2. CallbackIdsUnique' /\ OwnersInv'
    BY DEF CallbackInv, CallbackIdsUnique, OwnersInv, hostVars, loopVars, kernelVars
  <2> QED BY <2>1, <2>2 DEF CallbackInv
<1>2. CASE ~ Exit
  <2>1. native = "up"
    BY <1>2 DEF ClientNext, ClientProgress, StartCall, StartAsyncCall, ReadResponse, ReadCallback,
                FinishSync, FinishAsync, InProgram, Reading
  <2>2. Books(cstack, UnderWay, rid)
    BY <2>1, FreshBooks
  <2>3. BooksKept /\ (cbs = {} \/ (Fetches => Fetches'))
    BY <1>2, <2>2, StartBooks, ResponseBooks, CallbackBooks, FinishBooks
       DEF ClientNext, ClientProgress
  <2>4. toClient' = << >>
    <3>1. CASE ReadResponse(rid)
      BY <3>1, ResponseTurn DEF ReadResponse
    <3>2. CASE ReadCallback
      <4>1. Reading /\ toClient # << >> /\ toClient' = Tail(toClient)
        BY <3>2 DEF ReadCallback
      <4>2. PICK m \in Response \cup Callback : toClient = <<m>>
        BY <4>1 DEF Inv, Agree, Reading
      <4> QED BY <4>1, <4>2
    <3>3. CASE StartCall(rid) \/ StartAsyncCall(rid) \/ FinishSync \/ FinishAsync(rid)
      BY <3>3, InProgramTurn DEF StartCall, StartAsyncCall, FinishSync, FinishAsync
    <3> QED BY <1>2, <3>1, <3>2, <3>3 DEF ClientNext, ClientProgress
  <2> QED BY <2>1, <2>3, <2>4, CallbackInvThen
<1> QED BY <1>1, <1>2

-----------------------------------------------------------------------------
(* The request the runtime reads is the one the program waits for; only a  *)
(* sync operation, a fetch or an end is read while an override runs.       *)
LEMMA RequestRead ==
  ASSUME Inv, Prompt, ReadRequest \/ ReadNested
  PROVE  /\ ReadsApi /\ toHost = <<Head(toHost)>> /\ toHost' = << >> /\ toClient = << >>
         /\ native = "up" /\ ~ HostBusy
         /\ Head(toHost) \in Request \cup Finish /\ Head(toHost).m = "api"
         /\ Head(toHost).rid = Top.rid /\ Head(toHost).op = Top.op
         /\ Head(toHost).id = Top.id /\ Head(toHost).err = Top.err
         /\ hstack # << >> /\ Last(hstack).k \in {"read", "cb"}
         /\ \E below : /\ UnderAnswer(below) /\ ProcessRequest(below, Head(toHost))
                       /\ \/ below = hstack
                          \/ below = << >> /\ Front(hstack) = << >> /\ Last(hstack).k = "read"
                       /\ below # << >> => Head(toHost).op \notin {"begin", "complete"}
<1>1. /\ process = "up" /\ ReadsApi /\ hstack # << >> /\ Last(hstack).k \in {"read", "cb"}
      /\ Head(toHost).m = "api"
  BY DEF ReadRequest, ReadNested, Running, ReadsApi
<1>2. /\ native = "up" /\ toHost = <<Head(toHost)>> /\ Head(toHost) \in Request \cup Finish
      /\ RequestFits(Head(toHost)) /\ toClient = << >> /\ ~ HostBusy
  BY <1>1, LineUnderWay DEF ReadsApi
<1>3. /\ Head(toHost).rid = Top.rid /\ Head(toHost).op = Top.op
      /\ Head(toHost).id = Top.id /\ Head(toHost).err = Top.err
  BY <1>1, <1>2 DEF RequestFits
<1>4. toHost' = << >>
  <2>1. PICK m : toHost = <<m>>
    BY <1>2
  <2> QED BY <1>1, <2>1 DEF ReadsApi
<1>5. Calm
  BY StaysCalm DEF Prompt
<1>6. CASE ReadRequest
  <2>1. Last(hstack).k = "read" /\ ProcessRequest(Front(hstack), Head(toHost))
    BY <1>6 DEF ReadRequest, Running
  <2>2. UnderAnswer(Front(hstack)) /\ Front(hstack) = << >>
    BY <1>1, <2>1, BelowTop, HostAlone DEF UnderAnswer, Inv, HostInv
  <2> QED BY <1>1, <1>2, <1>3, <1>4, <2>1, <2>2
<1>7. CASE ReadNested
  <2>1. Running({"cb"}) /\ Last(hstack).k = "cb" /\ ProcessRequest(hstack, Head(toHost))
    BY <1>7 DEF ReadNested, Running
  <2>2. UnderAnswer(hstack)
    BY <1>1, <2>1, BelowTop DEF UnderAnswer, Inv, HostInv
  <2>3. Head(toHost).op \notin {"begin", "complete"}
    BY <1>1, <1>5, <2>1 DEF Calm, ReadsApi
  <2> QED BY <1>1, <1>2, <1>3, <1>4, <2>1, <2>2, <2>3
<1> QED BY <1>6, <1>7

(* All that a step of the runtime does to its stack.                       *)
StaysOrReturns ==
  \/ hstack' = hstack
  \/ hstack # << >> /\ hstack' = Front(hstack)
StartsFrame ==
  \E f \in Frames : /\ f.k \in {"read", "task"} /\ hstack' = <<f>> /\ hstack = << >>
                    /\ f.k = "task" => promises[f.id] = "ready"
CallsHandler ==
  \E f \in Frames : f.k = "cb" /\ hstack' = Append(hstack, f) /\ hstack # << >>
EntersRequest ==
  \E f \in Frames, below \in Seq(Frames) :
    /\ ReadsApi /\ RequestFrame(f) /\ f.k = Head(toHost).op /\ f.rid = Head(toHost).rid
    /\ f.k = "begin" => f.id = nextid
    /\ hstack' = Append(below, f) /\ Last(hstack).k \in {"read", "cb"}
    /\ below = hstack \/ (below = << >> /\ Front(hstack) = << >>)
StackMoves == StaysOrReturns \/ StartsFrame \/ CallsHandler \/ EntersRequest

LEMMA RequestMoves ==
  ASSUME Inv, Prompt, ReadRequest \/ ReadNested
  PROVE  StaysOrReturns \/ EntersRequest
<1> DEFINE req == Head(toHost)
<1>1. PICK below : /\ UnderAnswer(below) /\ ProcessRequest(below, req)
                   /\ \/ below = hstack
                      \/ below = << >> /\ Front(hstack) = << >> /\ Last(hstack).k = "read"
  BY RequestRead
<1>2. /\ ReadsApi /\ req \in Request \cup Finish /\ req.m = "api"
      /\ hstack # << >> /\ Last(hstack).k \in {"read", "cb"}
      /\ below \in Seq(Frames) /\ req.rid \in Rids
  BY <1>1, RequestRead, LineFields DEF UnderAnswer, Below
<1> HIDE DEF req
<1>3. ASSUME hstack' = below PROVE StaysOrReturns
  BY <1>1, <1>2, <1>3 DEF StaysOrReturns
<1>4. CASE Refuse(below, req) \/ Callbacks(below, req) \/ CompleteFails(below, req)
             \/ Complete(below, req) \/ EndOrLoad(below, req)
  <2>1. hstack' = below
    BY <1>4 DEF Refuse, Callbacks, CompleteFails, Complete, EndOrLoad, AnswerAndNext, RespondLater,
                RespondWhenSettled
  <2> QED BY <1>3, <2>1
<1>5. CASE EnterSync(below, req)
  <2> DEFINE f == Frame(req.op, req.rid, 0)
  <2>1. req.op \in {"sync", "create"} /\ hstack' = Append(below, f)
    BY <1>5 DEF EnterSync, SyncApi
  <2>2. f \in Frames /\ RequestFrame(f) /\ f.k = req.op /\ f.rid = req.rid /\ f.k # "begin"
    BY <1>2, <2>1, FramesBuilt DEF Frame, RequestFrame
  <2> HIDE DEF f
  <2> QED BY <1>1, <1>2, <2>1, <2>2 DEF EntersRequest, req
<1>6. CASE EnterBegin(below, req)
  <2> DEFINE f == Frame("begin", req.rid, nextid)
  <2>1. /\ req.op = "begin" /\ hstack' = Append(below, f) /\ nextid <= MaxId
    BY <1>6 DEF EnterBegin
  <2>2. nextid \in Ids
    BY <2>1, NextIdIsId DEF Inv, HostInv, ProcessTypeOK, HostTypeOK
  <2>3. f \in Frames /\ RequestFrame(f) /\ f.k = "begin" /\ f.rid = req.rid /\ f.id = nextid
    BY <1>2, <2>2, FramesBuilt DEF Frame, RequestFrame
  <2> HIDE DEF f
  <2> QED BY <1>1, <1>2, <2>1, <2>3 DEF EntersRequest, req
<1> QED BY <1>1, <1>4, <1>5, <1>6 DEF ProcessRequest

LEMMA HostStackMoves ==
  ASSUME Inv, Prompt, HostNext
  PROVE  StackMoves
<1>1. CASE ReadRequest \/ ReadNested
  BY <1>1, RequestMoves DEF StackMoves
<1>2. CASE Run
  BY <1>2, FramesBuilt DEF Run, Idle, ReadFrame, Frame, StackMoves, StartsFrame
<1>3. CASE ReadMalformed \/ CallAsyncOverride \/ TimerFires \/ EventLoopEmpty
           \/ RespondImmediate \/ RespondSettled
  BY <1>3 DEF ReadMalformed, CallAsyncOverride, TimerFires, EventLoopEmpty,
              RespondImmediate, RespondSettled, loopVars, StackMoves, StaysOrReturns
<1>4. CASE ReadEnd \/ ReadCompletion \/ ReadInterrupted \/ ReturnTask
  BY <1>4 DEF ReadEnd, ReadCompletion, ReadInterrupted, ReturnTask, Running, StackMoves,
              StaysOrReturns
<1>5. CASE CallSyncOverride
  <2>1. /\ hstack # << >> /\ nextid <= MaxId
        /\ hstack' = Append(hstack, Frame("cb", 0, nextid))
    BY <1>5 DEF CallSyncOverride, Running
  <2>2. nextid \in Ids
    BY <2>1, NextIdIsId DEF Inv, HostInv, ProcessTypeOK, HostTypeOK
  <2>3. Frame("cb", 0, nextid) \in Frames /\ Frame("cb", 0, nextid).k = "cb"
    BY <2>2, FramesBuilt DEF Frame
  <2> QED BY <2>1, <2>3 DEF StackMoves, CallsHandler
<1>6. CASE ReturnSync \/ ReturnBegin \/ ThrowBegin
  BY <1>6 DEF ReturnSync, ReturnBegin, ThrowBegin, Running, RespondLater, AnswerAndNext,
              StackMoves, StaysOrReturns
<1>7. CASE ResumeTask
  <2>1. PICK p \in Ids : promises[p] = "ready" /\ hstack' = <<Frame("task", 0, p)>>
    BY <1>7 DEF ResumeTask
  <2>2. Frame("task", 0, p) \in Frames /\ Frame("task", 0, p).k = "task"
        /\ Frame("task", 0, p).id = p
    BY FramesBuilt DEF Frame
  <2> QED BY <1>7, <2>1, <2>2 DEF ResumeTask, Idle, StackMoves, StartsFrame
<1> QED BY <1>1, <1>2, <1>3, <1>4, <1>5, <1>6, <1>7 DEF HostNext

LEMMA CallbacksShrink ==
  ASSUME HostNext, ~ CallAsyncOverride
  PROVE  cbs' \subseteq cbs /\ cbs' \cup waiting' \subseteq cbs \cup waiting
<1>1. CASE ReadRequest \/ ReadNested
  <2>1. /\ \E below : ProcessRequest(below, Head(toHost))
        /\ toHost # << >> /\ Head(toHost).m = "api" /\ toHost' = Tail(toHost)
    BY <1>1 DEF ReadRequest, ReadNested
  <2> QED BY <2>1, ProcessRequestOnCallbacks DEF FetchAll, DropOne, KeepAll
<1>2. CASE Run \/ ReadMalformed \/ ReadEnd \/ ReadCompletion \/ ReadInterrupted
  BY <1>2 DEF Run, ReadMalformed, ReadEnd, ReadCompletion, ReadInterrupted, kernelVars
<1>3. CASE CallSyncOverride \/ ReturnSync \/ ReturnBegin \/ ThrowBegin
  BY <1>3 DEF CallSyncOverride, ReturnSync, ReturnBegin, ThrowBegin
<1>4. CASE ResumeTask \/ ReturnTask \/ TimerFires
  BY <1>4 DEF ResumeTask, ReturnTask, TimerFires
<1>5. CASE RespondImmediate \/ RespondSettled \/ EventLoopEmpty
  BY <1>5 DEF RespondImmediate, RespondSettled, EventLoopEmpty, kernelVars
<1> QED BY <1>1, <1>2, <1>3, <1>4, <1>5 DEF HostNext

(* Who registers a promise.                                                *)
LEMMA PromiseMoves ==
  ASSUME HostInv, HostNext, NEW p \in Ids, promises[p] = "none", promises'[p] # "none"
  PROVE  \/ p = nextid
         \/ (ReturnBegin \/ ReturnTask) /\ p = Last(hstack).id
<1>0. promises \in [Ids -> PromiseStates]
  BY DEF HostInv, ProcessTypeOK, HostTypeOK
<1>1. ASSUME NEW below, NEW req, ProcessRequest(below, req)
      PROVE  p = nextid
  <2>1. CASE EnterBegin(below, req)
    BY <1>0, <2>1 DEF EnterBegin
  <2>2. CASE Complete(below, req)
    <3>1. PICK c \in waiting : Settle(c)
      BY <2>2 DEF Complete
    <3>2. \/ promises' = promises
          \/ promises[c.owner] = "awaiting" /\ promises' = [promises EXCEPT ![c.owner] = "ready"]
      BY <3>1 DEF Settle
    <3>3. promises'[p] = "none"
      BY <1>0, <3>2
    <3> QED BY <3>3
  <2>3. CASE Refuse(below, req) \/ EnterSync(below, req) \/ Callbacks(below, req)
               \/ CompleteFails(below, req) \/ EndOrLoad(below, req)
    BY <2>3 DEF Refuse, EnterSync, Callbacks, CompleteFails, EndOrLoad, kernelVars
  <2> QED BY <1>1, <2>1, <2>2, <2>3 DEF ProcessRequest
<1>2. CASE ReadRequest \/ ReadNested
  BY <1>1, <1>2 DEF ReadRequest, ReadNested
<1>3. CASE ReturnBegin \/ ReturnTask
  BY <1>0, <1>3 DEF ReturnBegin, ReturnTask
<1>4. CASE ThrowBegin
  BY <1>0, <1>4 DEF ThrowBegin
<1>5. CASE ResumeTask
  <2>1. PICK q \in Ids : promises[q] = "ready" /\ promises' = [promises EXCEPT ![q] = "running"]
    BY <1>5 DEF ResumeTask
  <2> QED BY <1>0, <2>1
<1>6. CASE TimerFires
  <2>1. PICK q \in Ids : promises[q] = "timer" /\ promises' = [promises EXCEPT ![q] = "ready"]
    BY <1>6 DEF TimerFires
  <2> QED BY <1>0, <2>1
<1>7. CASE Run \/ ReadMalformed \/ ReadEnd \/ ReadCompletion \/ ReadInterrupted
             \/ CallSyncOverride \/ CallAsyncOverride \/ ReturnSync \/ RespondImmediate
             \/ RespondSettled \/ EventLoopEmpty
  BY <1>7 DEF Run, ReadMalformed, ReadEnd, ReadCompletion, ReadInterrupted, CallSyncOverride,
              CallAsyncOverride, ReturnSync, RespondImmediate, RespondSettled, EventLoopEmpty,
              kernelVars
<1> QED BY <1>2, <1>3, <1>4, <1>5, <1>6, <1>7 DEF HostNext

LEMMA OwnersStep ==
  ASSUME Inv, Prompt, OwnersInv, HostNext
  PROVE  OwnersInv'
<1>0. /\ nextid \in Nat /\ nextid' \in Nat /\ nextid <= nextid'
      /\ hstack \in Seq(Frames) /\ cbs \cup waiting \subseteq PendingCallbacks
  BY NextIdGrows DEF Inv, HostInv, ProcessTypeOK, HostTypeOK
<1>1. \A c \in cbs \cup waiting : c.owner < nextid'
  <2>1. \A c \in cbs \cup waiting : c.owner < nextid /\ c.owner \in Nat
    BY <1>0 DEF OwnersInv, PendingCallbacks, Ids
  <2> QED BY <1>0, <2>1
<1>2. ASSUME NEW i \in DOMAIN hstack, hstack[i].k \in {"begin", "task"}
      PROVE  hstack[i].id <= nextid /\ hstack[i].id <= nextid' /\ hstack[i].id \in Nat
  <2>1. hstack[i] \in Frames
    BY <1>0, LenProperties
  <2>2. hstack[i].id \in Nat /\ hstack[i].id <= nextid
    BY <1>2, <2>1, FrameFields DEF OwnersInv, Ids
  <2> QED BY <1>0, <2>2
<1>3. \A c \in cbs' \cup waiting' : c.owner < nextid'
  <2>1. CASE ~ CallAsyncOverride
    BY <1>1, <2>1, CallbacksShrink
  <2>2. CASE CallAsyncOverride
    <3>1. /\ cbs' = cbs \cup {[id |-> nextid, owner |-> Last(hstack).id]} /\ waiting' = waiting
          /\ hstack # << >> /\ Last(hstack).k \in {"begin", "task"} /\ nextid' = nextid + 1
      BY <2>2 DEF CallAsyncOverride, Running
    <3>2. Len(hstack) \in DOMAIN hstack /\ Last(hstack) = hstack[Len(hstack)]
      BY <1>0, <3>1, FrontDomain
    <3>3. Last(hstack).id < nextid'
      BY <1>0, <1>2, <3>1, <3>2
    <3> QED BY <1>1, <3>1, <3>3
  <2> QED BY <2>1, <2>2
<1>4. \A i \in DOMAIN hstack' : hstack'[i].k \in {"begin", "task"} => hstack'[i].id <= nextid'
  <2>1. CASE StaysOrReturns
    <3>1. ASSUME hstack # << >>
          PROVE  \A i \in DOMAIN Front(hstack) : i \in DOMAIN hstack /\ Front(hstack)[i] = hstack[i]
      BY <1>0, <3>1, FrontDomain
    <3> QED BY <1>2, <2>1, <3>1 DEF StaysOrReturns
  <2>2. CASE StartsFrame
    <3>1. PICK f \in Frames : /\ f.k \in {"read", "task"} /\ hstack' = <<f>>
                              /\ f.k = "task" => promises[f.id] = "ready"
      BY <2>2 DEF StartsFrame
    <3>2. DOMAIN hstack' = {1} /\ hstack'[1] = f
      BY <3>1
    <3>3. f.k = "task" => f.id \in Nat /\ f.id <= nextid
      BY <3>1, FrameFields DEF OwnersInv, Ids
    <3>4. f.k = "task" => f.id <= nextid'
      BY <1>0, <3>3
    <3> QED BY <3>1, <3>2, <3>4
  <2>3. CASE CallsHandler
    <3>1. PICK f \in Frames : f.k = "cb" /\ hstack' = Append(hstack, f)
      BY <2>3 DEF CallsHandler
    <3>2. /\ \A i \in DOMAIN hstack' : i # Len(hstack) + 1 => i \in DOMAIN hstack
          /\ hstack'[Len(hstack) + 1] = f
          /\ \A i \in DOMAIN hstack : hstack'[i] = hstack[i]
      BY <1>0, <3>1, AppendDomain
    <3> QED BY <1>2, <3>1, <3>2
  <2>4. CASE EntersRequest
    <3>1. PICK f \in Frames, below \in Seq(Frames) :
            /\ RequestFrame(f) /\ (f.k = "begin" => f.id = nextid)
            /\ hstack' = Append(below, f) /\ (below = hstack \/ below = << >>)
      BY <2>4 DEF EntersRequest
    <3>2. /\ \A i \in DOMAIN hstack' : i # Len(below) + 1 => i \in DOMAIN below
          /\ hstack'[Len(below) + 1] = f
          /\ \A i \in DOMAIN below : hstack'[i] = below[i]
      BY <3>1, AppendDomain
    <3>3. \A i \in DOMAIN below : i \in DOMAIN hstack /\ below[i] = hstack[i]
      BY <3>1
    <3>4. f.k \in {"begin", "task"} => f.id <= nextid'
      BY <1>0, <3>1 DEF RequestFrame
    <3> QED BY <1>2, <3>2, <3>3, <3>4
  <2> QED BY <2>1, <2>2, <2>3, <2>4, HostStackMoves DEF StackMoves
<1>5. \A p \in Ids : promises'[p] # "none" => p <= nextid'
  <2>1. ASSUME NEW p \in Ids, promises[p] # "none" PROVE p <= nextid'
    <3>1. p \in Nat /\ p <= nextid
      BY <2>1 DEF OwnersInv, Ids
    <3> QED BY <1>0, <3>1
  <2>2. ASSUME NEW p \in Ids, promises[p] = "none", promises'[p] # "none" PROVE p <= nextid'
    <3>1. CASE p = nextid
      BY <1>0, <3>1
    <3>2. CASE (ReturnBegin \/ ReturnTask) /\ p = Last(hstack).id
      <4>1. hstack # << >> /\ Last(hstack).k \in {"begin", "task"}
        BY <3>2 DEF ReturnBegin, ReturnTask, Running
      <4>2. Len(hstack) \in DOMAIN hstack /\ Last(hstack) = hstack[Len(hstack)]
        BY <1>0, <4>1, FrontDomain
      <4> QED BY <1>2, <3>2, <4>1, <4>2
    <3> QED BY <2>2, <3>1, <3>2, PromiseMoves DEF Inv
  <2> QED BY <2>1, <2>2
<1> QED BY <1>3, <1>4, <1>5 DEF OwnersInv

-----------------------------------------------------------------------------
(* What the event loop owes: begin and complete are answered by an         *)
(* immediate, end and load when their promise is settled.                  *)
ReturnsBegin == Running({"begin"}) /\ Front(hstack) = << >>
QueueMoves ==
  /\ Promised' =>
       \/ imm' = imm
       \/ ~ Promised /\ ReadsApi /\ Head(toHost).op = "complete" /\ Head(imm').rid = Head(toHost).rid
       \/ ~ Promised /\ ReturnsBegin /\ Head(imm').rid = Last(hstack).rid
  /\ Promised => Promised' \/ RespondImmediate
  /\ \A e \in pendingEnd' :
       \/ e \in pendingEnd
       \/ ReadsApi /\ Head(toHost).op \in {"end", "load"} /\ e.rid = Head(toHost).rid

LEMMA AnswerQueue ==
  ASSUME NEW below, UnderAnswer(below), NEW rid, NEW ok, NEW ids, AnswerAndNext(below, rid, ok, ids)
  PROVE  QueueMoves
<1>1. pendingEnd' = pendingEnd /\ imm' = IF below = << >> THEN Append(imm, RunNext) ELSE imm
  BY DEF AnswerAndNext
<1>2. CASE below = << >>
  <2>1. imm = << >> /\ imm' = <<RunNext>>
    BY <1>1, <1>2 DEF UnderAnswer, Below, NoDriver
  <2>2. ~ Promised /\ ~ Promised'
    BY <2>1 DEF Promised, RunNext
  <2> QED BY <1>1, <2>2 DEF QueueMoves
<1>3. CASE below # << >>
  <2>1. imm' = imm /\ (Promised' <=> Promised)
    BY <1>1, <1>3 DEF Promised
  <2> QED BY <1>1, <2>1 DEF QueueMoves
<1> QED BY <1>2, <1>3

LEMMA LaterQueue ==
  ASSUME NEW below, UnderAnswer(below), NEW rid, NEW ids, RespondLater(below, rid, ids),
         \/ ReadsApi /\ Head(toHost).op = "complete" /\ Head(toHost).rid = rid
         \/ Running({"begin"}) /\ below = Front(hstack) /\ Last(hstack).rid = rid
  PROVE  QueueMoves
<1>1. CASE below = << >>
  <2> DEFINE r == [k |-> "respond", rid |-> rid, ids |-> ids]
  <2>1. imm = << >> /\ imm' = <<r>> /\ pendingEnd' = pendingEnd
    BY <1>1 DEF RespondLater, UnderAnswer, Below, NoDriver
  <2>2. r.rid = rid
    OBVIOUS
  <2> HIDE DEF r
  <2>3. Head(imm').rid = rid /\ ~ Promised /\ imm' # << >>
    BY <2>1, <2>2 DEF Promised
  <2> QED BY <1>1, <2>1, <2>3 DEF QueueMoves, ReturnsBegin
<1>2. CASE below # << >>
  BY <1>2, AnswerQueue DEF RespondLater
<1> QED BY <1>1, <1>2

LEMMA RequestQueue ==
  ASSUME Inv, Prompt, ReadRequest \/ ReadNested
  PROVE  QueueMoves
<1> DEFINE req == Head(toHost)
<1>1. PICK below : UnderAnswer(below) /\ ProcessRequest(below, req)
  BY RequestRead
<1>2. ReadsApi
  BY RequestRead
<1> HIDE DEF req
<1>3. CASE Refuse(below, req) \/ Callbacks(below, req) \/ CompleteFails(below, req)
  <2>1. \E ok, ids : AnswerAndNext(below, req.rid, ok, ids)
    BY <1>3 DEF Refuse, Callbacks, CompleteFails
  <2> QED BY <1>1, <2>1, AnswerQueue
<1>4. CASE Complete(below, req)
  <2>1. RespondLater(below, req.rid, {}) /\ req.op = "complete"
    BY <1>4 DEF Complete
  <2> QED BY <1>1, <1>2, <2>1, LaterQueue DEF req
<1>5. CASE EnterSync(below, req) \/ EnterBegin(below, req)
  <2>1. imm' = imm /\ pendingEnd' = pendingEnd
    BY <1>5 DEF EnterSync, EnterBegin
  <2> QED BY <2>1 DEF QueueMoves, Promised
<1>6. CASE EndOrLoad(below, req)
  <2>1. PICK id : RespondWhenSettled(below, req.rid, id) /\ req.op \in {"end", "load"}
    BY <1>6 DEF EndOrLoad
  <2>2. CASE below = << >>
    <3>1. imm' = imm /\ pendingEnd' = pendingEnd \cup {[rid |-> req.rid, id |-> id]}
      BY <2>1, <2>2 DEF RespondWhenSettled
    <3>2. \A e \in pendingEnd' : e \in pendingEnd \/ e.rid = req.rid
      BY <3>1
    <3> QED BY <1>2, <2>1, <3>1, <3>2 DEF QueueMoves, Promised, req
  <2>3. CASE below # << >>
    BY <1>1, <2>1, <2>3, AnswerQueue DEF RespondWhenSettled
  <2> QED BY <2>2, <2>3
<1> QED BY <1>1, <1>3, <1>4, <1>5, <1>6 DEF ProcessRequest

LEMMA UnderReturn ==
  ASSUME HostInv, hstack # << >>, Last(hstack).k \in {"sync", "create", "begin"}
  PROVE  UnderAnswer(Front(hstack))
<1>1. Below(Front(hstack))
  BY BelowTop DEF HostInv
<1>2. Front(hstack) # << >> => Last(Front(hstack)).k = "cb"
  BY HostTop DEF HostLinks
<1> QED BY <1>1, <1>2 DEF UnderAnswer

LEMMA QueueStep ==
  ASSUME Inv, Prompt, HostNext
  PROVE  QueueMoves
<1>1. CASE ReadRequest \/ ReadNested
  BY <1>1, RequestQueue
<1>2. CASE Run
  <2>1. ~ Promised /\ imm' = Tail(imm) /\ pendingEnd' = pendingEnd /\ imm # << >>
    BY <1>2 DEF Run, Promised
  <2>2. imm' = << >>
    BY <2>1, QueueOfOne DEF Inv
  <2> QED BY <2>1, <2>2 DEF QueueMoves, Promised
<1>3. CASE ReturnSync \/ ThrowBegin
  <2>1. hstack # << >> /\ Last(hstack).k \in {"sync", "create", "begin"}
    BY <1>3 DEF ReturnSync, ThrowBegin, Running
  <2>2. \E ok : AnswerAndNext(Front(hstack), Last(hstack).rid, ok, {})
    BY <1>3 DEF ReturnSync, ThrowBegin
  <2> QED BY <2>1, <2>2, UnderReturn, AnswerQueue DEF Inv
<1>4. CASE ReturnBegin
  <2>1. /\ Running({"begin"}) /\ hstack # << >> /\ Last(hstack).k \in {"sync", "create", "begin"}
        /\ RespondLater(Front(hstack), Last(hstack).rid, {nextid})
    BY <1>4 DEF ReturnBegin, Running
  <2> QED BY <2>1, UnderReturn, LaterQueue DEF Inv
<1>5. CASE RespondImmediate
  <2>1. imm' = Append(Tail(imm), RunNext) /\ imm # << >> /\ pendingEnd' = pendingEnd
    BY <1>5 DEF RespondImmediate
  <2>2. imm' = <<RunNext>>
    <3>1. Append(<< >>, RunNext) = <<RunNext>>
      OBVIOUS
    <3> QED BY <2>1, <3>1, QueueOfOne DEF Inv
  <2> QED BY <1>5, <2>1, <2>2 DEF QueueMoves, Promised, RunNext
<1>6. CASE RespondSettled
  <2>1. PICK e \in pendingEnd : pendingEnd' = pendingEnd \ {e}
    BY <1>6 DEF RespondSettled
  <2>2. imm = << >> /\ imm' = Append(imm, RunNext)
    BY <1>6 DEF RespondSettled, Inv, HostInv, OneDriver
  <2>3. imm' = <<RunNext>>
    BY <2>2
  <2> QED BY <2>1, <2>2, <2>3 DEF QueueMoves, Promised, RunNext
<1>7. CASE ReadMalformed \/ ReadEnd \/ ReadCompletion \/ ReadInterrupted \/ CallSyncOverride
             \/ CallAsyncOverride \/ ResumeTask \/ ReturnTask \/ TimerFires \/ EventLoopEmpty
  <2>1. imm' = imm /\ pendingEnd' = pendingEnd
    BY <1>7 DEF ReadMalformed, ReadEnd, ReadCompletion, ReadInterrupted, CallSyncOverride,
                CallAsyncOverride, ResumeTask, ReturnTask, TimerFires, EventLoopEmpty, loopVars
  <2> QED BY <2>1 DEF QueueMoves, Promised
<1> QED BY <1>1, <1>2, <1>3, <1>4, <1>5, <1>6, <1>7 DEF HostNext

-----------------------------------------------------------------------------
(* The request under way is that of the program's youngest call.           *)
LEMMA ApiLine ==
  ASSUME Inv, process = "up", toHost # << >>, Head(toHost).m = "api"
  PROVE  /\ native = "up" /\ Reading /\ Top.k = "call"
         /\ Head(toHost).rid = Top.rid /\ Head(toHost).op = Top.op
         /\ Len(cstack) \in DOMAIN cstack /\ Top = cstack[Len(cstack)]
<1>1. native = "up" /\ Reading /\ RequestFits(Head(toHost))
  BY LineUnderWay
<1>2. cstack \in Seq(ClientFrames) /\ cstack # << >> /\ Top.k = "call"
  BY <1>1 DEF Reading, Inv, ClientInv, ClientTypeOK
<1>3. Len(cstack) \in DOMAIN cstack /\ Last(cstack) = cstack[Len(cstack)]
  BY <1>2, FrontDomain
<1> QED BY <1>1, <1>2, <1>3 DEF RequestFits, Top

LEMMA FitStep ==
  ASSUME Inv, Prompt, CallsFit(cstack), HostNext, UNCHANGED clientVars
  PROVE  CallsFit(cstack)'
<1>0. cstack' = cstack /\ hstack \in Seq(Frames) /\ process = "up"
  BY HostIsUp DEF clientVars, Inv, HostInv, ProcessTypeOK, HostTypeOK
<1>1. ASSUME NEW i \in DOMAIN cstack, cstack[i].k = "call", ReadsApi,
             Head(toHost).rid = cstack[i].rid
      PROVE  Head(toHost).op = cstack[i].op
  <2>1. /\ Top.k = "call" /\ Top.rid = cstack[i].rid /\ Top.op = Head(toHost).op
        /\ Len(cstack) \in DOMAIN cstack /\ Top = cstack[Len(cstack)]
    BY <1>0, <1>1, ApiLine DEF ReadsApi
  <2> QED BY <1>1, <2>1 DEF CallsFit
<1>2. ASSUME NEW i \in DOMAIN cstack, cstack[i].k = "call"
      PROVE  ServedAs(cstack[i].rid, cstack[i].op)'
  <2>0. PICK rid, op : rid = cstack[i].rid /\ op = cstack[i].op
    OBVIOUS
  <2>1. ServedAs(rid, op)
    BY <1>2, <2>0 DEF CallsFit
  <2>2. ReadsApi /\ Head(toHost).rid = rid => Head(toHost).op = op
    BY <1>1, <1>2, <2>0
  <2>3. \A j \in DOMAIN hstack' : RequestFrame(hstack'[j]) /\ hstack'[j].rid = rid => hstack'[j].k = op
    <3>1. CASE StaysOrReturns
      <4>1. ASSUME hstack # << >>
            PROVE  \A j \in DOMAIN Front(hstack) :
                     j \in DOMAIN hstack /\ Front(hstack)[j] = hstack[j]
        BY <1>0, <4>1, FrontDomain
      <4> QED BY <2>1, <3>1, <4>1 DEF StaysOrReturns, ServedAs
    <3>2. CASE StartsFrame
      <4>1. PICK f \in Frames : f.k \in {"read", "task"} /\ hstack' = <<f>>
        BY <3>2 DEF StartsFrame
      <4>2. DOMAIN hstack' = {1} /\ hstack'[1] = f
        BY <4>1
      <4> QED BY <4>1, <4>2 DEF RequestFrame
    <3>3. CASE CallsHandler
      <4>1. PICK f \in Frames : f.k = "cb" /\ hstack' = Append(hstack, f)
        BY <3>3 DEF CallsHandler
      <4>2. /\ \A j \in DOMAIN hstack' : j # Len(hstack) + 1 => j \in DOMAIN hstack
            /\ hstack'[Len(hstack) + 1] = f
            /\ \A j \in DOMAIN hstack : hstack'[j] = hstack[j]
        BY <1>0, <4>1, AppendDomain
      <4> QED BY <2>1, <4>1, <4>2 DEF RequestFrame, ServedAs
    <3>4. CASE EntersRequest
      <4>1. PICK f \in Frames, below \in Seq(Frames) :
              /\ ReadsApi /\ f.k = Head(toHost).op /\ f.rid = Head(toHost).rid
              /\ hstack' = Append(below, f) /\ (below = hstack \/ below = << >>)
        BY <3>4 DEF EntersRequest
      <4>2. /\ \A j \in DOMAIN hstack' : j # Len(below) + 1 => j \in DOMAIN below
            /\ hstack'[Len(below) + 1] = f
            /\ \A j \in DOMAIN below : hstack'[j] = below[j]
        BY <4>1, AppendDomain
      <4>3. \A j \in DOMAIN below : j \in DOMAIN hstack /\ below[j] = hstack[j]
        BY <4>1
      <4> QED BY <2>1, <2>2, <4>1, <4>2, <4>3 DEF ServedAs
    <3> QED BY <3>1, <3>2, <3>3, <3>4, HostStackMoves DEF StackMoves
  <2>4. QueueMoves
    BY QueueStep
  <2>5. Promised' /\ Head(imm').rid = rid => op \in {"begin", "complete"}
    <3>1. ASSUME ReturnsBegin, Last(hstack).rid = rid PROVE op = "begin"
      <4>1. hstack # << >> /\ Last(hstack).k = "begin"
        BY <3>1 DEF ReturnsBegin, Running
      <4>2. Len(hstack) \in DOMAIN hstack /\ Last(hstack) = hstack[Len(hstack)]
        BY <1>0, <4>1, FrontDomain
      <4> QED BY <2>1, <3>1, <4>1, <4>2 DEF ServedAs, RequestFrame
    <3>2. imm' = imm => (Promised' <=> Promised)
      BY DEF Promised
    <3> QED BY <2>1, <2>2, <2>4, <3>1, <3>2 DEF QueueMoves, ServedAs
  <2>6. \A e \in pendingEnd' : e.rid = rid => op \in {"end", "load"}
    BY <2>1, <2>2, <2>4 DEF QueueMoves, ServedAs
  <2>7. ServedAs(rid, op)'
    BY <2>3, <2>5, <2>6 DEF ServedAs
  <2> QED BY <1>0, <2>0, <2>7 DEF ServedAs
<1> QED BY <1>0, <1>2 DEF CallsFit

(* While the runtime owes an answer, it is to the program's youngest call. *)
LoopRuns == hstack # << >> => Last(hstack).k = "task"

LEMMA BusyFor ==
  ASSUME Inv, native = "up", HostBusy, NEW open \in Seq(Items), NEW rid \in Rids,
         HostOpen = Append(open, Item("request", rid))
  PROVE  Top.rid = rid
<1>1. HostOpen = ClientOpen /\ Reading
  BY DEF Inv, Agree
<1>2. /\ ClientOpen = Append(OpenOn(<< >>, Front(cstack)), Item("request", Top.rid))
      /\ OpenOn(<< >>, Front(cstack)) \in Seq(Items) /\ Top \in ClientFrames /\ Top.k = "call"
  BY <1>1, WhileReading DEF Inv, Reading
<1>3. Top.rid \in Nat /\ rid \in Nat
  BY <1>2, ClientFrameFields DEF Rids
<1>4. Item("request", rid) = Item("request", Top.rid)
  BY <1>1, <1>2, <1>3, IsItem, AppendInjective
<1> QED BY <1>3, <1>4, SameItem

LEMMA BusyServes ==
  ASSUME Inv, CallsFit(cstack), native = "up", HostBusy
  PROVE  /\ toHost = << >> /\ toClient = << >> /\ Reading /\ ~ Answer
         /\ hstack # << >> /\ Last(hstack).k \in {"sync", "create", "begin"}
              => Top.op = Last(hstack).k
         /\ LoopRuns /\ Promised => Top.op \in {"begin", "complete"}
         /\ LoopRuns /\ pendingEnd # {} => Top.op \in {"end", "load"}
<1>1. toHost = << >> /\ toClient = << >> /\ Reading /\ ~ Answer
  BY DEF Inv, Agree, Answer
<1>2. ServedAs(Top.rid, Top.op)
  <2>1. cstack \in Seq(ClientFrames) /\ cstack # << >> /\ Top.k = "call"
    BY <1>1 DEF Reading, Inv, ClientInv, ClientTypeOK
  <2>2. Len(cstack) \in DOMAIN cstack /\ Top = cstack[Len(cstack)]
    BY <2>1, FrontDomain DEF Top
  <2> QED BY <2>1, <2>2 DEF CallsFit
<1>3. ASSUME hstack # << >>, Last(hstack).k \in {"sync", "create", "begin"}
      PROVE  Top.op = Last(hstack).k
  <2>1. /\ hstack \in Seq(Frames) /\ Front(hstack) \in Seq(Frames)
        /\ Last(hstack) \in Frames
    BY <1>3, HostTop DEF Inv
  <2>2. /\ HostOpen = Append(OpenBelow(Front(hstack)), Item("request", Last(hstack).rid))
        /\ OpenBelow(Front(hstack)) \in Seq(Items) /\ Last(hstack).rid \in Rids
    BY <1>3, <2>1, HostOpenTop, BelowType, FrameFields DEF Inv
  <2>3. Top.rid = Last(hstack).rid
    BY <2>2, BusyFor
  <2>4. Len(hstack) \in DOMAIN hstack /\ Last(hstack) = hstack[Len(hstack)]
    BY <1>3, <2>1, FrontDomain
  <2> QED BY <1>2, <1>3, <2>3, <2>4 DEF ServedAs, RequestFrame
<1>4. LoopRuns => HostOpen = OpenBelow(<< >>)
  <2>1. CASE hstack = << >>
    BY <2>1, HostOpenIs DEF OpenBelow
  <2>2. CASE hstack # << >>
    BY <2>2, HostOpenTop, HostAlone DEF Inv, LoopRuns
  <2> QED BY <2>1, <2>2
<1>5. ASSUME NEW rid \in Rids, HostOpen = <<Item("request", rid)>>
      PROVE  Top.rid = rid
  <2>1. HostOpen = Append(<< >>, Item("request", rid)) /\ << >> \in Seq(Items)
    BY <1>5
  <2> QED BY <2>1, BusyFor
<1>6. ASSUME LoopRuns, Promised
      PROVE  Top.op \in {"begin", "complete"}
  <2>1. OpenBelow(<< >>) = <<Item("request", Head(imm).rid)>> /\ Head(imm).rid \in Rids
    BY <1>6, PromisedOwes DEF Inv
  <2>2. Top.rid = Head(imm).rid
    BY <1>4, <1>5, <1>6, <2>1
  <2> QED BY <1>2, <1>6, <2>2 DEF ServedAs
<1>7. ASSUME LoopRuns, NEW e \in pendingEnd
      PROVE  Top.op \in {"end", "load"}
  <2>1. pendingEnd = {e} /\ imm = << >> /\ e.rid \in Rids
    BY DEF Inv, HostInv, OneDriver, ProcessTypeOK, HostTypeOK
  <2>2. Deferred = {e.rid}
    BY <2>1, DeferredIs, DeferredOne
  <2>3. OpenBelow(<< >>) = <<Item("request", e.rid)>>
    BY <2>2, BaseOne, OpenOnNone DEF OpenBelow
  <2>4. Top.rid = e.rid
    BY <1>4, <1>5, <1>7, <2>1, <2>3
  <2> QED BY <1>2, <1>7, <2>4 DEF ServedAs
<1> QED BY <1>1, <1>3, <1>6, <1>7

-----------------------------------------------------------------------------
(* A step of the runtime moves callbacks at most between those under way   *)
(* and those the kernel waits for.                                         *)
BooksMove ==
  \/ Waiting' = Waiting /\ UnderWay' = UnderWay
  \/ UnderWay = {} /\ UnderWay' \cap Waiting = {} /\ Waiting' = Waiting \cup UnderWay'
  \/ UnderWay' = {} /\ Waiting' = Waiting \ UnderWay

LEMMA LedgerMoves ==
  ASSUME Ledger(Waiting, cstack, UnderWay), BooksMove, cstack' = cstack
  PROVE  Ledger(Waiting, cstack, UnderWay)'
<1>1. PICK W, A : W = Waiting' /\ A = UnderWay'
  OBVIOUS
<1>2. Ledger(W, cstack, A)
  <2>1. CASE W = Waiting /\ A = UnderWay
    BY <2>1
  <2>2. CASE UnderWay = {} /\ A \cap Waiting = {} /\ W = Waiting \cup A
    BY <2>2 DEF Ledger
  <2>3. CASE A = {} /\ W = Waiting \ UnderWay
    BY <2>3 DEF Ledger
  <2> QED BY <1>1, <2>1, <2>2, <2>3 DEF BooksMove
<1> QED BY <1>1, <1>2 DEF Ledger

(* The program waits and the runtime steps.                                *)
HostTurn ==
  /\ Inv /\ Prompt /\ HostNext /\ UNCHANGED clientVars
  /\ native = "up" /\ CallbackInv
HostBooks == BooksMove /\ AnswerInv'

LEMMA TurnFacts ==
  ASSUME HostTurn
  PROVE  /\ Inv /\ HostInv /\ Prompt /\ Orderly /\ HostNext /\ process = "up" /\ ~ eof /\ Agree
         /\ native = "up" /\ CallsFit(cstack) /\ AnswerInv /\ Ledger(Waiting, cstack, UnderWay)
         /\ CallbackIdsUnique /\ OwnersInv /\ Covered
         /\ cstack' = cstack /\ Top' = Top
BY HostIsUp DEF HostTurn, Inv, CallbackInv, Orderly, clientVars, Top

LEMMA TaskOwes ==
  ASSUME Inv, Prompt, hstack # << >>, Last(hstack).k = "task"
  PROVE  Promised /\ HostBusy
<1>1. hstack[1] = Last(hstack)
  BY HostAlone DEF Inv
<1>2. Promised
  BY <1>1 DEF Inv, HostInv, TaskInv
<1> QED BY <1>2, PromisedOwes DEF Inv, HostBusy

LEMMA BeginAlone ==
  ASSUME Inv, Prompt, hstack # << >>, Last(hstack).k = "begin"
  PROVE  Front(hstack) = << >> /\ hstack[1] = Last(hstack)
<1>1. hstack \in Seq(Frames) /\ BeginFirst(hstack)
  BY ShapeIs, HostTop DEF Inv
<1>2. Front(hstack) = << >>
  BY <1>1, FrontShape
<1> QED BY <1>2, BottomStays DEF Inv, HostInv

(* It writes nothing.                                                      *)
LEMMA SilentBooks ==
  ASSUME HostTurn, UNCHANGED <<toHost, toClient>>, waiting' = waiting, ~ RespondImmediate
  PROVE  HostBooks
<1>1. Waiting' = Waiting /\ UnderWay' = UnderWay /\ (Answer' <=> Answer)
  BY TurnFacts DEF Waiting, UnderWay, Answer
<1>2. ASSUME Answer
      PROVE  toHost = << >> /\ ~ HostBusy
  BY <1>2, TurnFacts DEF Agree, Answer
<1>3. Answer => cbs' \subseteq cbs
  <2>1. ASSUME CallAsyncOverride PROVE HostBusy
    <3>1. hstack # << >> /\ Last(hstack).k \in {"begin", "task"}
      BY <2>1 DEF CallAsyncOverride, Running
    <3> QED BY <3>1, TaskOwes, TurnFacts DEF HostBusy
  <2> QED BY <1>2, <2>1, CallbacksShrink, TurnFacts
<1>4. Answer => (Promised' => Promised)
  <2>1. QueueMoves
    BY TurnFacts, QueueStep
  <2>2. ReturnsBegin => HostBusy
    BY DEF ReturnsBegin, Running, HostBusy
  <2>3. imm' = imm => (Promised' <=> Promised)
    BY DEF Promised
  <2> QED BY <1>2, <2>1, <2>2, <2>3 DEF QueueMoves, ReadsApi
<1>5. AnswerInv'
  <2>1. ASSUME Answer'
        PROVE  /\ Top.op = "complete" /\ ~ Head(toClient).ok => ~ Top.err
               /\ Top.op = "callbacks" => cbs' = {}
               /\ Top.op = "begin" => ~ Promised'
    BY <1>1, <1>3, <1>4, <2>1, TurnFacts DEF AnswerInv
  <2> QED BY <2>1, TurnFacts DEF AnswerInv
<1> QED BY <1>1, <1>5 DEF HostBooks, BooksMove

(* What is under way once it has answered, and if it has not.              *)
LEMMA AnswerUnderWay ==
  ASSUME HostTurn, toHost' = << >>, toClient = << >>, NEW rid, NEW ok, NEW ids, Reply(rid, ok, ids)
  PROVE  /\ Answer' /\ Head(toClient').ok = ok
         /\ UnderWay' = IF Top.op = "callbacks" THEN ids
                        ELSE IF Top.op = "complete" /\ ~ ok THEN {Top.id} ELSE {}
<1> DEFINE m == [m |-> "response", rid |-> rid, ok |-> ok, ids |-> ids]
<1>1. toClient' = <<m>>
  BY DEF Reply, Write
<1>2. m.m = "response" /\ m.ok = ok /\ m.ids = ids
  OBVIOUS
<1> HIDE DEF m
<1>3. toClient' # << >> /\ Head(toClient') = m
  BY <1>1
<1>4. Top' = Top
  BY TurnFacts
<1> QED BY <1>2, <1>3, <1>4 DEF Answer, UnderWay

LEMMA NothingUnderWay ==
  /\ toHost = << >> /\ toClient = << >> => UnderWay = {} /\ ~ Answer
  /\ toHost' = << >> /\ toClient' = << >> => UnderWay' = {} /\ ~ Answer'
BY DEF UnderWay, Answer

LEMMA NoQueue ==
  ASSUME HostTurn, NEW below, UnderAnswer(below), below = << >>, NEW rid, NEW ok, NEW ids,
         AnswerAndNext(below, rid, ok, ids)
  PROVE  ~ Promised'
<1>1. imm' = <<RunNext>>
  BY DEF AnswerAndNext, UnderAnswer, Below, NoDriver
<1> QED BY <1>1 DEF Promised, RunNext

(* It reads a request.                                                     *)
LEMMA RequestBooks ==
  ASSUME HostTurn, ReadRequest \/ ReadNested
  PROVE  HostBooks
<1> DEFINE req == Head(toHost)
<1>1. PICK below : /\ UnderAnswer(below) /\ ProcessRequest(below, req)
                   /\ below # << >> => req.op \notin {"begin", "complete"}
  BY RequestRead, TurnFacts
<1>2. /\ toHost # << >> /\ toHost' = << >> /\ toClient = << >>
      /\ req.m = "api" /\ req.op = Top.op /\ req.id = Top.id /\ req.err = Top.err
  BY RequestRead, TurnFacts DEF ReadsApi
<1>3. UnderWay = IF req.op = "complete" THEN {req.id} ELSE {}
  BY <1>2 DEF UnderWay
<1> HIDE DEF req
<1>4. ASSUME toClient' = toClient
      PROVE  UnderWay' = {} /\ AnswerInv'
  BY <1>2, <1>4, NothingUnderWay DEF AnswerInv
<1>5. ASSUME NEW ok, NEW ids, AnswerAndNext(below, req.rid, ok, ids)
      PROVE  /\ Answer' /\ Head(toClient').ok = ok
             /\ UnderWay' = IF Top.op = "callbacks" THEN ids
                            ELSE IF Top.op = "complete" /\ ~ ok THEN {Top.id} ELSE {}
  BY <1>2, <1>5, AnswerUnderWay DEF AnswerAndNext
<1>6. Top' = Top
  BY TurnFacts
<1>7. CASE Refuse(below, req)
  <2>1. /\ req.op \in {"sync", "create", "begin"} /\ AnswerAndNext(below, req.rid, FALSE, {})
        /\ waiting' = waiting
    BY <1>7 DEF Refuse, kernelVars
  <2>2. UnderWay = {} /\ UnderWay' = {} /\ Waiting' = Waiting
    BY <1>2, <1>3, <1>5, <2>1 DEF Waiting
  <2>3. Top.op = "begin" => ~ Promised'
    BY <1>1, <1>2, <2>1, NoQueue
  <2>4. AnswerInv'
    BY <1>2, <1>6, <2>1, <2>3 DEF AnswerInv
  <2> QED BY <2>2, <2>4 DEF HostBooks, BooksMove
<1>8. CASE EnterSync(below, req) \/ EnterBegin(below, req)
  <2>1. req.op # "complete" /\ waiting' = waiting /\ toClient' = toClient
    BY <1>8 DEF EnterSync, EnterBegin, SyncApi
  <2>2. UnderWay = {} /\ Waiting' = Waiting
    BY <1>3, <2>1 DEF Waiting
  <2> QED BY <1>4, <2>1, <2>2 DEF HostBooks, BooksMove
<1>9. CASE Callbacks(below, req)
  <2>1. /\ req.op = "callbacks" /\ AnswerAndNext(below, req.rid, TRUE, {c.id : c \in cbs})
        /\ waiting' = waiting \cup cbs /\ cbs' = {}
    BY <1>9 DEF Callbacks
  <2>2. UnderWay = {} /\ UnderWay' = {c.id : c \in cbs}
    BY <1>2, <1>3, <1>5, <2>1
  <2>3. UnderWay' \cap Waiting = {}
    BY <2>2, TurnFacts DEF CallbackIdsUnique, Waiting
  <2>4. Waiting' = Waiting \cup UnderWay'
    BY <2>1, <2>2 DEF Waiting
  <2>5. AnswerInv'
    BY <1>2, <1>6, <2>1 DEF AnswerInv
  <2> QED BY <2>2, <2>3, <2>4, <2>5 DEF HostBooks, BooksMove
<1>10. CASE Complete(below, req)
  <2>1. PICK c \in waiting : c.id = req.id /\ waiting' = waiting \ {c}
    BY <1>10 DEF Complete, Settle
  <2>2. req.op = "complete" /\ RespondLater(below, req.rid, {}) /\ below = << >>
    BY <1>1, <1>10 DEF Complete
  <2>3. toClient' = toClient
    BY <2>2 DEF RespondLater
  <2>4. Waiting' = Waiting \ UnderWay
    <3>1. \A d \in waiting : d.id = req.id => d = c
      BY <2>1, TurnFacts DEF CallbackIdsUnique
    <3> QED BY <1>3, <2>1, <2>2, <3>1 DEF Waiting
  <2> QED BY <1>4, <2>3, <2>4 DEF HostBooks, BooksMove
<1>11. CASE CompleteFails(below, req)
  <2>1. /\ req.op = "complete" /\ AnswerAndNext(below, req.rid, FALSE, {})
        /\ waiting' = waiting /\ (~ req.err \/ \A c \in waiting : c.id # req.id)
    BY <1>11 DEF CompleteFails, kernelVars
  <2>2. UnderWay = {req.id} /\ UnderWay' = {req.id} /\ Waiting' = Waiting
    BY <1>2, <1>3, <1>5, <2>1 DEF Waiting
  <2>3. \E c \in waiting : c.id = req.id
    BY <2>2, TurnFacts DEF Ledger, Waiting
  <2>4. ~ Top.err
    BY <1>2, <2>1, <2>3
  <2>5. AnswerInv'
    BY <1>2, <1>6, <2>1, <2>4 DEF AnswerInv
  <2> QED BY <2>2, <2>5 DEF HostBooks, BooksMove
<1>12. CASE EndOrLoad(below, req)
  <2>1. PICK id : /\ req.op \in {"end", "load"} /\ waiting' = waiting
                  /\ RespondWhenSettled(below, req.rid, id)
    BY <1>12 DEF EndOrLoad, kernelVars
  <2>2. UnderWay = {} /\ Waiting' = Waiting
    BY <1>3, <2>1 DEF Waiting
  <2>3. UnderWay' = {} /\ AnswerInv'
    <3>1. CASE below = << >>
      BY <1>4, <2>1, <3>1 DEF RespondWhenSettled
    <3>2. CASE below # << >>
      <4>1. AnswerAndNext(below, req.rid, FALSE, {})
        BY <2>1, <3>2 DEF RespondWhenSettled
      <4> QED BY <1>2, <1>5, <1>6, <2>1, <4>1 DEF AnswerInv
    <3> QED BY <3>1, <3>2
  <2> QED BY <2>2, <2>3 DEF HostBooks, BooksMove
<1> QED BY <1>1, <1>7, <1>8, <1>9, <1>10, <1>11, <1>12 DEF ProcessRequest

(* It reads a completion, and calls an override.                           *)
LEMMA HandlerBooks ==
  ASSUME HostTurn, ReadCompletion \/ CallSyncOverride
  PROVE  HostBooks
<1>1. CASE ReadCompletion
  <2>1. /\ toHost # << >> /\ Head(toHost).m = "complete" /\ toHost' = Tail(toHost)
        /\ toClient' = toClient /\ waiting' = waiting
    BY <1>1 DEF ReadCompletion, kernelVars
  <2>2. toHost = <<Head(toHost)>> /\ toClient = << >>
    BY <2>1, LineUnderWay, TurnFacts
  <2>3. toHost' = << >>
    <3>1. PICK m : toHost = <<m>>
      BY <2>2
    <3> QED BY <2>1, <3>1
  <2>4. UnderWay = {}
    BY <2>1 DEF UnderWay
  <2>5. UnderWay' = {} /\ ~ Answer' /\ Waiting' = Waiting
    BY <2>1, <2>2, <2>3, NothingUnderWay DEF Waiting
  <2> QED BY <2>4, <2>5 DEF HostBooks, BooksMove, AnswerInv
<1>2. CASE CallSyncOverride
  <2>1. HostBusy /\ toHost' = toHost /\ Write([m |-> "callback", id |-> nextid]) /\ waiting' = waiting
    BY <1>2, OverrideOpens, TurnFacts DEF CallsBack, CallSyncOverride
  <2>2. toHost = << >> /\ toClient = << >>
    BY <2>1, BusyServes, TurnFacts
  <2>3. toClient' # << >> /\ Head(toClient').m = "callback"
    <3>1. toClient' = <<[m |-> "callback", id |-> nextid]>>
      BY <2>1, <2>2 DEF Write
    <3> QED BY <3>1
  <2>4. ~ Answer' /\ UnderWay' = {} /\ UnderWay = {} /\ Waiting' = Waiting
    BY <2>1, <2>2, <2>3, NothingUnderWay DEF Answer, UnderWay, Waiting
  <2> QED BY <2>4 DEF HostBooks, BooksMove, AnswerInv
<1> QED BY <1>1, <1>2

(* It answers.                                                             *)
LEMMA AnswerBooks ==
  ASSUME HostTurn, ReturnSync \/ ThrowBegin \/ RespondImmediate \/ RespondSettled
  PROVE  HostBooks
<1>1. toHost' = toHost /\ waiting' = waiting
  BY DEF ReturnSync, ThrowBegin, RespondImmediate, RespondSettled, kernelVars
<1>2. HostBusy
  <2>1. CASE ReturnSync \/ ThrowBegin
    BY <2>1 DEF ReturnSync, ThrowBegin, Running, HostBusy
  <2>2. CASE RespondImmediate \/ RespondSettled
    BY <2>2, LoopAnswers, TurnFacts DEF Answers
  <2> QED BY <2>1, <2>2
<1>3. toHost = << >> /\ toHost' = << >> /\ toClient = << >> /\ UnderWay = {}
  BY <1>1, <1>2, BusyServes, TurnFacts, NothingUnderWay
<1>4. \E rid, ok, ids :
        /\ Reply(rid, ok, ids)
        /\ Top.op \in {"sync", "create", "end", "load"} \/ (Top.op = "begin" /\ ~ Promised')
             \/ (Top.op = "complete" /\ ok = TRUE)
  <2>1. CASE ReturnSync
    <3>1. PICK ok : AnswerAndNext(Front(hstack), Last(hstack).rid, ok, {})
      BY <2>1 DEF ReturnSync
    <3>2. hstack # << >> /\ Last(hstack).k \in {"sync", "create"}
      BY <2>1 DEF ReturnSync, Running
    <3>3. Top.op \in {"sync", "create"}
      BY <1>2, <3>2, BusyServes, TurnFacts
    <3> QED BY <3>1, <3>3 DEF AnswerAndNext
  <2>2. CASE ThrowBegin
    <3>1. /\ AnswerAndNext(Front(hstack), Last(hstack).rid, FALSE, {})
          /\ hstack # << >> /\ Last(hstack).k = "begin"
      BY <2>2 DEF ThrowBegin, Running
    <3>2. Front(hstack) = << >> /\ UnderAnswer(Front(hstack)) /\ Top.op = "begin"
      BY <1>2, <3>1, BeginAlone, UnderReturn, BusyServes, TurnFacts
    <3>3. ~ Promised'
      BY <3>1, <3>2, NoQueue
    <3> QED BY <3>1, <3>2, <3>3 DEF AnswerAndNext
  <2>3. CASE RespondImmediate
    <3>1. /\ Promised /\ LoopRuns /\ Reply(Head(imm).rid, TRUE, Head(imm).ids)
          /\ imm' = Append(Tail(imm), RunNext)
      BY <2>3 DEF RespondImmediate, Idle, Promised, LoopRuns
    <3>2. Top.op \in {"begin", "complete"}
      BY <1>2, <3>1, BusyServes, TurnFacts
    <3>3. imm' = <<RunNext>>
      <4>1. Append(<< >>, RunNext) = <<RunNext>>
        OBVIOUS
      <4> QED BY <3>1, <4>1, QueueOfOne, TurnFacts DEF Promised
    <3>4. ~ Promised'
      BY <3>3 DEF Promised, RunNext
    <3> QED BY <3>1, <3>2, <3>4
  <2>4. CASE RespondSettled
    <3>1. PICK e \in pendingEnd, ok \in BOOLEAN : Reply(e.rid, ok, {})
      BY <2>4 DEF RespondSettled
    <3>2. LoopRuns
      BY <2>4 DEF RespondSettled, Idle, LoopRuns
    <3>3. Top.op \in {"end", "load"}
      BY <1>2, <3>1, <3>2, BusyServes, TurnFacts
    <3> QED BY <3>1, <3>3
  <2> QED BY <2>1, <2>2, <2>3, <2>4
<1>5. PICK rid, ok, ids :
        /\ Reply(rid, ok, ids)
        /\ Top.op \in {"sync", "create", "end", "load"} \/ (Top.op = "begin" /\ ~ Promised')
             \/ (Top.op = "complete" /\ ok = TRUE)
  BY <1>4
<1>6. /\ Answer' /\ Head(toClient').ok = ok
      /\ UnderWay' = IF Top.op = "callbacks" THEN ids
                     ELSE IF Top.op = "complete" /\ ~ ok THEN {Top.id} ELSE {}
  BY <1>3, <1>5, AnswerUnderWay
<1>7. UnderWay' = {} /\ Waiting' = Waiting
  BY <1>1, <1>5, <1>6 DEF Waiting
<1>8. Top' = Top
  BY TurnFacts
<1>9. AnswerInv'
  BY <1>5, <1>6, <1>8 DEF AnswerInv
<1> QED BY <1>3, <1>7, <1>9 DEF HostBooks, BooksMove

LEMMA HostStepBooks ==
  ASSUME HostTurn
  PROVE  HostBooks
<1>1. CASE ReadRequest \/ ReadNested
  BY <1>1, RequestBooks
<1>2. CASE ReadCompletion \/ CallSyncOverride
  BY <1>2, HandlerBooks
<1>3. CASE ReturnSync \/ ThrowBegin \/ RespondImmediate \/ RespondSettled
  BY <1>3, AnswerBooks
<1>4. CASE ReturnBegin
  <2>1. /\ hstack # << >> /\ Last(hstack).k = "begin" /\ toHost' = toHost /\ waiting' = waiting
        /\ RespondLater(Front(hstack), Last(hstack).rid, {nextid})
    BY <1>4 DEF ReturnBegin, Running
  <2>2. toClient' = toClient
    BY <2>1, BeginAlone, TurnFacts DEF RespondLater
  <2>3. ~ RespondImmediate
    BY <2>1 DEF RespondImmediate, Idle
  <2> QED BY <2>1, <2>2, <2>3, SilentBooks
<1>5. CASE Run \/ ReadMalformed \/ ReadEnd \/ ReadInterrupted \/ CallAsyncOverride \/ ResumeTask
             \/ ReturnTask \/ TimerFires \/ EventLoopEmpty
  <2>1. CASE ReadMalformed
    BY <2>1, NothingMalformed, TurnFacts
  <2>2. CASE ~ ReadMalformed /\ ~ RespondImmediate
    <3>1. UNCHANGED <<toHost, toClient>> /\ waiting' = waiting
      BY <1>5, <2>2 DEF Run, ReadEnd, ReadInterrupted, CallAsyncOverride, ResumeTask, ReturnTask,
                        TimerFires, EventLoopEmpty, wireVars, kernelVars
    <3> QED BY <2>2, <3>1, SilentBooks
  <2> QED BY <1>3, <2>1, <2>2
<1> QED BY <1>1, <1>2, <1>3, <1>4, <1>5, TurnFacts DEF HostNext

-----------------------------------------------------------------------------
(* No step of the runtime loses the fetch that a queued callback needs.    *)
LEMMA TopFetches ==
  ASSUME HostTurn, Reading, Top.op = "complete" \/ (Top.op = "begin" /\ Promised')
  PROVE  Fetches'
<1>1. cstack \in Seq(ClientFrames) /\ cstack # << >> /\ Top.k = "call"
  BY TurnFacts DEF Reading, Inv, ClientInv, ClientTypeOK
<1>2. Len(cstack) \in DOMAIN cstack /\ Top = cstack[Len(cstack)]
  BY <1>1, FrontDomain DEF Top
<1>3. cstack' = cstack
  BY TurnFacts
<1>4. \E i \in DOMAIN cstack : /\ cstack[i].k = "call"
                               /\ cstack[i].op = "complete" \/ (cstack[i].op = "begin" /\ Promised')
  BY <1>1, <1>2
<1>5. Sustained(cstack)'
  BY <1>3, <1>4 DEF Sustained, Fetching
<1> QED BY <1>5 DEF Fetches

LEMMA OwedFetches ==
  ASSUME HostTurn, HostBusy, LoopRuns, Promised, Promised'
  PROVE  Fetches'
BY BusyServes, TurnFacts, TopFetches

LEMMA BeginFetches ==
  ASSUME HostTurn, ReturnBegin
  PROVE  Fetches'
<1>1. /\ hstack # << >> /\ Last(hstack).k = "begin" /\ HostBusy
      /\ RespondLater(Front(hstack), Last(hstack).rid, {nextid})
  BY DEF ReturnBegin, Running, HostBusy
<1>2. Reading /\ Top.op = "begin" /\ Front(hstack) = << >> /\ UnderAnswer(Front(hstack))
  BY <1>1, BusyServes, BeginAlone, UnderReturn, TurnFacts
<1>3. Promised'
  <2> DEFINE r == [k |-> "respond", rid |-> Last(hstack).rid, ids |-> {nextid}]
  <2>1. imm' = <<r>>
    BY <1>1, <1>2 DEF RespondLater, UnderAnswer, Below, NoDriver
  <2>2. r.k = "respond"
    OBVIOUS
  <2> HIDE DEF r
  <2> QED BY <2>1, <2>2 DEF Promised
<1> QED BY <1>2, <1>3, TopFetches

LEMMA FetchesStep ==
  ASSUME HostTurn, Fetches
  PROVE  Fetches' \/ cbs' = {}
<1>1. CASE Sustained(cstack)
  <2>1. PICK i \in DOMAIN cstack : Fetching(cstack[i])
    BY <1>1 DEF Sustained
  <2>2. CASE Promised => Promised'
    <3>1. Sustained(cstack)'
      BY <2>1, <2>2, TurnFacts DEF Sustained, Fetching
    <3> QED BY <3>1 DEF Fetches
  <2>3. CASE Promised /\ ~ Promised'
    <3>1. RespondImmediate
      BY <2>3, QueueStep, TurnFacts DEF QueueMoves
    <3>2. /\ HostBusy /\ LoopRuns /\ toHost' = toHost
          /\ Reply(Head(imm).rid, TRUE, Head(imm).ids)
      BY <3>1, LoopAnswers, TurnFacts DEF Answers, RespondImmediate, Idle, LoopRuns
    <3>3. Reading /\ Top.op \in {"begin", "complete"} /\ toHost = << >> /\ toClient = << >>
      BY <2>3, <3>2, BusyServes, TurnFacts
    <3>4. CASE Top.op = "complete"
      BY <3>3, <3>4, TopFetches
    <3>5. CASE Top.op = "begin"
      <4>1. Answer' /\ Head(toClient').ok = TRUE
        BY <3>2, <3>3, AnswerUnderWay
      <4> QED BY <3>5, <4>1, TurnFacts DEF Fetches
    <3> QED BY <3>3, <3>4, <3>5
  <2> QED BY <2>2, <2>3
<1>2. CASE toHost # << >> /\ Head(toHost).m = "api" /\ Head(toHost).op = "callbacks"
  <2>1. CASE ReadRequest \/ ReadNested
    <3>1. PICK below : ProcessRequest(below, Head(toHost))
      BY <2>1 DEF ReadRequest, ReadNested
    <3>2. Callbacks(below, Head(toHost))
      BY <1>2, <3>1 DEF ProcessRequest, Refuse, EnterSync, SyncApi, EnterBegin, Complete,
                        CompleteFails, EndOrLoad
    <3> QED BY <3>2 DEF Callbacks
  <2>2. CASE ~ (ReadRequest \/ ReadNested)
    <3>1. toHost' = toHost
      BY <1>2, <2>2, TurnFacts
         DEF HostNext, Run, ReadMalformed, ReadEnd, ReadCompletion,
             ReadInterrupted, CallSyncOverride, CallAsyncOverride, ReturnSync, ReturnBegin,
             ThrowBegin, ResumeTask, ReturnTask, TimerFires, RespondImmediate, RespondSettled,
             EventLoopEmpty, wireVars
    <3> QED BY <1>2, <3>1 DEF Fetches
  <2> QED BY <2>1, <2>2
<1>3. CASE Answer /\ Top.op = "begin" /\ Head(toClient).ok
  <2>1. toHost = << >> /\ ~ HostBusy
    BY <1>3, TurnFacts DEF Agree, Answer
  <2>2. toClient' = toClient
    BY <2>1, HostGoesOn, TurnFacts
       DEF HostEvent, GoesOn, Accepts, AnswersAtOnce, ReadsApi, Answers, CallsBack, IsCompleted,
           IsInterrupted
  <2>3. Top' = Top
    BY TurnFacts
  <2> QED BY <1>3, <2>2, <2>3 DEF Fetches, Answer
<1> QED BY <1>1, <1>2, <1>3 DEF Fetches

LEMMA BeginningStep ==
  ASSUME HostTurn, NEW p \in Ids, Beginning(p)
  PROVE  Beginning(p)' \/ promises'[p] = "none" \/ Fetches'
<1>1. hstack # << >> /\ hstack[1].k = "begin" /\ hstack[1].id = p /\ hstack \in Seq(Frames)
      /\ promises \in [Ids -> PromiseStates]
  BY TurnFacts DEF Beginning, HostInv, ProcessTypeOK, HostTypeOK
<1>2. CASE hstack' # << >> /\ hstack'[1] = hstack[1]
  BY <1>1, <1>2 DEF Beginning
<1>3. CASE StaysOrReturns
  <2>1. CASE hstack' = Front(hstack) /\ Front(hstack) = << >>
    <3>1. Last(hstack).k = "begin" /\ Last(hstack).id = p /\ hstack' # hstack
      BY <1>1, <2>1, BottomStays, TurnFacts DEF HostInv
    <3>2. ReturnBegin \/ ThrowBegin
      <4>1. ~ CallSyncOverride
        <5>1. ASSUME CallSyncOverride PROVE \E f \in Frames : hstack' = Append(hstack, f)
          <6>1. nextid \in Ids /\ hstack' = Append(hstack, Frame("cb", 0, nextid))
            BY <5>1, NextIdIsId, TurnFacts DEF CallSyncOverride, HostInv, ProcessTypeOK, HostTypeOK
          <6> QED BY <6>1, FramesBuilt
        <5> QED BY <1>1, <2>1, <5>1, AppendedFront
      <4>2. ~ (CallAsyncOverride \/ TimerFires \/ EventLoopEmpty \/ RespondImmediate
                 \/ RespondSettled \/ Run \/ ResumeTask)
        BY <1>1, <3>1 DEF CallAsyncOverride, TimerFires, EventLoopEmpty, RespondImmediate,
                          RespondSettled, Run, ResumeTask, Idle, loopVars
      <4>3. ~ (ReadRequest \/ ReadMalformed \/ ReadEnd \/ ReadNested \/ ReadCompletion
                 \/ ReadInterrupted \/ ReturnSync \/ ReturnTask)
        BY <3>1 DEF ReadRequest, ReadMalformed, ReadEnd, ReadNested, ReadCompletion,
                    ReadInterrupted, ReturnSync, ReturnTask, Running
      <4> QED BY <4>1, <4>2, <4>3, TurnFacts DEF HostNext
    <3>3. ThrowBegin => promises'[p] = "none"
      BY <1>1, <3>1 DEF ThrowBegin
    <3> QED BY <3>2, <3>3, BeginFetches
  <2>2. CASE hstack' = Front(hstack) /\ Front(hstack) # << >>
    BY <1>1, <1>2, <2>2, BottomStays, TurnFacts DEF HostInv
  <2>3. CASE hstack' = hstack
    BY <1>1, <1>2, <2>3
  <2> QED BY <1>3, <2>1, <2>2, <2>3 DEF StaysOrReturns
<1>4. ASSUME NEW f \in Frames, hstack' = Append(hstack, f)
      PROVE  hstack' # << >> /\ hstack'[1] = hstack[1]
  BY <1>1, <1>4, AppendedFront, Appended
<1>5. CASE CallsHandler
  BY <1>2, <1>4, <1>5 DEF CallsHandler
<1>6. CASE EntersRequest
  <2>1. PICK f \in Frames, below \in Seq(Frames) :
          /\ hstack' = Append(below, f) /\ Last(hstack).k \in {"read", "cb"}
          /\ below = hstack \/ (below = << >> /\ Front(hstack) = << >>)
    BY <1>6 DEF EntersRequest
  <2>2. Front(hstack) # << >>
    BY <1>1, <2>1, BottomStays, TurnFacts DEF HostInv
  <2> QED BY <1>2, <1>4, <2>1, <2>2
<1>7. ~ StartsFrame
  BY <1>1 DEF StartsFrame
<1> QED BY <1>3, <1>5, <1>6, <1>7, HostStackMoves, TurnFacts DEF StackMoves

LEMMA CoveredStep ==
  ASSUME HostTurn
  PROVE  Covered'
<1>0. /\ cbs \cup waiting \subseteq PendingCallbacks /\ promises \in [Ids -> PromiseStates]
      /\ nextid \in Nat
  BY TurnFacts DEF HostInv, ProcessTypeOK, HostTypeOK
<1>1. ASSUME NEW c \in cbs, c \in cbs'
      PROVE  promises'[c.owner] = "none" \/ Beginning(c.owner)' \/ Fetches'
  <2>0. c.owner \in Ids /\ c.owner \in Nat /\ c.owner < nextid
    BY <1>0, TurnFacts DEF PendingCallbacks, OwnersInv, Ids
  <2>1. CASE promises[c.owner] = "none"
    <3>1. ASSUME promises'[c.owner] # "none"
          PROVE  Fetches'
      <4>1. (ReturnBegin \/ ReturnTask) /\ c.owner = Last(hstack).id
        <5>1. c.owner # nextid
          BY <1>0, <2>0
        <5> QED BY <2>0, <2>1, <3>1, <5>1, PromiseMoves, TurnFacts
      <4>2. CASE ReturnTask
        <5>1. hstack # << >> /\ Last(hstack).k = "task" /\ imm' = imm
          BY <4>2 DEF ReturnTask, Running
        <5>2. Promised /\ HostBusy /\ LoopRuns /\ Promised'
          BY <5>1, TaskOwes, TurnFacts DEF LoopRuns, Promised
        <5> QED BY <5>2, OwedFetches
      <4> QED BY <4>1, <4>2, BeginFetches
    <3> QED BY <3>1
  <2>2. CASE Beginning(c.owner)
    BY <2>0, <2>2, BeginningStep
  <2>3. CASE Fetches
    BY <1>1, <2>3, FetchesStep
  <2> QED BY <2>1, <2>2, <2>3, TurnFacts DEF Covered
<1>2. ASSUME NEW c \in cbs', c \notin cbs
      PROVE  Beginning(c.owner)' \/ Fetches'
  <2>1. CallAsyncOverride
    BY <1>2, CallbacksShrink, TurnFacts
  <2>2. /\ hstack # << >> /\ Last(hstack).k \in {"begin", "task"}
        /\ hstack' = hstack /\ imm' = imm /\ c.owner = Last(hstack).id
    BY <1>2, <2>1 DEF CallAsyncOverride, Running, loopVars
  <2>3. CASE Last(hstack).k = "begin"
    <3>1. hstack'[1] = Last(hstack) /\ hstack' # << >>
      BY <2>2, <2>3, BeginAlone, TurnFacts
    <3> QED BY <2>2, <2>3, <3>1 DEF Beginning
  <2>4. CASE Last(hstack).k = "task"
    <3>1. Promised /\ HostBusy /\ LoopRuns /\ Promised'
      BY <2>2, <2>4, TaskOwes, TurnFacts DEF LoopRuns, Promised
    <3> QED BY <3>1, OwedFetches
  <2> QED BY <2>2, <2>3, <2>4
<1> QED BY <1>1, <1>2 DEF Covered

-----------------------------------------------------------------------------
(* The runtime keeps the books, whoever is still there.                    *)
LEMMA HostKeepsBooks ==
  ASSUME Inv, CallbackInv, Prompt, HostNext, UNCHANGED clientVars
  PROVE  CallbackInv'
<1>1. CallbackIdsUnique'
  <2>1. ProcessTypeOK /\ CallbackIdsUnique /\ ProcessNext
    BY DEF Inv, HostInv, CallbackInv, ProcessNext
  <2> QED BY <2>1, UniqueStep
<1>2. OwnersInv'
  BY OwnersStep DEF CallbackInv
<1>3. ASSUME native' = "up"
      PROVE  Ledger(Waiting, cstack, UnderWay)' /\ CallsFit(cstack)' /\ AnswerInv' /\ Covered'
  <2>1. HostTurn
    BY <1>3 DEF HostTurn, clientVars
  <2>2. HostBooks /\ Covered'
    BY <2>1, HostStepBooks, CoveredStep
  <2>3. CallsFit(cstack)'
    BY <2>1, TurnFacts, FitStep
  <2>4. Ledger(Waiting, cstack, UnderWay)'
    BY <2>1, <2>2, TurnFacts, LedgerMoves DEF HostBooks
  <2> QED BY <2>2, <2>3, <2>4 DEF HostBooks
<1> QED BY <1>1, <1>2, <1>3 DEF CallbackInv

LEMMA DeathKeepsBooks ==
  ASSUME CallbackInv, RuntimeDies \/ UNCHANGED vars
  PROVE  CallbackInv'
<1>1. UNCHANGED <<wireVars, clientVars, hstack, imm, pendingEnd, kernelVars>>
  BY DEF RuntimeDies, vars, hostVars, loopVars
<1>2. /\ toHost' = toHost /\ toClient' = toClient /\ cstack' = cstack /\ native' = native
      /\ hstack' = hstack /\ imm' = imm /\ pendingEnd' = pendingEnd /\ promises' = promises
      /\ cbs' = cbs /\ waiting' = waiting /\ nextid' = nextid
  BY <1>1 DEF wireVars, clientVars, kernelVars
<1>3. Top' = Top /\ (Promised' <=> Promised) /\ (Answer' <=> Answer) /\ Waiting' = Waiting
  BY <1>2 DEF Top, Promised, Answer, Waiting
<1>4. UnderWay' = UnderWay /\ (AnswerInv => AnswerInv')
  BY <1>2, <1>3 DEF UnderWay, AnswerInv
<1>5. CallsFit(cstack) => CallsFit(cstack)'
  BY <1>2, <1>3 DEF CallsFit, ServedAs
<1>6. Ledger(Waiting, cstack, UnderWay) => Ledger(Waiting, cstack, UnderWay)'
  <2>1. BooksMove
    BY <1>3, <1>4 DEF BooksMove
  <2> QED BY <1>2, <2>1, LedgerMoves
<1>7. Fetches => Fetches'
  BY <1>2, <1>3 DEF Fetches, Sustained, Fetching
<1>8. Covered => Covered'
  BY <1>2, <1>7 DEF Covered, Beginning
<1>9. CallbackIdsUnique' /\ OwnersInv'
  BY <1>2 DEF CallbackInv, CallbackIdsUnique, OwnersInv
<1> QED BY <1>2, <1>4, <1>5, <1>6, <1>8, <1>9 DEF CallbackInv

LEMMA ReadClosedKeepsBooks ==
  ASSUME CallbackInv, ReadClosed, UNCHANGED hostVars
  PROVE  CallbackInv'
<1>1. native' = "failed"
  BY DEF ReadClosed
<1>2. CallbackIdsUnique' /\ OwnersInv'
  BY DEF CallbackInv, CallbackIdsUnique, OwnersInv, hostVars, loopVars, kernelVars
<1> QED BY <1>1, <1>2 DEF CallbackInv

LEMMA BooksInit == Init => CallbackInv
<1> SUFFICES ASSUME Init PROVE CallbackInv
  OBVIOUS
<1>1. /\ toHost = << >> /\ toClient = << >> /\ cstack = << >> /\ native = "up"
      /\ hstack = << >> /\ cbs = {} /\ waiting = {} /\ promises = [p \in Ids |-> "none"]
  BY DEF Init, WireInit, ClientInit, HostInit
<1>2. UnderWay = {} /\ ~ Answer /\ Waiting = {}
  BY <1>1, NothingUnderWay DEF Waiting
<1>3. DOMAIN cstack = {} /\ DOMAIN hstack = {}
  BY <1>1
<1>4. Ledger(Waiting, cstack, UnderWay) /\ CallsFit(cstack)
  BY <1>2, <1>3 DEF Ledger, CallsFit
<1>5. CallbackIdsUnique /\ OwnersInv
  BY <1>1, <1>3 DEF CallbackIdsUnique, OwnersInv
<1>6. AnswerInv /\ Covered
  BY <1>1, <1>2 DEF AnswerInv, Covered
<1> QED BY <1>4, <1>5, <1>6 DEF CallbackInv

LEMMA BooksStep ==
  ASSUME Inv, CallbackInv, Prompt, "unmapped" \notin Native, [Next]_vars
  PROVE  CallbackInv'
<1>1. CASE ClientStep
  BY <1>1, ProgramKeepsBooks, ReadClosedKeepsBooks DEF ClientStep
<1>2. CASE HostStep
  BY <1>2, HostKeepsBooks DEF HostStep
<1>3. CASE RuntimeDies \/ UNCHANGED vars
  BY <1>3, DeathKeepsBooks
<1> QED BY <1>1, <1>2, <1>3 DEF Next

-----------------------------------------------------------------------------
(* One place each.                                                         *)
AtMostOne(S) == \A i, j \in S : i = j

LEMMA CountOne ==
  ASSUME NEW S, AtMostOne(S)
  PROVE  Cardinality(S) = IF S = {} THEN 0 ELSE 1
<1>1. CASE S = {}
  BY <1>1, FS_EmptySet
<1>2. CASE S # {}
  <2>1. PICK x \in S : TRUE
    BY <1>2
  <2>2. S = {x}
    BY <2>1 DEF AtMostOne
  <2>3. Cardinality({x}) = 1
    BY FS_Singleton
  <2> QED BY <1>2, <2>2, <2>3
<1> QED BY <1>1, <1>2

LEMMA CountPlaces ==
  ASSUME NEW A, NEW B, NEW C, NEW D, NEW E,
         AtMostOne(A), AtMostOne(B), AtMostOne(C), AtMostOne(D), AtMostOne(E),
         A # {} => B = {} /\ C = {} /\ D = {} /\ E = {},
         B # {} => C = {} /\ D = {} /\ E = {},
         C # {} => D = {} /\ E = {},
         D # {} => E = {}
  PROVE  Cardinality(A) + Cardinality(B) + Cardinality(C) + Cardinality(D) + Cardinality(E)
           = IF A # {} \/ B # {} \/ C # {} \/ D # {} \/ E # {} THEN 1 ELSE 0
<1>1. /\ Cardinality(A) = IF A = {} THEN 0 ELSE 1
      /\ Cardinality(B) = IF B = {} THEN 0 ELSE 1
      /\ Cardinality(C) = IF C = {} THEN 0 ELSE 1
      /\ Cardinality(D) = IF D = {} THEN 0 ELSE 1
      /\ Cardinality(E) = IF E = {} THEN 0 ELSE 1
  BY CountOne
<1> QED BY <1>1

LEMMA PlacesCounted ==
  ASSUME Inv, CallbackInv, native = "up", NEW c \in Ids
  PROVE  LET todos == {i \in DOMAIN cstack : c \in cstack[i].todo}
             runs  == {i \in DOMAIN cstack :
                         cstack[i].k = "handler" /\ cstack[i].op = "callbacks" /\ cstack[i].id = c}
             sent  == {i \in DOMAIN toHost :
                         toHost[i].m = "api" /\ toHost[i].op = "complete" /\ toHost[i].id = c}
             back  == {i \in DOMAIN toClient :
                         toClient[i].m = "response" /\ ~ toClient[i].ok /\ Reading
                           /\ Top.op = "complete" /\ Top.id = c}
             sending == {i \in DOMAIN toClient :
                         toClient[i].m = "response" /\ c \in toClient[i].ids
                           /\ Reading /\ Top.op = "callbacks"}
         IN  Cardinality(todos) + Cardinality(runs) + Cardinality(sent)
               + Cardinality(back) + Cardinality(sending)
             = IF \E w \in waiting : w.id = c THEN 1 ELSE 0
<1> DEFINE todos == {i \in DOMAIN cstack : c \in cstack[i].todo}
           runs  == {i \in DOMAIN cstack :
                       cstack[i].k = "handler" /\ cstack[i].op = "callbacks" /\ cstack[i].id = c}
           sent  == {i \in DOMAIN toHost :
                       toHost[i].m = "api" /\ toHost[i].op = "complete" /\ toHost[i].id = c}
           back  == {i \in DOMAIN toClient :
                       toClient[i].m = "response" /\ ~ toClient[i].ok /\ Reading
                         /\ Top.op = "complete" /\ Top.id = c}
           sending == {i \in DOMAIN toClient :
                       toClient[i].m = "response" /\ c \in toClient[i].ids
                         /\ Reading /\ Top.op = "callbacks"}
<1>1. Ledger(Waiting, cstack, UnderWay) /\ Agree /\ cstack \in Seq(ClientFrames)
  BY DEF CallbackInv, Inv, ClientInv, ClientTypeOK
<1>2. \A i \in DOMAIN cstack : cstack[i].k = "handler" => cstack[i].todo = {}
  <2>1. \A i \in DOMAIN cstack : cstack[i] \in ClientFrames
    BY <1>1, LenProperties
  <2> QED BY <2>1, ClientFrameFields
<1>3. \A i \in todos : i \in DOMAIN cstack /\ c \in Held(cstack[i]) /\ i \notin runs
  BY <1>2 DEF Held
<1>4. \A i \in runs : i \in DOMAIN cstack /\ c \in Held(cstack[i]) /\ i \notin todos
  BY <1>2 DEF Held
<1>5. \A i \in DOMAIN cstack : c \in Held(cstack[i]) => i \in todos \/ i \in runs
  BY DEF Held
<1> DEFINE OnTheWay == /\ AtMostOne(sent) /\ AtMostOne(back) /\ AtMostOne(sending)
                       /\ sent # {} => back = {} /\ sending = {}
                       /\ back # {} => sending = {}
                       /\ sent # {} \/ back # {} \/ sending # {} <=> c \in UnderWay
<1>6. OnTheWay
  <2>1. CASE toHost = << >> /\ toClient = << >>
    <3>1. DOMAIN toHost = {} /\ DOMAIN toClient = {} /\ UnderWay = {}
      BY <2>1, NothingUnderWay
    <3> QED BY <3>1 DEF AtMostOne
  <2>2. ASSUME NEW m, toHost = <<m>>, toClient = << >>
        PROVE  OnTheWay
    <3>1. /\ DOMAIN toHost = {1} /\ toHost[1] = m /\ toHost # << >> /\ Head(toHost) = m
          /\ DOMAIN toClient = {}
      BY <2>2
    <3>2. c \in UnderWay <=> m.m = "api" /\ m.op = "complete" /\ m.id = c
      BY <3>1 DEF UnderWay
    <3>3. back = {} /\ sending = {} /\ (sent # {} <=> 1 \in sent) /\ sent \subseteq {1}
      BY <3>1
    <3>4. 1 \in sent <=> m.m = "api" /\ m.op = "complete" /\ m.id = c
      BY <3>1
    <3> QED BY <3>2, <3>3, <3>4 DEF AtMostOne
  <2>3. ASSUME NEW m, toClient = <<m>>, toHost = << >>, Reading
        PROVE  OnTheWay
    <3>1. /\ DOMAIN toClient = {1} /\ toClient[1] = m /\ toClient # << >> /\ Head(toClient) = m
          /\ DOMAIN toHost = {}
      BY <2>3
    <3>2. c \in UnderWay <=> /\ m.m = "response"
                             /\ \/ Top.op = "callbacks" /\ c \in m.ids
                                \/ Top.op = "complete" /\ ~ m.ok /\ Top.id = c
      BY <2>3, <3>1 DEF UnderWay, Answer
    <3>3. sent = {} /\ back \subseteq {1} /\ sending \subseteq {1}
      BY <3>1
    <3>4. /\ 1 \in back <=> m.m = "response" /\ ~ m.ok /\ Top.op = "complete" /\ Top.id = c
          /\ 1 \in sending <=> m.m = "response" /\ c \in m.ids /\ Top.op = "callbacks"
      BY <2>3, <3>1
    <3> HIDE DEF back, sending, sent
    <3> QED BY <3>2, <3>3, <3>4 DEF AtMostOne
  <2> QED BY <1>1, <2>1, <2>2, <2>3 DEF Agree
<1> HIDE DEF todos, runs, sent, back, sending
<1>7. \A i, j \in DOMAIN cstack : c \in Held(cstack[i]) /\ c \in Held(cstack[j]) => i = j
  BY <1>1 DEF Ledger
<1>8. AtMostOne(todos) /\ AtMostOne(runs) /\ (todos # {} => runs = {})
  BY <1>3, <1>4, <1>7 DEF AtMostOne
<1>9. todos # {} \/ runs # {} => c \notin UnderWay
  BY <1>1, <1>3, <1>4 DEF Ledger
<1>10. (\E w \in waiting : w.id = c)
         <=> todos # {} \/ runs # {} \/ sent # {} \/ back # {} \/ sending # {}
  <2>1. (\E w \in waiting : w.id = c) <=> c \in Waiting
    BY DEF Waiting
  <2>2. c \in Waiting <=> c \in UnderWay \/ \E i \in DOMAIN cstack : c \in Held(cstack[i])
    BY <1>1 DEF Ledger
  <2>3. (\E i \in DOMAIN cstack : c \in Held(cstack[i])) <=> todos # {} \/ runs # {}
    BY <1>3, <1>4, <1>5
  <2> QED BY <1>6, <2>1, <2>2, <2>3
<1>11. Cardinality(todos) + Cardinality(runs) + Cardinality(sent)
         + Cardinality(back) + Cardinality(sending)
       = IF todos # {} \/ runs # {} \/ sent # {} \/ back # {} \/ sending # {} THEN 1 ELSE 0
  BY <1>6, <1>8, <1>9, CountPlaces
<1> QED BY <1>10, <1>11 DEF todos, runs, sent, back, sending

(* Back in its own code, the program has nothing left to complete.         *)
LEMMA NothingLeft ==
  ASSUME Inv, CallbackInv, native = "up", cstack = << >>, NEW c \in cbs \cup waiting
  PROVE  promises[c.owner] = "none"
<1>1. /\ toHost = << >> /\ toClient = << >> /\ HostOpen = << >> /\ ~ HostBusy
  <2>1. toHost = << >> /\ toClient = << >> /\ HostOpen = ClientOpen /\ (Reading <=> HostBusy)
    BY DEF Inv, Agree, Reading
  <2>2. ClientOpen = << >> /\ ~ Reading
    BY OpenOnNone DEF ClientOpen, Reading
  <2> QED BY <2>1, <2>2
<1>2. UnderWay = {} /\ ~ Answer /\ DOMAIN cstack = {}
  BY <1>1, NothingUnderWay
<1>3. waiting = {}
  BY <1>2 DEF CallbackInv, Ledger, Waiting
<1>4. ~ Fetches
  BY <1>1, <1>2 DEF Fetches, Sustained
<1>5. ~ Beginning(c.owner)
  <2>1. ASSUME hstack # << >>, hstack[1].k = "begin" PROVE FALSE
    <3>1. Last(hstack).k \notin {"read", "task"}
      BY <2>1, HostAlone DEF Inv
    <3>2. Last(hstack).k \notin {"sync", "create", "begin"}
      BY <1>1, <2>1 DEF HostBusy
    <3>3. Last(hstack).k = "cb"
      BY <2>1, <3>1, <3>2, HostTop, FrameFields DEF Inv
    <3>4. HostOpen = Append(OpenBelow(Front(hstack)), Item("callback", Last(hstack).id))
      BY <2>1, <3>3, HostOpenTop DEF Inv
    <3>5. OpenBelow(Front(hstack)) \in Seq(Items) /\ Item("callback", Last(hstack).id) \in Items
      BY <2>1, <3>3, HostTop, BelowType, FrameFields, IsItem DEF Inv, Ids
    <3> QED BY <1>1, <3>4, <3>5, AppendedFront
  <2> QED BY <2>1 DEF Beginning
<1> QED BY <1>3, <1>4, <1>5 DEF CallbackInv, Covered

LEMMA CallbackInvAccounts == Inv /\ CallbackInv => CallbacksAccountedFor
BY PlacesCounted, NothingLeft DEF CallbacksAccountedFor

(* Every callback a client fetched is in exactly one place until it is     *)
(* completed, and none of a call that has returned is left, whatever the   *)
(* bounds: if no continuation waits for a timer, after which it can queue  *)
(* a callback when the program has stopped fetching, and no override makes *)
(* an async call, whose begin a waiting callbackHandler refuses once the   *)
(* method has run and queued its callbacks, or returns what does not       *)
(* convert, which leaves its batch behind.                                 *)
THEOREM CallbacksAreAccountedFor ==
  ASSUME Prompt, "unmapped" \notin Native PROVE Spec => []CallbacksAccountedFor
<1>1. Orderly
  BY DEF Orderly
<1>2. Inv /\ CallbackInv /\ [Next]_vars => Inv' /\ CallbackInv'
  BY <1>1, InvStep, BooksStep
<1> QED BY <1>2, InvInit, BooksInit, CallbackInvAccounts, PTL DEF Spec
=============================================================================
