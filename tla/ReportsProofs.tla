---------------------------- MODULE ReportsProofs ----------------------------
(***************************************************************************)
(* Proofs about Reports, for any threads, tags, blocks, agents and         *)
(* samples: no tag outlives its block, the labels of a trace are true of   *)
(* its thread, and the profile of a report is what was recorded.           *)
(***************************************************************************)
EXTENDS Reports, PprofProofs

Block == [tags : TagLists, own : SUBSET AllTags]
Call == [op : {"none", "add", "remove"}, tags : TagLists \cup {<<>>}, next : Nat,
         own : SUBSET AllTags]

\* What the tags are made of.
TagTypes ==
    /\ open \in [Threads -> Seq(Block)]
    /\ call \in [Threads -> Call]
    /\ \A t \in Threads : call[t].op # "none" =>
         call[t].tags \in TagLists /\ call[t].next \in DOMAIN call[t].tags
    /\ rules \subseteq [tid : Threads, tag : AllTags]

\* The rule is of a block that its thread is in, or of the loop it is in: added
\* by it already, or not removed by it yet.
InBlock(r) == \E i \in DOMAIN open[r.tid] : r.tag \in TagsOf(open[r.tid][i])
InCall(r) ==
    LET c == call[r.tid]
    IN  \E i \in DOMAIN c.tags :
          /\ r.tag = c.tags[i]
          /\ \/ c.op = "add" /\ i < c.next
             \/ c.op = "remove" /\ i >= c.next

\* An agent starts without rules, and each rule of a running one has an owner.
Owned ==
    /\ state = "Starting" => rules = {}
    /\ state = "Running" => \A r \in rules : InBlock(r) \/ InCall(r) \/ r \in leaked

TagInv == TagTypes /\ Owned

-----------------------------------------------------------------------------
\* A tag list is not empty and its elements are tags.
LEMMA TagListTags ==
    ASSUME NEW tags \in TagLists
    PROVE  /\ tags \in Seq(AllTags) /\ tags # <<>>
           /\ Len(tags) \in Nat \ {0} /\ DOMAIN tags = 1 .. Len(tags)
           /\ \A i \in DOMAIN tags : tags[i] \in AllTags
<1>1. tags # <<>> /\ tags \in Seq(ToSet(tags))
  BY TagAssumption
<1>2. ToSet(tags) \subseteq AllTags
  BY DEF AllTags
<1>3. tags \in Seq(AllTags)
  BY <1>1, <1>2, SeqMonotonic
<1> QED
  BY <1>1, <1>3, LenProperties, EmptySeq, ElementOfSeq

\* RemoveAt moves the elements behind the removed one by one place.
LEMMA RemoveAtMoves ==
    ASSUME NEW S, NEW s \in Seq(S), NEW i \in DOMAIN s
    PROVE  /\ RemoveAt(s, i) \in Seq(S)
           /\ DOMAIN RemoveAt(s, i) = 1 .. Len(s) - 1
           /\ \A k \in DOMAIN RemoveAt(s, i) :
                RemoveAt(s, i)[k] = s[IF k < i THEN k ELSE k + 1]
<1> DEFINE a == SubSeq(s, 1, i - 1)
           b == SubSeq(s, i + 1, Len(s))
<1>1. /\ DOMAIN s = 1 .. Len(s) /\ Len(s) \in Nat /\ i \in 1 .. Len(s)
      /\ \A j \in 1 .. Len(s) : s[j] \in S
  BY LenProperties, ElementOfSeq
<1>2. /\ a \in Seq(S) /\ Len(a) = i - 1
      /\ \A j \in 1 .. i - 1 : a[j] = s[j]
  <2>1. \A j \in 1 .. i - 1 : s[j] \in S
    BY <1>1
  <2> QED
    BY <1>1, <2>1, SubSeqProperties
<1>3. /\ b \in Seq(S) /\ Len(b) = Len(s) - i
      /\ \A j \in 1 .. Len(s) - i : b[j] = s[i + j]
  <2>1. \A j \in i + 1 .. Len(s) : s[j] \in S
    BY <1>1
  <2> QED
    BY <1>1, <2>1, SubSeqProperties
<1> HIDE DEF a, b
<1>4. /\ a \o b \in Seq(S) /\ Len(a \o b) = Len(s) - 1
      /\ \A k \in 1 .. Len(s) - 1 : (a \o b)[k] = IF k <= i - 1 THEN a[k] ELSE b[k - (i - 1)]
  <2>1. /\ a \o b \in Seq(S) /\ Len(a \o b) = Len(a) + Len(b)
        /\ \A k \in 1 .. Len(a) + Len(b) :
             (a \o b)[k] = IF k <= Len(a) THEN a[k] ELSE b[k - Len(a)]
    BY <1>2, <1>3, ConcatProperties
  <2>2. Len(a) = i - 1 /\ Len(a) + Len(b) = Len(s) - 1
    BY <1>1, <1>2, <1>3
  <2> QED
    BY <2>1, <2>2
<1>5. ASSUME NEW k \in 1 .. Len(s) - 1
      PROVE  (a \o b)[k] = s[IF k < i THEN k ELSE k + 1]
  <2>1. CASE k < i
    BY <1>1, <1>2, <1>4, <2>1
  <2>2. CASE ~(k < i)
    <3>1. k - (i - 1) \in 1 .. Len(s) - i /\ i + (k - (i - 1)) = k + 1 /\ ~(k <= i - 1)
      BY <1>1, <2>2
    <3> QED
      BY <1>3, <1>4, <2>2, <3>1
  <2> QED
    BY <2>1, <2>2
<1>6. DOMAIN (a \o b) = 1 .. Len(s) - 1
  BY <1>1, <1>4, LenProperties
<1>7. RemoveAt(s, i) = a \o b
  BY DEF RemoveAt, a, b
<1> QED
  BY <1>4, <1>5, <1>6, <1>7

\* What RemoveAt keeps: every other element.
LEMMA RemoveAtKeeps ==
    ASSUME NEW S, NEW s \in Seq(S), NEW i \in DOMAIN s
    PROVE  /\ RemoveAt(s, i) \in Seq(S)
           /\ \A j \in DOMAIN s \ {i} :
                \E k \in DOMAIN RemoveAt(s, i) : RemoveAt(s, i)[k] = s[j]
<1>1. DOMAIN s = 1 .. Len(s) /\ Len(s) \in Nat
  BY LenProperties
<1>2. ASSUME NEW j \in DOMAIN s \ {i}
      PROVE  \E k \in 1 .. Len(s) - 1 : j = IF k < i THEN k ELSE k + 1
  <2>1. CASE j < i
    BY <1>1, <2>1
  <2>2. CASE ~(j < i)
    <3>1. j - 1 \in 1 .. Len(s) - 1 /\ ~(j - 1 < i) /\ j = (j - 1) + 1
      BY <1>1, <2>2
    <3> QED
      BY <3>1
  <2> QED
    BY <2>1, <2>2
<1>3. /\ RemoveAt(s, i) \in Seq(S) /\ DOMAIN RemoveAt(s, i) = 1 .. Len(s) - 1
      /\ \A k \in 1 .. Len(s) - 1 : RemoveAt(s, i)[k] = s[IF k < i THEN k ELSE k + 1]
  BY RemoveAtMoves
<1> HIDE DEF RemoveAt
<1> QED
  BY <1>2, <1>3

-----------------------------------------------------------------------------
\* The tags of NoCall and of no block are the empty sequence.
LEMMA EmptyTags == DOMAIN <<>> = {}
  OBVIOUS

\* TagInv holds before the first agent.
LEMMA InitOwned == Init => TagInv
<1> SUFFICES ASSUME Init PROVE TagInv
  OBVIOUS
<1>1. NoCall \in Call
  BY DEF NoCall, Call
<1>2. <<>> \in Seq(Block)
  BY EmptySeq
<1> QED
  BY <1>1, <1>2 DEF Init, TagInv, TagTypes, Owned, NoCall

\* A new agent has no rules, whatever blocks its threads are in.
LEMMA StartOwned == ASSUME TagInv, Start PROVE TagInv'
<1> USE DEF TagInv, TagTypes, Owned
<1>1. state' = "Starting" /\ rules' = {}
  BY DEF Start
<1>2. open' \in [Threads -> Seq(Block)]
  <2>1. ASSUME NEW t \in Threads
        PROVE  [i \in DOMAIN open[t] |-> [open[t][i] EXCEPT !.own = {}]] \in Seq(Block)
    <3>1. open[t] \in Seq(Block)
      OBVIOUS
    <3>2. DOMAIN open[t] = 1 .. Len(open[t]) /\ Len(open[t]) \in Nat
          /\ \A i \in DOMAIN open[t] : open[t][i] \in Block
      BY <3>1, LenProperties, ElementOfSeq
    <3>3. \A i \in DOMAIN open[t] : [open[t][i] EXCEPT !.own = {}] \in Block
      BY <3>2 DEF Block
    <3> QED
      BY <3>2, <3>3
  <2> QED
    BY <2>1 DEF Start, Disown
<1>3. \A t \in Threads : /\ call'[t] = [call[t] EXCEPT !.own = {}]
                         /\ call[t] \in Call
  BY DEF Start, Disown
<1>4. /\ call' \in [Threads -> Call]
      /\ \A t \in Threads : call'[t].op # "none" =>
           call'[t].tags \in TagLists /\ call'[t].next \in DOMAIN call'[t].tags
  <2>1. call' = [t \in Threads |-> [call[t] EXCEPT !.own = {}]]
    BY DEF Start, Disown
  <2>2. \A t \in Threads : [call[t] EXCEPT !.own = {}] \in Call
    BY <1>3 DEF Call
  <2> QED
    BY <1>3, <2>1, <2>2 DEF Call
<1> QED
  BY <1>1, <1>2, <1>4

\* The phases of an agent: Running follows Starting, which has no rules yet.
LEMMA AgentStepOwned == ASSUME TagInv, AgentStep PROVE TagInv'
  BY DEF TagInv, TagTypes, Owned, AgentStep, agent, wrapper

\* Steps that touch neither tags nor rules nor the phase.
LEMMA StutterOwned ==
    ASSUME TagInv, UNCHANGED <<state, rules, open, call, leaked>> PROVE TagInv'
  BY DEF TagInv, TagTypes, Owned, InBlock, InCall

-----------------------------------------------------------------------------
\* What a step of t leaves alone: the rules of other threads keep their owners.
LEMMA OthersOwned ==
    ASSUME NEW t \in Threads, NEW r \in [tid : Threads, tag : AllTags], r.tid # t,
           open \in [Threads -> Seq(Block)], call \in [Threads -> Call],
           NEW o, NEW c,
           open' = [open EXCEPT ![t] = o], call' = [call EXCEPT ![t] = c]
    PROVE  /\ InBlock(r) => InBlock(r)'
           /\ InCall(r) => InCall(r)'
  BY DEF InBlock, InCall

\* tag_wrapper is entered: the blocks of the thread keep their tags, and no
\* rule was of a loop.
LEMMA EnterOwned ==
    ASSUME TagInv, NEW t \in Threads, NEW tags \in TagLists, Enter(t, tags)
    PROVE  TagInv'
<1> USE DEF TagInv
<1> DEFINE c == [op |-> "add", tags |-> tags, next |-> 1, own |-> {}]
           o == Shared(open[t], tags)
<1> HIDE DEF o
<1>1. /\ call[t] = NoCall /\ call' = [call EXCEPT ![t] = c]
      /\ open' = [open EXCEPT ![t] = o]
      /\ UNCHANGED <<state, rules, leaked>>
  BY DEF Enter, agent, o
<1>2. /\ open[t] \in Seq(Block) /\ DOMAIN open[t] = 1 .. Len(open[t]) /\ Len(open[t]) \in Nat
      /\ \A i \in DOMAIN open[t] : open[t][i] \in Block
  <2>1. open[t] \in Seq(Block)
    BY DEF TagTypes
  <2> QED
    BY <2>1, LenProperties, ElementOfSeq
<1>3. /\ o = [i \in DOMAIN open[t] |-> o[i]]
      /\ \A i \in DOMAIN open[t] : o[i] \in Block /\ o[i].tags = open[t][i].tags
  BY <1>2 DEF Block, Shared, o
<1>4. o \in Seq(Block)
  <2>1. o \in [1 .. Len(open[t]) -> Block]
    BY <1>2, <1>3
  <2> QED
    BY <1>2, <2>1
<1>5. c \in Call /\ 1 \in DOMAIN tags
  BY TagListTags DEF Call
<1>6. TagTypes'
  BY <1>1, <1>4, <1>5 DEF TagTypes
<1>7. ASSUME state = "Running", NEW r \in rules PROVE InBlock(r)' \/ InCall(r)' \/ r \in leaked
  <2>1. r \in [tid : Threads, tag : AllTags] /\ (InBlock(r) \/ InCall(r) \/ r \in leaked)
    BY <1>7 DEF Owned, TagTypes
  <2>2. CASE r.tid # t
    BY <1>1, <2>1, <2>2, OthersOwned DEF TagTypes
  <2>3. CASE r.tid = t
    <3>1. ~InCall(r)
      BY <1>1, <2>3, EmptyTags DEF InCall, NoCall
    <3>2. open'[t] = o /\ DOMAIN o = DOMAIN open[t]
      BY <1>1, <1>3 DEF TagTypes
    <3>3. InBlock(r) => InBlock(r)'
      BY <1>3, <2>3, <3>2 DEF InBlock, TagsOf
    <3> QED
      BY <2>1, <3>1, <3>3
  <2> QED
    BY <2>2, <2>3
<1> QED
  BY <1>1, <1>6, <1>7 DEF Owned

\* add_thread_tag of a tag that is text: the new rule is of the loop or, when
\* the loop ends, of the block, and so are those of the loop.
LEMMA AddTagOwned ==
    ASSUME TagInv, NEW t \in Threads, AddTag(t)
    PROVE  TagInv'
<1> USE DEF TagInv
<1> DEFINE c == call[t]
           tag == c.tags[c.next]
           accepted == {x \in {tag} : state = "Running"}
           others == UNION {TagsOf(b) : b \in Range(open[t])}
           own == c.own \cup (accepted \ others)
           more == [op |-> "add", tags |-> c.tags, next |-> c.next + 1, own |-> own]
           block == [tags |-> c.tags, own |-> own]
<1>1. /\ c \in Call /\ c.op = "add" /\ c.tags \in TagLists /\ c.next \in DOMAIN c.tags
      /\ DOMAIN c.tags = 1 .. Len(c.tags) /\ Len(c.tags) \in Nat /\ tag \in AllTags
      /\ open[t] \in Seq(Block)
  <2>1. /\ c \in Call /\ c.op = "add" /\ c.tags \in TagLists /\ c.next \in DOMAIN c.tags
        /\ open[t] \in Seq(Block)
    BY DEF AddTag, TagTypes
  <2> QED
    BY <2>1, TagListTags
<1>2. /\ rules' = rules \cup {ThreadTag(t, x) : x \in accepted}
      /\ UNCHANGED <<state, leaked>>
      /\ c.next < Len(c.tags) => call' = [call EXCEPT ![t] = more] /\ open' = open
      /\ ~(c.next < Len(c.tags)) => /\ call' = [call EXCEPT ![t] = NoCall]
                                   /\ open' = [open EXCEPT ![t] = Append(open[t], block)]
  BY DEF AddTag, agent
<1>3. own \in SUBSET AllTags
  BY <1>1 DEF Call
<1> HIDE DEF own, others
<1>4. rules' \subseteq [tid : Threads, tag : AllTags]
  BY <1>1, <1>2 DEF TagTypes, ThreadTag
<1>5. ASSUME NEW r \in rules', state = "Running", r.tid = t
      PROVE  \/ InBlock(r) \/ r \in leaked
             \/ \E i \in DOMAIN c.tags : r.tag = c.tags[i] /\ i <= c.next
  <2>1. CASE r \in rules
    <3>1. InBlock(r) \/ InCall(r) \/ r \in leaked
      BY <1>5, <2>1 DEF Owned
    <3>2. InCall(r) => \E i \in DOMAIN c.tags : r.tag = c.tags[i] /\ i <= c.next
      BY <1>1, <1>5 DEF InCall
    <3> QED
      BY <3>1, <3>2
  <2>2. CASE r \notin rules
    <3>1. r = ThreadTag(t, tag)
      BY <1>2, <1>5, <2>2
    <3>2. r.tag = tag
      BY <3>1 DEF ThreadTag
    <3> QED
      BY <1>1, <3>2
  <2> QED
    BY <2>1, <2>2
<1>6. CASE c.next < Len(c.tags)
  <2>1. /\ more \in Call /\ more.op = "add" /\ more.tags = c.tags
        /\ more.next = c.next + 1 /\ more.next \in DOMAIN c.tags
    <3>1. c.next \in Nat /\ c.next + 1 \in Nat /\ c.next + 1 \in DOMAIN c.tags
      BY <1>1, <1>6 DEF Call
    <3> QED
      BY <1>1, <1>3, <3>1 DEF Call
  <2> HIDE DEF more
  <2>2. TagTypes'
    BY <1>1, <1>2, <1>4, <1>6, <2>1 DEF TagTypes
  <2>3. ASSUME state = "Running", NEW r \in rules' PROVE InBlock(r)' \/ InCall(r)' \/ r \in leaked
    <3>1. CASE r.tid # t
      <4>1. r \in rules
        BY <1>2, <3>1 DEF ThreadTag
      <4>2. InBlock(r) \/ InCall(r) \/ r \in leaked
        BY <4>1, <2>3 DEF Owned
      <4>3. open[r.tid] = open'[r.tid] /\ call[r.tid] = call'[r.tid]
        BY <1>2, <1>6, <3>1, <4>1 DEF TagTypes
      <4> QED
        BY <4>2, <4>3 DEF InBlock, InCall
    <3>2. CASE r.tid = t
      <4>1. open'[t] = open[t] /\ call'[t] = more
        BY <1>2, <1>6 DEF TagTypes
      <4>2. InBlock(r) => InBlock(r)'
        BY <3>2, <4>1 DEF InBlock
      <4>3. (\E i \in DOMAIN c.tags : r.tag = c.tags[i] /\ i <= c.next) => InCall(r)'
        BY <1>1, <2>1, <3>2, <4>1 DEF InCall
      <4> QED
        BY <1>5, <2>3, <3>2, <4>2, <4>3
    <3> QED
      BY <3>1, <3>2
  <2> QED
    BY <1>2, <2>2, <2>3 DEF Owned
<1>7. CASE ~(c.next < Len(c.tags))
  <2>1. block \in Block /\ NoCall \in Call
    BY <1>1, <1>3 DEF Block, Call, NoCall
  <2>2. /\ Append(open[t], block) \in Seq(Block)
        /\ DOMAIN open[t] = 1 .. Len(open[t]) /\ Len(open[t]) \in Nat
        /\ DOMAIN Append(open[t], block) = 1 .. Len(open[t]) + 1
        /\ \A i \in DOMAIN open[t] : Append(open[t], block)[i] = open[t][i]
        /\ Append(open[t], block)[Len(open[t]) + 1] = block
    BY <1>1, <2>1
  <2>3. block.tags = c.tags
    OBVIOUS
  <2> HIDE DEF block
  <2>4. TagTypes'
    <3>1. NoCall.op = "none"
      BY DEF NoCall
    <3>2. open' \in [Threads -> Seq(Block)]
      BY <1>2, <1>7, <2>2 DEF TagTypes
    <3>3. /\ call' \in [Threads -> Call]
          /\ \A u \in Threads : call'[u] = IF u = t THEN NoCall ELSE call[u]
      BY <1>2, <1>7, <2>1 DEF TagTypes
    <3>4. \A u \in Threads : call'[u].op # "none" =>
             call'[u].tags \in TagLists /\ call'[u].next \in DOMAIN call'[u].tags
      BY <3>1, <3>3 DEF TagTypes
    <3> QED
      BY <1>4, <3>2, <3>3, <3>4 DEF TagTypes
  <2>5. ASSUME state = "Running", NEW r \in rules' PROVE InBlock(r)' \/ InCall(r)' \/ r \in leaked
    <3>1. CASE r.tid # t
      <4>1. r \in rules
        BY <1>2, <3>1 DEF ThreadTag
      <4>2. InBlock(r) \/ InCall(r) \/ r \in leaked
        BY <4>1, <2>5 DEF Owned
      <4>3. r \in [tid : Threads, tag : AllTags]
        BY <4>1 DEF TagTypes
      <4> QED
        BY <1>2, <1>7, <3>1, <4>2, <4>3, OthersOwned DEF TagTypes
    <3>2. CASE r.tid = t
      <4>1. open'[t] = Append(open[t], block)
        BY <1>2, <1>7 DEF TagTypes
      <4>2. InBlock(r) => InBlock(r)'
        BY <2>2, <3>2, <4>1 DEF InBlock
      <4>3. (\E i \in DOMAIN c.tags : r.tag = c.tags[i] /\ i <= c.next) => InBlock(r)'
        <5>1. (\E i \in DOMAIN c.tags : r.tag = c.tags[i]) => r.tag \in TagsOf(block)
          BY <2>3 DEF TagsOf, ToSet
        <5>2. r.tag \in TagsOf(block) => InBlock(r)'
          BY <2>2, <3>2, <4>1 DEF InBlock
        <5> QED
          BY <5>1, <5>2
      <4> QED
        BY <1>5, <2>5, <3>2, <4>2, <4>3
    <3> QED
      BY <3>1, <3>2
  <2> QED
    BY <1>2, <2>4, <2>5 DEF Owned
<1> QED
  BY <1>6, <1>7

\* The loop raises: the rules it has added are left behind.
LEMMA AddTagRaisesOwned ==
    ASSUME TagInv, NEW t \in Threads, AddTagRaises(t)
    PROVE  TagInv'
<1> USE DEF TagInv
<1> DEFINE c == call[t]
<1>1. /\ c.op = "add" /\ call' = [call EXCEPT ![t] = NoCall]
      /\ leaked' = leaked \cup {ThreadTag(t, c.tags[i]) : i \in 1 .. c.next - 1}
      /\ UNCHANGED <<state, rules, open>>
  BY DEF AddTagRaises, agent
<1>2. NoCall \in Call /\ NoCall.op = "none"
  BY DEF NoCall, Call
<1>3. TagTypes'
  BY <1>1, <1>2 DEF TagTypes
<1>4. /\ c.tags \in TagLists /\ c.next \in Nat
      /\ DOMAIN c.tags = 1 .. Len(c.tags) /\ Len(c.tags) \in Nat
  <2>1. c.tags \in TagLists /\ c \in Call
    BY <1>1 DEF TagTypes
  <2> QED
    BY <2>1, TagListTags DEF Call
<1>5. ASSUME state = "Running", NEW r \in rules PROVE InBlock(r)' \/ InCall(r)' \/ r \in leaked'
  <2>1. r \in [tid : Threads, tag : AllTags] /\ (InBlock(r) \/ InCall(r) \/ r \in leaked)
    BY <1>5 DEF Owned, TagTypes
  <2>2. InBlock(r) => InBlock(r)'
    BY <1>1 DEF InBlock
  <2>3. CASE r.tid # t
    <3>1. call'[r.tid] = call[r.tid]
      BY <1>1, <2>1, <2>3 DEF TagTypes
    <3> QED
      BY <1>1, <2>1, <2>2, <3>1 DEF InCall
  <2>4. CASE r.tid = t
    <3>1. ASSUME InCall(r) PROVE r \in leaked'
      <4>1. PICK i \in DOMAIN c.tags : r.tag = c.tags[i] /\ i < c.next
        BY <1>1, <2>4, <3>1 DEF InCall
      <4>2. i \in 1 .. c.next - 1
        BY <1>4, <4>1
      <4>3. r = ThreadTag(t, c.tags[i])
        BY <2>1, <2>4, <4>1 DEF ThreadTag
      <4> QED
        BY <1>1, <4>2, <4>3
    <3> QED
      BY <1>1, <2>1, <2>2, <3>1
  <2> QED
    BY <2>3, <2>4
<1> QED
  BY <1>1, <1>3, <1>5 DEF Owned

\* A block is left: its rules are now those of the loop that removes them.
LEMMA ExitOwned ==
    ASSUME TagInv, NEW t \in Threads, Exit(t)
    PROVE  TagInv'
<1> USE DEF TagInv
<1>1. PICK i \in DOMAIN open[t] :
         /\ call' = [call EXCEPT ![t] = [op |-> "remove", tags |-> open[t][i].tags,
                                         next |-> 1, own |-> {}]]
         /\ open' = [open EXCEPT ![t] = RemoveAt(open[t], i)]
  BY DEF Exit
<1>2. call[t] = NoCall /\ UNCHANGED <<state, rules, leaked>>
  BY DEF Exit, agent
<1> DEFINE tags == open[t][i].tags
           c == [op |-> "remove", tags |-> tags, next |-> 1, own |-> {}]
           o == RemoveAt(open[t], i)
<1>3. open[t] \in Seq(Block) /\ open[t][i] \in Block /\ tags \in TagLists
  <2>1. open[t] \in Seq(Block)
    BY DEF TagTypes
  <2>2. open[t][i] \in Block
    BY <2>1, LenProperties, ElementOfSeq
  <2> QED
    BY <2>1, <2>2 DEF Block
<1>4. /\ o \in Seq(Block)
      /\ \A j \in DOMAIN open[t] \ {i} : \E k \in DOMAIN o : o[k] = open[t][j]
  BY <1>3, RemoveAtKeeps
<1>5. c \in Call /\ 1 \in DOMAIN tags /\ DOMAIN tags = 1 .. Len(tags)
  BY <1>3, TagListTags DEF Call
<1> HIDE DEF o, tags
<1>6. TagTypes'
  BY <1>1, <1>2, <1>3, <1>4, <1>5 DEF TagTypes, o, tags
<1>7. ASSUME state = "Running", NEW r \in rules PROVE InBlock(r)' \/ InCall(r)' \/ r \in leaked
  <2>1. r \in [tid : Threads, tag : AllTags] /\ (InBlock(r) \/ InCall(r) \/ r \in leaked)
    BY <1>7 DEF Owned, TagTypes
  <2>2. CASE r.tid # t
    BY <1>1, <2>1, <2>2, OthersOwned DEF TagTypes
  <2>3. CASE r.tid = t
    <3>1. ~InCall(r)
      BY <1>2, <2>3, EmptyTags DEF InCall, NoCall
    <3>2. open'[t] = o /\ call'[t] = c
      BY <1>1 DEF TagTypes, o, tags
    <3>3. ASSUME InBlock(r) PROVE InBlock(r)' \/ InCall(r)'
      <4>1. PICK j \in DOMAIN open[t] : r.tag \in ToSet(open[t][j].tags)
        BY <2>3, <3>3 DEF InBlock, TagsOf
      <4>2. CASE j = i
        <5>1. PICK k \in DOMAIN tags : r.tag = tags[k]
          BY <4>1, <4>2 DEF ToSet, tags
        <5>2. k >= 1
          BY <1>5
        <5> QED
          BY <2>3, <3>2, <5>1, <5>2 DEF InCall
      <4>3. CASE j # i
        <5>1. PICK k \in DOMAIN o : o[k] = open[t][j]
          BY <1>4, <4>3
        <5> QED
          BY <2>3, <3>2, <4>1, <5>1 DEF InBlock, TagsOf
      <4> QED
        BY <4>2, <4>3
    <3> QED
      BY <2>1, <3>1, <3>3
  <2> QED
    BY <2>2, <2>3
<1> QED
  BY <1>2, <1>6, <1>7 DEF Owned

\* remove_thread_tag: the rule of this turn is gone, whoever owned it.
LEMMA RemoveTagOwned ==
    ASSUME TagInv, NEW t \in Threads, RemoveTag(t)
    PROVE  TagInv'
<1> USE DEF TagInv
<1> DEFINE c == call[t]
           rule == ThreadTag(t, c.tags[c.next])
           removed == {x \in {rule} : state = "Running"}
           d == IF c.next < Len(c.tags) THEN [c EXCEPT !.next = @ + 1] ELSE NoCall
<1>1. /\ c.op = "remove" /\ call' = [call EXCEPT ![t] = d]
      /\ rules' = rules \ removed /\ leaked' = leaked \ removed
      /\ UNCHANGED <<state, open>>
  BY DEF RemoveTag, agent
<1>2. /\ c \in Call /\ c.tags \in TagLists /\ c.next \in DOMAIN c.tags
      /\ DOMAIN c.tags = 1 .. Len(c.tags) /\ Len(c.tags) \in Nat
  <2>1. c \in Call /\ c.tags \in TagLists /\ c.next \in DOMAIN c.tags
    BY <1>1 DEF TagTypes
  <2> QED
    BY <2>1, TagListTags
<1>3. /\ d \in Call /\ (d.op # "none" => d.tags \in TagLists /\ d.next \in DOMAIN d.tags)
      /\ c.next < Len(c.tags) => d.op = "remove" /\ d.tags = c.tags /\ d.next = c.next + 1
  <2>1. CASE c.next < Len(c.tags)
    BY <1>1, <1>2, <2>1 DEF Call
  <2>2. CASE ~(c.next < Len(c.tags))
    BY <2>2 DEF Call, NoCall
  <2> QED
    BY <2>1, <2>2
<1> HIDE DEF d
<1>4. TagTypes'
  BY <1>1, <1>3 DEF TagTypes
<1>5. ASSUME state = "Running", NEW r \in rules, r # rule
      PROVE  InBlock(r)' \/ InCall(r)' \/ r \in leaked'
  <2>1. r \in [tid : Threads, tag : AllTags] /\ (InBlock(r) \/ InCall(r) \/ r \in leaked)
    BY <1>5 DEF Owned, TagTypes
  <2>2. InBlock(r) => InBlock(r)'
    BY <1>1 DEF InBlock
  <2>3. r \in leaked => r \in leaked'
    BY <1>1, <1>5
  <2>4. CASE r.tid # t
    <3>1. call'[r.tid] = call[r.tid]
      BY <1>1, <2>1, <2>4 DEF TagTypes
    <3> QED
      BY <2>1, <2>2, <2>3, <3>1 DEF InCall
  <2>5. CASE r.tid = t
    <3>1. ASSUME InCall(r) PROVE InCall(r)'
      <4>1. PICK i \in DOMAIN c.tags : r.tag = c.tags[i] /\ i >= c.next
        BY <1>1, <2>5, <3>1 DEF InCall
      <4>2. i # c.next
        BY <1>5, <2>1, <2>5, <4>1 DEF ThreadTag
      <4>3. i >= c.next + 1 /\ c.next < Len(c.tags)
        BY <1>2, <4>1, <4>2
      <4>4. call'[t] = d
        BY <1>1 DEF TagTypes
      <4> QED
        BY <1>3, <2>5, <4>1, <4>3, <4>4 DEF InCall
    <3> QED
      BY <2>1, <2>2, <2>3, <3>1
  <2> QED
    BY <2>4, <2>5
<1>6. state = "Running" => rules' = rules \ {rule}
  BY <1>1
<1> QED
  BY <1>1, <1>4, <1>5, <1>6 DEF Owned

-----------------------------------------------------------------------------
\* Every step of the program, of the agent and of the sampler threads.
LEMMA NextOwned == TagInv /\ [Next]_vars => TagInv'
<1> SUFFICES ASSUME TagInv, [Next]_vars PROVE TagInv'
  OBVIOUS
<1>1. CASE Start
  BY <1>1, StartOwned
<1>2. CASE AgentStep
  BY <1>2, AgentStepOwned
<1>3. ASSUME NEW t \in Threads, NEW tags \in TagLists, Enter(t, tags) PROVE TagInv'
  BY <1>3, EnterOwned
<1>4. ASSUME NEW t \in Threads, AddTag(t) \/ AddTagRaises(t) \/ Exit(t) \/ RemoveTag(t)
      PROVE  TagInv'
  BY <1>4, AddTagOwned, AddTagRaisesOwned, ExitOwned, RemoveTagOwned
<1>5. CASE Sample \/ RecordTrace \/ Drained \/ Report \/ UNCHANGED vars
  <2>1. UNCHANGED <<state, rules, open, call, leaked>>
    BY <1>5 DEF Sample, RecordTrace, Drained, Report, vars, agent, wrapper
  <2> QED
    BY <2>1, StutterOwned
<1> QED
  BY <1>1, <1>2, <1>3, <1>4, <1>5 DEF Next

\* The rules of every agent belong to the blocks their threads are in, to the
\* loops they are in, or to a block whose entry raised (tag_wrapper,
\* add_thread_tag, remove_thread_tag, initialize_agent).
THEOREM RulesOwned == Spec => []TagInv
<1>1. Init => TagInv
  BY InitOwned
<1>2. TagInv /\ [Next]_vars => TagInv'
  BY NextOwned
<1> QED
  BY <1>1, <1>2, PTL DEF Spec

\* The tag of a rule that a block or a loop owns is an open one.
LEMMA Covered ==
    ASSUME NEW r PROVE InBlock(r) \/ InCall(r) => r.tag \in OpenTags(r.tid)
<1>1. InBlock(r) => r.tag \in OpenTags(r.tid)
  BY DEF InBlock, OpenTags, Range
<1>2. InCall(r) => r.tag \in OpenTags(r.tid)
  BY DEF InCall, OpenTags, TagsOf, ToSet
<1> QED
  BY <1>1, <1>2

\* A thread that is outside its tag_wrapper blocks has no tag left in the
\* ruleset of the running agent, whatever agents came and went while it was
\* inside, unless the entry of a block raised half way.
THEOREM TagsNeverLeak == Spec => []NoLeakedTags
<1>1. TagInv => NoLeakedTags
  <2> SUFFICES ASSUME TagInv, state = "Running", NEW r \in rules
               PROVE  r.tag \in OpenTags(r.tid) \/ r \in leaked
    BY DEF NoLeakedTags
  <2>1. InBlock(r) \/ InCall(r) \/ r \in leaked
    BY DEF TagInv, Owned
  <2> QED
    BY <2>1, Covered
<1> QED
  BY <1>1, RulesOwned, PTL
-----------------------------------------------------------------------------
(***************************************************************************)
(* What the labels of a trace rest on                                      *)
(***************************************************************************)

Trace == [thread : Threads, frames : Stacks, may : SUBSET AllTags, must : SUBSET AllTags]

LabelTypes ==
    /\ state \in {"Idle", "Starting", "Running", "Stopping"} /\ backend \in Backends
    /\ \A r \in rules : r.tag \notin BadTags
    /\ leaked \subseteq [tid : Threads, tag : AllTags]
    /\ hand \in Seq(Trace) /\ Len(hand) =< Cardinality(Threads)
    /\ state = "Idle" => hand = <<>>

\* Blocks o and loop c of one thread.  A block owns tags of its own only, and a
\* loop no more than it adds.
OwnOnly(o, c) ==
    /\ \A i \in DOMAIN o : o[i].own \subseteq TagsOf(o[i]) \ BadTags
    /\ c.own \subseteq TagsOf(c) \ BadTags
    /\ c.op = "remove" => c.own = {}

\* What a block or the loop owns, no other of the thread has.
Apart(o, c) ==
    \A i \in DOMAIN o :
      /\ \A j \in DOMAIN o \ {i} : o[i].own \cap TagsOf(o[j]) = {}
      /\ o[i].own \cap TagsOf(c) = {}
      /\ c.own \cap TagsOf(o[i]) = {}

Alone == \A t \in Threads : OwnOnly(open[t], call[t]) /\ Apart(open[t], call[t])

\* The ruleset labels with what is owned, until the agent stops.
Labelling == state \in {"Starting", "Running"}

Backed ==
    Labelling =>
      \A t \in Threads : \A x \in OwnTags(t) \cup call[t].own : ThreadTag(t, x) \in rules

\* The bounds of a trace in hand: the rules of its thread lie between them, and
\* the loop its thread is in moves them no further.
Between ==
    \A k \in DOMAIN hand :
      /\ call[hand[k].thread].op = "add" =>
           TagsOf(call[hand[k].thread]) \subseteq hand[k].may
      /\ call[hand[k].thread].op = "remove" =>
           hand[k].must \cap TagsOf(call[hand[k].thread]) = {}
      /\ Labelling =>
           /\ \A r \in rules : r.tid = hand[k].thread => r.tag \in hand[k].may
           /\ \A x \in hand[k].must : ThreadTag(hand[k].thread, x) \in rules

\* Each sample adds at most one trace of each thread, or one drop.
Most == count.samples * Cardinality(Threads)

Counted ==
    /\ count \in [blocks : 0 .. MaxBlocks, samples : 0 .. MaxSamples,
                  agents : 0 .. MaxAgents]
    /\ drops \in [Reasons -> Nat] /\ \A r \in Reasons : drops[r] =< count.samples
    /\ Len(hand) =< Most
    /\ \A trace \in DOMAIN buffer :
         buffer[trace] \in Nat \ {0} /\ buffer[trace] + Len(hand) =< Most

LabelInv == TagInv /\ LabelTypes /\ Alone /\ Backed /\ Between /\ LabelsTrue /\ Counted

\* There is at least one thread, the main one.
LEMMA ThreadCount == Cardinality(Threads) \in Nat \ {0}
BY ThreadsAssumption, FS_CardinalityType, FS_EmptySet

\* Every trace in hand has its type.
LEMMA HandTypes ==
    ASSUME LabelTypes
    PROVE  /\ DOMAIN hand = 1 .. Len(hand) /\ Len(hand) \in Nat
           /\ \A k \in DOMAIN hand : hand[k] \in Trace
<1>1. hand \in Seq(Trace)
  BY DEF LabelTypes
<1> QED
  BY <1>1, LenProperties, ElementOfSeq

\* What a step of t leaves alone: the blocks and the loops of other threads.
LEMMA OthersOwn ==
    ASSUME TagInv, Alone, NEW t \in Threads, NEW o, NEW c,
           open' = [open EXCEPT ![t] = o], call' = [call EXCEPT ![t] = c],
           OwnOnly(o, c), Apart(o, c)
    PROVE  Alone'
<1>1. \A u \in Threads : /\ open'[u] = IF u = t THEN o ELSE open[u]
                         /\ call'[u] = IF u = t THEN c ELSE call[u]
  BY DEF TagInv, TagTypes
<1> SUFFICES ASSUME NEW u \in Threads
             PROVE  OwnOnly(open'[u], call'[u]) /\ Apart(open'[u], call'[u])
  BY DEF Alone, OwnOnly, Apart, TagsOf
<1>2. CASE u = t
  <2>1. open'[u] = o /\ call'[u] = c
    BY <1>1, <1>2
  <2> QED
    BY <2>1
<1>3. CASE u # t
  <2>1. open'[u] = open[u] /\ call'[u] = call[u]
    BY <1>1, <1>3
  <2> QED
    BY <2>1 DEF Alone
<1> QED
  BY <1>2, <1>3

\* What a step of t leaves alone: what other threads own stays in the ruleset.
LEMMA OthersBacked ==
    ASSUME TagInv, Backed, NEW t \in Threads, NEW o, NEW c,
           open' = [open EXCEPT ![t] = o], call' = [call EXCEPT ![t] = c], state' = state,
           \A r \in rules : r.tid # t => r \in rules',
           Labelling =>
             \A x \in (UNION {b.own : b \in Range(o)}) \cup c.own :
               ThreadTag(t, x) \in rules'
    PROVE  Backed'
<1>1. \A u \in Threads : /\ open'[u] = IF u = t THEN o ELSE open[u]
                         /\ call'[u] = IF u = t THEN c ELSE call[u]
  BY DEF TagInv, TagTypes
<1> SUFFICES ASSUME Labelling, NEW u \in Threads,
                    NEW x \in (UNION {b.own : b \in Range(open'[u])}) \cup call'[u].own
             PROVE  ThreadTag(u, x) \in rules'
  <2>1. Labelling' = Labelling
    BY DEF Labelling
  <2> QED
    BY <2>1, Zenon DEF Backed, OwnTags, Range, ThreadTag
<1>2. CASE u = t
  BY <1>1, <1>2
<1>3. CASE u # t
  <2>0. open'[u] = open[u] /\ call'[u] = call[u]
    BY <1>1, <1>3
  <2>1. x \in OwnTags(u) \cup call[u].own
    BY <2>0, Zenon DEF OwnTags
  <2>2. ThreadTag(u, x) \in rules
    BY <2>1 DEF Backed
  <2> QED
    BY <1>3, <2>2 DEF ThreadTag
<1> QED
  BY <1>2, <1>3

\* What a step of t leaves alone: the bounds of the traces of other threads.
LEMMA OthersBetween ==
    ASSUME TagInv, LabelTypes, Between, NEW t \in Threads, NEW c, NEW new,
           call' = [call EXCEPT ![t] = c], state' = state, hand' = new,
           DOMAIN new = DOMAIN hand,
           \A k \in DOMAIN hand : new[k].thread = hand[k].thread,
           \A k \in DOMAIN hand : hand[k].thread # t => new[k] = hand[k],
           \A r : r.tid # t => (r \in rules <=> r \in rules'),
           \A k \in DOMAIN hand : hand[k].thread = t =>
             /\ c.op = "add" => TagsOf(c) \subseteq new[k].may
             /\ c.op = "remove" => new[k].must \cap TagsOf(c) = {}
             /\ Labelling =>
                  /\ \A r \in rules' : r.tid = t => r.tag \in new[k].may
                  /\ \A x \in new[k].must : ThreadTag(t, x) \in rules'
    PROVE  Between'
<1>1. \A u \in Threads : call'[u] = IF u = t THEN c ELSE call[u]
  BY DEF TagInv, TagTypes
<1> SUFFICES ASSUME NEW k \in DOMAIN hand
    PROVE  /\ call'[new[k].thread].op = "add" =>
                TagsOf(call'[new[k].thread]) \subseteq new[k].may
           /\ call'[new[k].thread].op = "remove" =>
                new[k].must \cap TagsOf(call'[new[k].thread]) = {}
           /\ Labelling =>
                /\ \A r \in rules' : r.tid = new[k].thread => r.tag \in new[k].may
                /\ \A x \in new[k].must : ThreadTag(new[k].thread, x) \in rules'
  BY DEF Between, Labelling, TagsOf, ThreadTag
<1>2. hand[k].thread \in Threads /\ new[k].thread = hand[k].thread
  BY HandTypes DEF Trace
<1>3. CASE hand[k].thread = t
  BY <1>1, <1>2, <1>3
<1>4. CASE hand[k].thread # t
  <2>1. new[k] = hand[k] /\ call'[hand[k].thread] = call[hand[k].thread]
    BY <1>1, <1>2, <1>4
  <2>2. \A r \in rules' : r.tid = hand[k].thread => r \in rules
    BY <1>4
  <2>3. \A x : ThreadTag(hand[k].thread, x).tid = hand[k].thread
    BY DEF ThreadTag
  <2>4. \A x : ThreadTag(hand[k].thread, x) \in rules =>
                 ThreadTag(hand[k].thread, x) \in rules'
    BY <1>4, <2>3
  <2> QED
    BY <1>2, <2>1, <2>2, <2>4 DEF Between
<1> QED
  BY <1>3, <1>4

-----------------------------------------------------------------------------
\* One more sample, and the bound it brings: a trace of each thread or one drop.
LEMMA MoreSamples ==
    ASSUME NEW n \in Nat, NEW m \in Nat, m =< Cardinality(Threads), NEW k \in Nat,
           k =< n * Cardinality(Threads)
    PROVE  /\ n * Cardinality(Threads) \in Nat
           /\ k + m =< (n + 1) * Cardinality(Threads)
<1> DEFINE N == Cardinality(Threads)
<1>1. N \in Nat
  BY ThreadCount
<1> HIDE DEF N
<1>2. n * N \in Nat /\ (n + 1) * N = n * N + N
  BY <1>1
<1> QED
  BY <1>1, <1>2 DEF N

\* What neither takes nor records a sample.
LEMMA CountsKept ==
    ASSUME LabelInv, UNCHANGED <<count, drops, buffer>>, Len(hand') = Len(hand)
    PROVE  Counted'
  BY DEF LabelInv, Counted, Most

\* Entering a block counts it, and nothing else.
LEMMA BlockCounted ==
    ASSUME LabelInv, Counts("blocks", MaxBlocks), UNCHANGED <<drops, buffer>>,
           Len(hand') = Len(hand)
    PROVE  Counted'
<1>1. count' \in [blocks : 0 .. MaxBlocks, samples : 0 .. MaxSamples,
                  agents : 0 .. MaxAgents]
      /\ count'.samples = count.samples
  BY BoundAssumption DEF LabelInv, Counted, Counts
<1> QED
  BY <1>1 DEF LabelInv, Counted, Most

\* LabelInv holds before the first agent.
LEMMA InitLabels == Init => LabelInv
<1> SUFFICES ASSUME Init PROVE LabelInv
  OBVIOUS
<1>1. TagInv
  BY InitOwned
<1>2. \A t \in Threads : open[t] = <<>> /\ call[t] = NoCall
  BY DEF Init
<1>3. \A t \in Threads : TagsOf(call[t]) = {} /\ call[t].own = {} /\ call[t].op = "none"
  BY <1>2 DEF TagsOf, ToSet, NoCall
<1>4. Alone
  BY <1>2, <1>3 DEF Alone, OwnOnly, Apart
<1>5. LabelTypes
  BY ThreadCount, EmptySeq DEF Init, LabelTypes
<1>6. Backed /\ Between /\ LabelsTrue
  BY DEF Init, Backed, Between, LabelsTrue, Labelling
<1>7. Counted
  <2>1. Most = 0
    BY ThreadCount DEF Init, Most
  <2>2. DOMAIN buffer = {} /\ Len(hand) = 0
    BY DEF Init, Empty
  <2>3. drops \in [Reasons -> Nat] /\ \A r \in Reasons : drops[r] = 0
    BY DEF Init, Zero
  <2>4. count \in [blocks : 0 .. MaxBlocks, samples : 0 .. MaxSamples,
                   agents : 0 .. MaxAgents]
        /\ count.samples = 0
    BY BoundAssumption DEF Init
  <2> QED
    BY <2>1, <2>2, <2>3, <2>4 DEF Counted
<1> QED
  BY <1>1, <1>4, <1>5, <1>6, <1>7 DEF LabelInv

\* A new agent: no block owns a rule of it, and no sample is in hand.
LEMMA StartLabels == ASSUME LabelInv, Start PROVE LabelInv'
<1>1. TagInv'
  BY StartOwned DEF LabelInv
<1>2. /\ state' = "Starting" /\ backend' \in Backends /\ rules' = {} /\ buffer' = Empty
      /\ drops' = (IF backend' = "Signal" THEN Zero ELSE drops)
      /\ hand = <<>> /\ hand' = <<>> /\ labelled' = <<>> /\ leaked' = {}
  BY DEF Start, Disown, LabelInv, LabelTypes, NoLabel
<1>3. /\ \A t \in Threads :
           open'[t] = [i \in DOMAIN open[t] |-> [open[t][i] EXCEPT !.own = {}]]
      /\ \A t \in Threads : call'[t] = [call[t] EXCEPT !.own = {}]
  BY DEF Start, Disown
<1>4. ASSUME NEW t \in Threads
      PROVE  /\ \A i \in DOMAIN open'[t] : open'[t][i].own = {}
             /\ call'[t].own = {}
  <2>1. open[t] \in Seq(Block) /\ call[t] \in Call
    BY DEF LabelInv, TagInv, TagTypes
  <2>2. \A i \in DOMAIN open[t] : open[t][i] \in Block
    BY <2>1, LenProperties, ElementOfSeq
  <2>3. \A i \in DOMAIN open[t] : [open[t][i] EXCEPT !.own = {}].own = {}
    BY <2>2 DEF Block
  <2>4. [call[t] EXCEPT !.own = {}].own = {}
    BY <2>1 DEF Call
  <2>5. open'[t] = [i \in DOMAIN open[t] |-> [open[t][i] EXCEPT !.own = {}]]
    BY <1>3
  <2>6. \A i \in DOMAIN open'[t] :
          open'[t][i] = [open[t][i] EXCEPT !.own = {}] /\ i \in DOMAIN open[t]
    BY <2>5
  <2>7. call'[t].own = {}
    BY <1>3, <2>4
  <2> QED
    BY <2>3, <2>6, <2>7
<1>5. LabelTypes'
  BY <1>2, ThreadCount, EmptySeq DEF LabelTypes
<1>6. Alone'
  BY <1>4 DEF Alone, OwnOnly, Apart
<1>7. Backed'
  BY <1>4 DEF Backed, OwnTags, Range
<1>8. Between' /\ LabelsTrue'
  BY <1>2 DEF Between, LabelsTrue
<1>9. Counted'
  <2>1. count' \in [blocks : 0 .. MaxBlocks, samples : 0 .. MaxSamples,
                    agents : 0 .. MaxAgents]
        /\ count'.samples = count.samples
    BY BoundAssumption DEF LabelInv, Counted, Counts, Start
  <2>2. DOMAIN buffer' = {} /\ Len(hand') = 0 /\ Most' = Most /\ Most \in Nat
    BY <1>2, <2>1, MoreSamples, ThreadCount DEF Empty, Most, LabelInv, Counted
  <2>3. drops' \in [Reasons -> Nat] /\ \A r \in Reasons : drops'[r] =< count.samples
    BY <1>2 DEF Zero, LabelInv, Counted
  <2> QED
    BY <2>1, <2>2, <2>3 DEF Counted
<1> QED
  BY <1>1, <1>5, <1>6, <1>7, <1>8, <1>9 DEF LabelInv

\* The phases of an agent: one that runs was starting, and Idle has no sample.
LEMMA AgentStepLabels == ASSUME LabelInv, AgentStep PROVE LabelInv'
<1>1. TagInv'
  BY AgentStepOwned DEF LabelInv
<1> USE DEF LabelInv, AgentStep, agent, wrapper
<1>2. LabelTypes'
  BY DEF LabelTypes
<1>3. Alone'
  BY DEF Alone
<1>4. Labelling' => Labelling
  BY DEF Labelling
<1>5. Backed' /\ Between'
  BY <1>4 DEF Backed, Between, OwnTags
<1>6. LabelsTrue' /\ Counted'
  BY DEF NoLabel, LabelsTrue, Counted, Most
<1> QED
  BY <1>1, <1>2, <1>3, <1>5, <1>6

\* What only fills or takes the buffer and the drops.
LEMMA QuietLabels ==
    ASSUME LabelInv, UNCHANGED <<agent, rules, wrapper, hand>>,
           labelled' \in {<<>>, labelled}, Counted'
    PROVE  LabelInv'
<1> USE DEF agent, wrapper
<1>1. TagInv'
  BY StutterOwned DEF LabelInv
<1>2. LabelTypes' /\ Alone'
  BY DEF LabelInv, LabelTypes, Alone
<1>3. Backed' /\ Between'
  BY DEF LabelInv, Backed, Between, OwnTags, Labelling
<1>4. LabelsTrue'
  BY DEF LabelInv, LabelsTrue
<1> QED
  BY <1>1, <1>2, <1>3, <1>4 DEF LabelInv

\* One more count of a trace.
LEMMA PlusCounts ==
    ASSUME NEW f, NEW x, \A y \in DOMAIN f : f[y] \in Nat \ {0}
    PROVE  \A y \in DOMAIN Plus(f, x, 1) :
             /\ Plus(f, x, 1)[y] \in Nat \ {0}
             /\ Plus(f, x, 1)[y] = 1 \/ \E z \in DOMAIN f : Plus(f, x, 1)[y] =< f[z] + 1
  BY DEF Plus

\* The signal backend: one more stack or drop, and no labels.
LEMMA DrainedLabels == ASSUME LabelInv, Drained PROVE LabelInv'
<1>1. UNCHANGED <<agent, rules, wrapper, hand>> /\ labelled' = <<>> /\ hand' = hand
  BY DEF Drained, NoLabel
<1>2. count' \in [blocks : 0 .. MaxBlocks, samples : 0 .. MaxSamples,
                  agents : 0 .. MaxAgents]
      /\ count'.samples = count.samples + 1 /\ count.samples \in Nat
  BY BoundAssumption DEF LabelInv, Counted, Counts, Drained
<1>3. Len(hand) \in Nat
  BY HandTypes DEF LabelInv
<1>4. Most \in Nat /\ Most' \in Nat /\ Most + 1 =< Most'
  <2> DEFINE N == Cardinality(Threads)
             n == count.samples
  <2>1. N \in Nat \ {0} /\ n \in Nat /\ Most = n * N /\ Most' = (n + 1) * N
    BY <1>2, ThreadCount DEF Most
  <2>2. n * N \in Nat /\ n * N + 1 =< (n + 1) * N /\ (n + 1) * N \in Nat
    <3> HIDE DEF n, N
    <3>1. n * N \in Nat /\ (n + 1) * N = n * N + N
      BY <2>1
    <3> QED
      BY <2>1, <3>1
  <2> QED
    BY <2>1, <2>2
<1>5. Len(hand') =< Most'
  <2>1. Len(hand) =< Most
    BY DEF LabelInv, Counted
  <2> QED
    BY <1>1, <1>3, <1>4, <2>1
<1>6. drops' \in [Reasons -> Nat] /\ \A r \in Reasons : drops'[r] =< count'.samples
  <2>1. drops' = drops \/ \E r \in Reasons : drops' = [drops EXCEPT ![r] = @ + 1]
    BY DEF Drained
  <2> QED
    BY <1>2, <2>1 DEF LabelInv, Counted
<1>7. \A trace \in DOMAIN buffer' :
        buffer'[trace] \in Nat \ {0} /\ buffer'[trace] + Len(hand') =< Most'
  <2>0. \A trace \in DOMAIN buffer :
          buffer[trace] \in Nat \ {0} /\ buffer[trace] + Len(hand) =< Most
    BY DEF LabelInv, Counted
  <2>1. CASE buffer' = buffer
    BY <1>1, <1>3, <1>4, <2>0, <2>1
  <2>2. ASSUME NEW x, buffer' = Plus(buffer, x, 1)
        PROVE  \A trace \in DOMAIN buffer' :
                 buffer'[trace] \in Nat \ {0} /\ buffer'[trace] + Len(hand) =< Most'
    <3>1. Len(hand) =< Most
      BY DEF LabelInv, Counted
    <3>2. \A y \in DOMAIN buffer' :
            /\ buffer'[y] \in Nat \ {0}
            /\ buffer'[y] = 1 \/ \E z \in DOMAIN buffer : buffer'[y] =< buffer[z] + 1
      BY <2>0, <2>2, PlusCounts
    <3> QED
      BY <1>3, <1>4, <2>0, <3>1, <3>2
  <2>3. buffer' = buffer \/ \E x : buffer' = Plus(buffer, x, 1)
    BY DEF Drained, Record
  <2> QED
    BY <1>1, <2>1, <2>2, <2>3
<1>8. Counted'
  BY <1>2, <1>5, <1>6, <1>7 DEF Counted
<1> QED
  BY <1>1, <1>8, QuietLabels

\* A report takes the buffer and the drops.
LEMMA ReportLabels == ASSUME LabelInv, Report PROVE LabelInv'
<1>1. UNCHANGED <<agent, rules, wrapper, hand>> /\ labelled' = <<>>
  BY DEF Report, NoLabel
<1>2. drops' \in [Reasons -> Nat] /\ \A r \in Reasons : drops'[r] =< count.samples
  BY DEF Report, Zero, LabelInv, Counted
<1>3. DOMAIN buffer' = {}
  BY DEF Report, Empty
<1>4. Counted'
  BY <1>1, <1>2, <1>3 DEF Counted, Most, Report, LabelInv
<1> QED
  BY <1>1, <1>4, QuietLabels

-----------------------------------------------------------------------------
\* A step that rewrites the traces in hand, one by one.
LEMMA Rewritten ==
    ASSUME LabelTypes, NEW new, new = [k \in DOMAIN hand |-> new[k]],
           \A k \in DOMAIN hand : new[k] \in Trace
    PROVE  new \in Seq(Trace) /\ Len(new) = Len(hand) /\ DOMAIN new = DOMAIN hand
<1>1. DOMAIN hand = 1 .. Len(hand) /\ Len(hand) \in Nat
  BY HandTypes
<1>2. new \in [1 .. Len(hand) -> Trace]
  BY <1>1
<1> QED
  BY <1>1, <1>2

\* A trace that may have more tags.
LEMMA MayMore ==
    ASSUME NEW h \in Trace, NEW S \in SUBSET AllTags
    PROVE  LET g == [h EXCEPT !.may = @ \cup S]
           IN  /\ g \in Trace /\ g.thread = h.thread
               /\ g.may = h.may \cup S /\ g.must = h.must
  BY DEF Trace

\* A trace that must have fewer tags.
LEMMA MustLess ==
    ASSUME NEW h \in Trace, NEW S
    PROVE  LET g == [h EXCEPT !.must = @ \ S]
           IN  /\ g \in Trace /\ g.thread = h.thread
               /\ g.may = h.may /\ g.must = h.must \ S
<1> DEFINE g == [h EXCEPT !.must = @ \ S]
<1>1. h.must \ S \in SUBSET AllTags
  BY DEF Trace
<1>2. g \in Trace
  BY <1>1 DEF Trace
<1>3. g.thread = h.thread /\ g.may = h.may /\ g.must = h.must \ S
  BY DEF Trace
<1> QED
  BY <1>2, <1>3

\* What Gained does to the traces of t, and to no other.
LEMMA GainedTraces ==
    ASSUME LabelTypes, NEW t \in Threads, NEW tags \in TagLists
    PROVE  /\ Gained(t, tags) \in Seq(Trace)
           /\ Len(Gained(t, tags)) = Len(hand) /\ DOMAIN Gained(t, tags) = DOMAIN hand
           /\ \A k \in DOMAIN hand :
                /\ Gained(t, tags)[k].thread = hand[k].thread
                /\ hand[k].thread # t => Gained(t, tags)[k] = hand[k]
                /\ hand[k].thread = t =>
                     /\ Gained(t, tags)[k].may = hand[k].may \cup ToSet(tags)
                     /\ Gained(t, tags)[k].must = hand[k].must
<1> DEFINE new == Gained(t, tags)
<1>1. ToSet(tags) \in SUBSET AllTags
  BY DEF AllTags
<1>2. new = [k \in DOMAIN hand |-> new[k]]
  BY DEF Gained
<1>3. \A k \in DOMAIN hand :
        new[k] = IF hand[k].thread # t THEN hand[k]
                 ELSE [hand[k] EXCEPT !.may = @ \cup ToSet(tags)]
  BY DEF Gained
<1> HIDE DEF new
<1>4. ASSUME NEW k \in DOMAIN hand
      PROVE  /\ new[k] \in Trace /\ new[k].thread = hand[k].thread
             /\ hand[k].thread # t => new[k] = hand[k]
             /\ hand[k].thread = t => /\ new[k].may = hand[k].may \cup ToSet(tags)
                                      /\ new[k].must = hand[k].must
  <2>1. hand[k] \in Trace
    BY HandTypes
  <2>2. CASE hand[k].thread # t
    BY <1>3, <2>1, <2>2
  <2>3. CASE hand[k].thread = t
    <3>1. new[k] = [hand[k] EXCEPT !.may = @ \cup ToSet(tags)]
      BY <1>3, <2>3
    <3> QED
      BY <1>1, <2>1, <2>3, <3>1, MayMore
  <2> QED
    BY <2>2, <2>3
<1>5. new \in Seq(Trace) /\ Len(new) = Len(hand) /\ DOMAIN new = DOMAIN hand
  BY <1>2, <1>4, Rewritten
<1> QED
  BY <1>4, <1>5 DEF new

\* What Lost does to the traces of t.
LEMMA LostTraces ==
    ASSUME LabelTypes, NEW t \in Threads, NEW tags
    PROVE  /\ Lost(t, tags) \in Seq(Trace)
           /\ Len(Lost(t, tags)) = Len(hand) /\ DOMAIN Lost(t, tags) = DOMAIN hand
           /\ \A k \in DOMAIN hand :
                /\ Lost(t, tags)[k].thread = hand[k].thread
                /\ hand[k].thread # t => Lost(t, tags)[k] = hand[k]
                /\ hand[k].thread = t =>
                     /\ Lost(t, tags)[k].may = hand[k].may
                     /\ Lost(t, tags)[k].must = hand[k].must \ ToSet(tags)
<1> DEFINE new == Lost(t, tags)
<1>2. new = [k \in DOMAIN hand |-> new[k]]
  BY DEF Lost
<1>3. \A k \in DOMAIN hand :
        new[k] = IF hand[k].thread # t THEN hand[k]
                 ELSE [hand[k] EXCEPT !.must = @ \ ToSet(tags)]
  BY DEF Lost
<1> HIDE DEF new
<1>4. ASSUME NEW k \in DOMAIN hand
      PROVE  /\ new[k] \in Trace /\ new[k].thread = hand[k].thread
             /\ hand[k].thread # t => new[k] = hand[k]
             /\ hand[k].thread = t => /\ new[k].may = hand[k].may
                                      /\ new[k].must = hand[k].must \ ToSet(tags)
  <2>1. hand[k] \in Trace
    BY HandTypes
  <2>2. CASE hand[k].thread # t
    BY <1>3, <2>1, <2>2
  <2>3. CASE hand[k].thread = t
    <3>1. new[k] = [hand[k] EXCEPT !.must = @ \ ToSet(tags)]
      BY <1>3, <2>3
    <3> QED
      BY <2>1, <2>3, <3>1, MustLess
  <2> QED
    BY <2>2, <2>3
<1>5. new \in Seq(Trace) /\ Len(new) = Len(hand) /\ DOMAIN new = DOMAIN hand
  BY <1>2, <1>4, Rewritten
<1> QED
  BY <1>4, <1>5 DEF new

\* What tag_wrapper leaves alone of the types.
LEMMA TypesKept ==
    ASSUME LabelTypes, UNCHANGED agent, hand' \in Seq(Trace), Len(hand') = Len(hand),
           \A r \in rules' : r.tag \notin BadTags,
           leaked' \subseteq [tid : Threads, tag : AllTags]
    PROVE  LabelTypes'
<1>1. state' = "Idle" => hand' = <<>>
  BY EmptySeq DEF LabelTypes, agent
<1> QED
  BY <1>1 DEF LabelTypes, agent

\* The blocks of a thread.
LEMMA BlockTypes ==
    ASSUME TagInv, NEW t \in Threads
    PROVE  /\ open[t] \in Seq(Block)
           /\ DOMAIN open[t] = 1 .. Len(open[t]) /\ Len(open[t]) \in Nat
           /\ \A i \in DOMAIN open[t] : open[t][i] \in Block
<1>1. open[t] \in Seq(Block)
  BY DEF TagInv, TagTypes
<1> QED
  BY <1>1, LenProperties, ElementOfSeq

\* tag_wrapper is entered: what it may add is allowed of the traces in hand, and
\* no block owns that any more.
LEMMA EnterLabels ==
    ASSUME LabelInv, NEW t \in Threads, NEW tags \in TagLists, Enter(t, tags)
    PROVE  LabelInv'
<1> USE DEF LabelInv
<1> DEFINE c == [op |-> "add", tags |-> tags, next |-> 1, own |-> {}]
           o == Shared(open[t], tags)
           new == Gained(t, tags)
<1>1. TagInv'
  BY EnterOwned
<1>2. /\ call' = [call EXCEPT ![t] = c] /\ open' = [open EXCEPT ![t] = o] /\ hand' = new
      /\ UNCHANGED <<state, backend, rules, leaked, buffer, drops>> /\ labelled' = <<>>
      /\ Counts("blocks", MaxBlocks)
  BY DEF Enter, agent, NoLabel
<1>3. /\ DOMAIN o = DOMAIN open[t]
      /\ \A i \in DOMAIN o : /\ o[i].own = open[t][i].own \ ToSet(tags)
                             /\ o[i].tags = open[t][i].tags
  <2>1. \A i \in DOMAIN open[t] : open[t][i] \in Block
    BY BlockTypes
  <2> QED
    BY <2>1 DEF Block, Shared
<1>4. c.op = "add" /\ c.own = {} /\ c.tags = tags
  OBVIOUS
<1>5. TagsOf(c) = ToSet(tags) /\ \A i \in DOMAIN o : TagsOf(o[i]) = TagsOf(open[t][i])
  BY <1>3 DEF TagsOf
<1>6. /\ new \in Seq(Trace) /\ Len(new) = Len(hand) /\ DOMAIN new = DOMAIN hand
      /\ \A k \in DOMAIN hand :
           /\ new[k].thread = hand[k].thread
           /\ hand[k].thread # t => new[k] = hand[k]
           /\ hand[k].thread = t => /\ new[k].may = hand[k].may \cup ToSet(tags)
                                    /\ new[k].must = hand[k].must
  BY GainedTraces
<1> HIDE DEF o, c, new
<1>7. LabelTypes'
  BY <1>2, <1>6, TypesKept DEF LabelTypes, agent
<1>8. Alone'
  <2>1. OwnOnly(open[t], call[t]) /\ Apart(open[t], call[t])
    BY DEF Alone
  <2>2. OwnOnly(o, c)
    BY <1>3, <1>4, <1>5, <2>1 DEF OwnOnly
  <2>3. Apart(o, c)
    BY <1>3, <1>4, <1>5, <2>1 DEF Apart
  <2> QED
    BY <1>2, <2>2, <2>3, OthersOwn
<1>9. Backed'
  <2>1. ASSUME Labelling, NEW x \in (UNION {b.own : b \in Range(o)}) \cup c.own
        PROVE  ThreadTag(t, x) \in rules'
    <3>1. PICK i \in DOMAIN o : x \in o[i].own
      BY <1>4, <2>1 DEF Range
    <3>2. x \in OwnTags(t)
      BY <1>3, <3>1 DEF OwnTags, Range
    <3> QED
      BY <1>2, <2>1, <3>2 DEF Backed
  <2> QED
    BY <1>2, <2>1, OthersBacked
<1>10. Between'
  <2>1. ASSUME NEW k \in DOMAIN hand, hand[k].thread = t
        PROVE  /\ c.op = "add" => TagsOf(c) \subseteq new[k].may
               /\ c.op = "remove" => new[k].must \cap TagsOf(c) = {}
               /\ Labelling =>
                    /\ \A r \in rules' : r.tid = t => r.tag \in new[k].may
                    /\ \A x \in new[k].must : ThreadTag(t, x) \in rules'
    BY <1>2, <1>4, <1>5, <1>6, <2>1 DEF Between
  <2> QED
    BY <1>2, <1>6, <2>1, OthersBetween
<1>11. LabelsTrue'
  BY <1>2 DEF LabelsTrue
<1>12. Counted'
  BY <1>2, <1>6, BlockCounted
<1> QED
  BY <1>1, <1>7, <1>8, <1>9, <1>10, <1>11, <1>12

\* NoCall has no tags and owns none.
LEMMA NoCallTags == NoCall.op = "none" /\ TagsOf(NoCall) = {} /\ NoCall.own = {}
  BY DEF NoCall, TagsOf, ToSet

\* add_thread_tag: the loop owns what it adds if no block has it, and the block
\* owns it when the loop ends; the tag was allowed since the block was entered.
LEMMA AddTagLabels ==
    ASSUME LabelInv, NEW t \in Threads, AddTag(t)
    PROVE  LabelInv'
<1> USE DEF LabelInv
<1> DEFINE c == call[t]
           tag == c.tags[c.next]
           accepted == {x \in {tag} : state = "Running"}
           others == UNION {TagsOf(b) : b \in Range(open[t])}
           own == c.own \cup (accepted \ others)
           more == [op |-> "add", tags |-> c.tags, next |-> c.next + 1, own |-> own]
           block == [tags |-> c.tags, own |-> own]
<1>1. TagInv'
  BY AddTagOwned
<1>2. /\ c.op = "add" /\ tag \notin BadTags
      /\ rules' = rules \cup {ThreadTag(t, x) : x \in accepted}
      /\ c.next < Len(c.tags) => call' = [call EXCEPT ![t] = more] /\ open' = open
      /\ ~(c.next < Len(c.tags)) => /\ call' = [call EXCEPT ![t] = NoCall]
                                   /\ open' = [open EXCEPT ![t] = Append(open[t], block)]
      /\ UNCHANGED <<state, backend, hand, buffer, drops, count, leaked>> /\ labelled' = <<>>
  BY DEF AddTag, agent, NoLabel
<1>3. tag \in TagsOf(c)
  BY <1>2 DEF TagInv, TagTypes, TagsOf, ToSet
<1>4. OwnOnly(open[t], c) /\ Apart(open[t], c)
  BY DEF Alone
<1>5. \A i \in DOMAIN open[t] : TagsOf(open[t][i]) \subseteq others
  BY DEF Range
<1>6. /\ own \subseteq TagsOf(c) \ BadTags
      /\ \A i \in DOMAIN open[t] : own \cap TagsOf(open[t][i]) = {}
  BY <1>2, <1>3, <1>4, <1>5 DEF OwnOnly, Apart
<1>7. /\ more.op = "add" /\ more.own = own /\ TagsOf(more) = TagsOf(c)
      /\ block.own = own /\ TagsOf(block) = TagsOf(c)
  BY DEF TagsOf
<1>8. \A x \in accepted : x = tag
  OBVIOUS
<1>9. Labelling => \A x \in own : ThreadTag(t, x) \in rules'
  <2>1. Labelling => \A x \in c.own : ThreadTag(t, x) \in rules
    BY DEF Backed
  <2> QED
    BY <1>2, <2>1
<1>10. \A r \in rules' : r \in rules \/ (r.tid = t /\ r.tag = tag)
  BY <1>2, <1>8 DEF ThreadTag
<1> HIDE DEF own, others, accepted, more, block, tag
<1>11. LabelTypes'
  <2>1. hand' \in Seq(Trace) /\ leaked' \subseteq [tid : Threads, tag : AllTags]
    BY <1>2 DEF LabelTypes
  <2>2. \A r \in rules' : r.tag \notin BadTags
    BY <1>2, <1>10 DEF LabelTypes
  <2> QED
    BY <1>2, <2>1, <2>2, TypesKept DEF agent
<1>12. LabelsTrue'
  BY <1>2 DEF LabelsTrue
<1>13. Counted'
  BY <1>2, CountsKept
<1>14. ASSUME NEW d, call' = [call EXCEPT ![t] = d], d.op \in {"add", "none"},
              d.op = "add" => TagsOf(d) = TagsOf(c)
       PROVE  Between'
  <2>1. \A r : r.tid # t => (r \in rules <=> r \in rules')
    BY <1>2, <1>10
  <2>2. ASSUME NEW k \in DOMAIN hand, hand[k].thread = t
        PROVE  /\ d.op = "add" => TagsOf(d) \subseteq hand[k].may
               /\ d.op = "remove" => hand[k].must \cap TagsOf(d) = {}
               /\ Labelling =>
                    /\ \A r \in rules' : r.tid = t => r.tag \in hand[k].may
                    /\ \A x \in hand[k].must : ThreadTag(t, x) \in rules'
    <3>1. TagsOf(c) \subseteq hand[k].may
      BY <1>2, <2>2 DEF Between
    <3>2. Labelling => /\ \A r \in rules : r.tid = t => r.tag \in hand[k].may
                       /\ \A x \in hand[k].must : ThreadTag(t, x) \in rules
      BY <2>2 DEF Between
    <3> QED
      BY <1>2, <1>3, <1>10, <1>14, <3>1, <3>2
  <2> QED
    BY <1>2, <1>14, <2>1, <2>2, OthersBetween
<1>15. \A r \in rules : r \in rules'
  BY <1>2
<1>16. Labelling => \A x \in OwnTags(t) : ThreadTag(t, x) \in rules
  BY DEF Backed
<1>17. CASE c.next < Len(c.tags)
  <2>1. call' = [call EXCEPT ![t] = more] /\ open' = [open EXCEPT ![t] = open[t]]
    BY <1>2, <1>17 DEF TagInv, TagTypes
  <2>2. OwnOnly(open[t], more) /\ Apart(open[t], more)
    BY <1>4, <1>6, <1>7 DEF OwnOnly, Apart
  <2>3. Alone'
    BY <2>1, <2>2, OthersOwn
  <2>4. Labelling => \A x \in (UNION {b.own : b \in Range(open[t])}) \cup more.own :
                       ThreadTag(t, x) \in rules'
    BY <1>7, <1>9, <1>15, <1>16 DEF OwnTags
  <2>5. Backed'
    BY <1>2, <1>15, <2>1, <2>4, OthersBacked
  <2> QED
    BY <1>1, <1>7, <1>11, <1>12, <1>13, <1>14, <2>1, <2>3, <2>5
<1>18. CASE ~(c.next < Len(c.tags))
  <2> DEFINE o == Append(open[t], block)
             n == Len(open[t])
  <2>1. call' = [call EXCEPT ![t] = NoCall] /\ open' = [open EXCEPT ![t] = o]
    BY <1>2, <1>18
  <2>2. open[t] \in Seq(Block) /\ n \in Nat /\ DOMAIN open[t] = 1 .. n
    BY BlockTypes
  <2>3. /\ DOMAIN o = 1 .. n + 1 /\ o[n + 1] = block
        /\ \A i \in 1 .. n : o[i] = open[t][i]
    BY <2>2
  <2> HIDE DEF o, n
  <2>4. OwnOnly(o, NoCall)
    BY <1>4, <1>6, <1>7, <2>2, <2>3, NoCallTags DEF OwnOnly
  <2>5. Apart(o, NoCall)
    <3>1. ASSUME NEW i \in DOMAIN o, NEW j \in DOMAIN o \ {i}
          PROVE  o[i].own \cap TagsOf(o[j]) = {}
      <4>1. CASE i \in 1 .. n /\ j \in 1 .. n
        BY <1>4, <2>2, <2>3, <3>1, <4>1 DEF Apart
      <4>2. CASE i \in 1 .. n /\ j = n + 1
        BY <1>4, <1>7, <2>2, <2>3, <4>2 DEF Apart
      <4>3. CASE i = n + 1 /\ j \in 1 .. n
        BY <1>6, <1>7, <2>2, <2>3, <4>3
      <4> QED
        BY <2>2, <2>3, <3>1, <4>1, <4>2, <4>3
    <3> QED
      BY <3>1, NoCallTags DEF Apart
  <2>6. Alone'
    BY <2>1, <2>4, <2>5, OthersOwn
  <2>7. Labelling => \A x \in (UNION {b.own : b \in Range(o)}) \cup NoCall.own :
                       ThreadTag(t, x) \in rules'
    <3> SUFFICES ASSUME Labelling, NEW x \in UNION {b.own : b \in Range(o)}
                 PROVE  ThreadTag(t, x) \in rules'
      BY NoCallTags
    <3>1. PICK i \in DOMAIN o : x \in o[i].own
      BY DEF Range
    <3>2. CASE i = n + 1
      BY <1>7, <1>9, <2>3, <3>1, <3>2
    <3>3. CASE i \in 1 .. n
      <4>1. x \in OwnTags(t)
        BY <2>2, <2>3, <3>1, <3>3 DEF OwnTags, Range
      <4> QED
        BY <1>15, <1>16, <4>1
    <3> QED
      BY <2>2, <2>3, <3>2, <3>3
  <2>8. Backed'
    BY <1>2, <1>15, <2>1, <2>7, OthersBacked
  <2> QED
    BY <1>1, <1>11, <1>12, <1>13, <1>14, <2>1, <2>6, <2>8, NoCallTags
<1> QED
  BY <1>17, <1>18

\* The loop raises: it owned what it leaves behind no more.
LEMMA AddTagRaisesLabels ==
    ASSUME LabelInv, NEW t \in Threads, AddTagRaises(t)
    PROVE  LabelInv'
<1> USE DEF LabelInv
<1> DEFINE c == call[t]
<1>1. TagInv'
  BY AddTagRaisesOwned
<1>2. /\ c.op = "add"
      /\ call' = [call EXCEPT ![t] = NoCall] /\ open' = [open EXCEPT ![t] = open[t]]
      /\ leaked' = leaked \cup {ThreadTag(t, c.tags[i]) : i \in 1 .. c.next - 1}
      /\ UNCHANGED <<state, backend, rules, hand, buffer, drops, count>> /\ labelled' = <<>>
  BY DEF AddTagRaises, agent, NoLabel, TagInv, TagTypes
<1>3. OwnOnly(open[t], NoCall) /\ Apart(open[t], NoCall)
  BY NoCallTags DEF Alone, OwnOnly, Apart
<1>4. Alone'
  BY <1>2, <1>3, OthersOwn
<1>5. leaked' \subseteq [tid : Threads, tag : AllTags]
  <2>1. c.tags \in TagLists /\ c.next \in DOMAIN c.tags
    BY <1>2 DEF TagInv, TagTypes
  <2>2. \A i \in 1 .. c.next - 1 : c.tags[i] \in AllTags
    BY <2>1, TagListTags
  <2> QED
    BY <1>2, <2>2 DEF LabelTypes, ThreadTag
<1>6. LabelTypes'
  BY <1>2, <1>5, TypesKept DEF LabelTypes, agent
<1>7. Backed'
  <2>1. Labelling => \A x \in (UNION {b.own : b \in Range(open[t])}) \cup NoCall.own :
                       ThreadTag(t, x) \in rules'
    BY <1>2, NoCallTags DEF Backed, OwnTags
  <2> QED
    BY <1>2, <2>1, OthersBacked
<1>8. Between'
  <2>1. ASSUME NEW k \in DOMAIN hand, hand[k].thread = t
        PROVE  /\ NoCall.op = "add" => TagsOf(NoCall) \subseteq hand[k].may
               /\ NoCall.op = "remove" => hand[k].must \cap TagsOf(NoCall) = {}
               /\ Labelling =>
                    /\ \A r \in rules' : r.tid = t => r.tag \in hand[k].may
                    /\ \A x \in hand[k].must : ThreadTag(t, x) \in rules'
    BY <1>2, <2>1, NoCallTags DEF Between
  <2> QED
    BY <1>2, <2>1, OthersBetween
<1>9. LabelsTrue' /\ Counted'
  BY <1>2, CountsKept DEF LabelsTrue
<1> QED
  BY <1>1, <1>4, <1>6, <1>7, <1>8, <1>9

\* A block is left: no other owns a tag of it, and none of them must be on the
\* traces in hand any more.
LEMMA ExitLabels ==
    ASSUME LabelInv, NEW t \in Threads, Exit(t)
    PROVE  LabelInv'
<1> USE DEF LabelInv
<1>1. TagInv'
  BY ExitOwned
<1>2. PICK i \in DOMAIN open[t] :
         /\ call' = [call EXCEPT ![t] = [op |-> "remove", tags |-> open[t][i].tags,
                                         next |-> 1, own |-> {}]]
         /\ open' = [open EXCEPT ![t] = RemoveAt(open[t], i)]
         /\ hand' = Lost(t, open[t][i].tags)
  BY DEF Exit
<1>3. UNCHANGED <<state, backend, rules, leaked, buffer, drops, count>> /\ labelled' = <<>>
  BY DEF Exit, agent, NoLabel
<1> DEFINE s == open[t]
           tags == s[i].tags
           c == [op |-> "remove", tags |-> tags, next |-> 1, own |-> {}]
           o == RemoveAt(s, i)
           new == Lost(t, tags)
<1>4. OwnOnly(s, call[t]) /\ Apart(s, call[t])
  BY DEF Alone
<1>5. /\ s \in Seq(Block) /\ DOMAIN s = 1 .. Len(s) /\ Len(s) \in Nat
  BY BlockTypes
<1>6. DOMAIN o = 1 .. Len(s) - 1 /\ \A k \in DOMAIN o : o[k] = s[IF k < i THEN k ELSE k + 1]
  BY <1>5, RemoveAtMoves
<1>7. c.op = "remove" /\ c.own = {} /\ TagsOf(c) = TagsOf(s[i]) /\ TagsOf(c) = ToSet(tags)
  BY DEF TagsOf
<1>8. /\ new \in Seq(Trace) /\ Len(new) = Len(hand) /\ DOMAIN new = DOMAIN hand
      /\ \A k \in DOMAIN hand :
           /\ new[k].thread = hand[k].thread
           /\ hand[k].thread # t => new[k] = hand[k]
           /\ hand[k].thread = t => /\ new[k].may = hand[k].may
                                    /\ new[k].must = hand[k].must \ ToSet(tags)
  BY LostTraces
<1>9. call' = [call EXCEPT ![t] = c] /\ open' = [open EXCEPT ![t] = o] /\ hand' = new
  BY <1>2
<1> HIDE DEF o, c, new, s, tags
<1>10. \A k \in DOMAIN o : \E j \in DOMAIN s \ {i} :
         o[k] = s[j] /\ j = IF k < i THEN k ELSE k + 1
  <2> SUFFICES ASSUME NEW k \in DOMAIN o
               PROVE  (IF k < i THEN k ELSE k + 1) \in DOMAIN s \ {i}
    BY <1>6
  <2>1. i \in DOMAIN s
    BY DEF s
  <2> QED
    BY <1>5, <1>6, <2>1
<1>11. LabelTypes'
  BY <1>3, <1>8, <1>9, TypesKept DEF LabelTypes, agent
<1>12. Alone'
  <2>1. OwnOnly(o, c)
    BY <1>4, <1>7, <1>10 DEF OwnOnly
  <2>2. Apart(o, c)
    <3> SUFFICES ASSUME NEW k \in DOMAIN o
                 PROVE  /\ \A l \in DOMAIN o \ {k} : o[k].own \cap TagsOf(o[l]) = {}
                        /\ o[k].own \cap TagsOf(s[i]) = {}
      BY <1>7 DEF Apart
    <3>1. PICK j \in DOMAIN s \ {i} : o[k] = s[j] /\ j = IF k < i THEN k ELSE k + 1
      BY <1>10
    <3>2. i \in DOMAIN s
      BY DEF s
    <3>3. s[j].own \cap TagsOf(s[i]) = {}
      BY <1>4, <3>1, <3>2 DEF Apart
    <3>4. ASSUME NEW l \in DOMAIN o \ {k} PROVE o[k].own \cap TagsOf(o[l]) = {}
      <4>1. PICK m \in DOMAIN s \ {i} : o[l] = s[m] /\ m = IF l < i THEN l ELSE l + 1
        BY <1>10
      <4>2. m # j
        BY <1>5, <1>6, <3>1, <3>2, <4>1
      <4> QED
        BY <1>4, <3>1, <4>1, <4>2 DEF Apart
    <3> QED
      BY <3>1, <3>3, <3>4
  <2> QED
    BY <1>9, <2>1, <2>2, OthersOwn
<1>13. Backed'
  <2>1. ASSUME Labelling, NEW x \in (UNION {b.own : b \in Range(o)}) \cup c.own
        PROVE  ThreadTag(t, x) \in rules'
    <3>1. PICK k \in DOMAIN o : x \in o[k].own
      BY <1>7, <2>1 DEF Range
    <3>2. x \in OwnTags(t)
      BY <1>10, <3>1 DEF OwnTags, Range, s
    <3> QED
      BY <1>3, <2>1, <3>2 DEF Backed
  <2> QED
    BY <1>3, <1>9, <2>1, OthersBacked
<1>14. Between'
  <2>1. ASSUME NEW k \in DOMAIN hand, hand[k].thread = t
        PROVE  /\ c.op = "add" => TagsOf(c) \subseteq new[k].may
               /\ c.op = "remove" => new[k].must \cap TagsOf(c) = {}
               /\ Labelling =>
                    /\ \A r \in rules' : r.tid = t => r.tag \in new[k].may
                    /\ \A x \in new[k].must : ThreadTag(t, x) \in rules'
    BY <1>3, <1>7, <1>8, <2>1 DEF Between
  <2>2. \A r : r.tid # t => (r \in rules <=> r \in rules')
    BY <1>3
  <2>3. /\ state' = state /\ hand' = new /\ DOMAIN new = DOMAIN hand
        /\ \A k \in DOMAIN hand : new[k].thread = hand[k].thread
        /\ \A k \in DOMAIN hand : hand[k].thread # t => new[k] = hand[k]
    BY <1>3, <1>8, <1>9
  <2>4. call' = [call EXCEPT ![t] = c]
    BY <1>9
  <2> QED
    BY <2>1, <2>2, <2>3, <2>4, OthersBetween
<1>15. LabelsTrue'
  BY <1>3 DEF LabelsTrue
<1>16. Counted'
  BY <1>3, <1>8, <1>9, CountsKept
<1> QED
  BY <1>1, <1>11, <1>12, <1>13, <1>14, <1>15, <1>16

\* remove_thread_tag: nobody owns the tag, and no trace in hand must have it.
LEMMA RemoveTagLabels ==
    ASSUME LabelInv, NEW t \in Threads, RemoveTag(t)
    PROVE  LabelInv'
<1> USE DEF LabelInv
<1> DEFINE c == call[t]
           rule == ThreadTag(t, c.tags[c.next])
           removed == {x \in {rule} : state = "Running"}
           d == IF c.next < Len(c.tags) THEN [c EXCEPT !.next = @ + 1] ELSE NoCall
<1>1. TagInv'
  BY RemoveTagOwned
<1>2. /\ c.op = "remove"
      /\ call' = [call EXCEPT ![t] = d] /\ open' = [open EXCEPT ![t] = open[t]]
      /\ rules' = rules \ removed /\ leaked' = leaked \ removed
      /\ UNCHANGED <<state, backend, hand, buffer, drops, count>> /\ labelled' = <<>>
  BY DEF RemoveTag, agent, NoLabel, TagInv, TagTypes
<1>3. OwnOnly(open[t], c) /\ Apart(open[t], c)
  BY DEF Alone
<1>4. /\ d.op \in {"none", "remove"} /\ d.own = {}
      /\ TagsOf(d) \subseteq TagsOf(c)
  <2>1. CASE c.next < Len(c.tags)
    <3>1. c \in Call
      BY DEF TagInv, TagTypes
    <3>2. d = [c EXCEPT !.next = @ + 1]
      BY <2>1
    <3>3. d.op = c.op /\ d.own = c.own /\ d.tags = c.tags
      BY <3>1, <3>2 DEF Call
    <3> QED
      BY <1>2, <1>3, <3>3 DEF OwnOnly, TagsOf
  <2>2. CASE ~(c.next < Len(c.tags))
    BY <2>2, NoCallTags
  <2> QED
    BY <2>1, <2>2
<1>5. \A r \in rules : r \in rules' \/ (r.tid = t /\ r.tag \in TagsOf(c))
  <2>1. rule.tid = t /\ rule.tag \in TagsOf(c)
    BY <1>2 DEF ThreadTag, TagInv, TagTypes, TagsOf, ToSet
  <2> QED
    BY <1>2, <2>1
<1>6. \A r : r \in rules' => r \in rules
  BY <1>2
<1> HIDE DEF d, removed, rule
<1>7. \A x : /\ ThreadTag(t, x) \in rules => ThreadTag(t, x) \in rules' \/ x \in TagsOf(c)
  BY <1>5 DEF ThreadTag
<1>8. LabelTypes'
  <2>1. \A r \in rules' : r.tag \notin BadTags
    BY <1>6 DEF LabelTypes
  <2> QED
    BY <1>2, <2>1, TypesKept DEF LabelTypes, agent
<1>9. Alone'
  <2>1. OwnOnly(open[t], d)
    BY <1>3, <1>4 DEF OwnOnly
  <2>2. Apart(open[t], d)
    BY <1>3, <1>4 DEF Apart
  <2> QED
    BY <1>2, <2>1, <2>2, OthersOwn
<1>10. Backed'
  <2>1. ASSUME Labelling, NEW x \in (UNION {b.own : b \in Range(open[t])}) \cup d.own
        PROVE  ThreadTag(t, x) \in rules'
    <3>1. PICK i \in DOMAIN open[t] : x \in open[t][i].own
      BY <1>4, <2>1 DEF Range
    <3>2. x \notin TagsOf(c)
      BY <1>3, <3>1 DEF Apart
    <3>3. ThreadTag(t, x) \in rules
      BY <2>1, <3>1 DEF Backed, OwnTags, Range
    <3> QED
      BY <1>7, <3>2, <3>3
  <2>2. \A r \in rules : r.tid # t => r \in rules'
    BY <1>5
  <2> QED
    BY <1>2, <2>1, <2>2, OthersBacked
<1>11. Between'
  <2>1. ASSUME NEW k \in DOMAIN hand, hand[k].thread = t
        PROVE  /\ d.op = "add" => TagsOf(d) \subseteq hand[k].may
               /\ d.op = "remove" => hand[k].must \cap TagsOf(d) = {}
               /\ Labelling =>
                    /\ \A r \in rules' : r.tid = t => r.tag \in hand[k].may
                    /\ \A x \in hand[k].must : ThreadTag(t, x) \in rules'
    <3>1. hand[k].must \cap TagsOf(c) = {}
      BY <1>2, <2>1 DEF Between
    <3>2. Labelling => /\ \A r \in rules : r.tid = t => r.tag \in hand[k].may
                       /\ \A x \in hand[k].must : ThreadTag(t, x) \in rules
      BY <2>1 DEF Between
    <3> QED
      BY <1>4, <1>6, <1>7, <3>1, <3>2
  <2>2. \A r : r.tid # t => (r \in rules <=> r \in rules')
    BY <1>5, <1>6
  <2> QED
    BY <1>2, <2>1, <2>2, OthersBetween
<1>12. LabelsTrue' /\ Counted'
  BY <1>2, CountsKept DEF LabelsTrue
<1> QED
  BY <1>1, <1>8, <1>9, <1>10, <1>11, <1>12

\* What the threads that py-spy saw are in: the tags of their blocks and loops,
\* and those left behind, allow every rule, and what they own is in the ruleset.
LEMMA SampleLabels ==
    ASSUME LabelInv, Sample
    PROVE  LabelInv'
<1> USE DEF LabelInv
<1>1. TagInv'
  <2>1. UNCHANGED <<state, rules, open, call, leaked>>
    BY DEF Sample, agent, wrapper
  <2> QED
    BY <2>1, StutterOwned
<1>2. PICK kept \in SUBSET Threads \ {{}}, f \in [Threads -> Stacks] :
        LET s == SetToSeq(kept)
        IN  hand' = [i \in DOMAIN s |->
                       [thread |-> s[i], frames |-> f[s[i]],
                        may |-> OpenTags(s[i])
                                 \cup {r.tag : r \in {x \in leaked : x.tid = s[i]}},
                        must |-> OwnTags(s[i])]]
  BY DEF Sample
<1> DEFINE s == SetToSeq(kept)
           Left(t) == {r.tag : r \in {x \in leaked : x.tid = t}}
           h(i) == [thread |-> s[i], frames |-> f[s[i]],
                    may |-> OpenTags(s[i]) \cup Left(s[i]), must |-> OwnTags(s[i])]
           n == Cardinality(kept)
<1>3. /\ UNCHANGED <<state, backend, rules, open, call, leaked, buffer, drops>>
      /\ labelled' = <<>> /\ hand = <<>> /\ state # "Idle"
      /\ Counts("samples", MaxSamples)
  BY DEF Sample, agent, wrapper, NoLabel
<1>4. IsFiniteSet(kept) /\ n =< Cardinality(Threads)
  BY ThreadsAssumption, FS_Subset
<1>5. s \in [1 .. n -> kept] /\ n \in Nat
  BY <1>4, Listed DEF Injection
<1>6. hand' = [i \in 1 .. n |-> h(i)]
  BY <1>2, <1>5
<1>7. \A i \in 1 .. n : s[i] \in Threads
  BY <1>5
<1> HIDE DEF s, n
<1>8. ASSUME NEW t \in Threads
      PROVE  OpenTags(t) \cup Left(t) \subseteq AllTags /\ OwnTags(t) \subseteq AllTags
  <2>1. \A i \in DOMAIN open[t] : /\ TagsOf(open[t][i]) \subseteq AllTags
                                  /\ open[t][i].own \subseteq AllTags
    <3>1. \A i \in DOMAIN open[t] : open[t][i] \in Block
      BY BlockTypes
    <3> QED
      BY <3>1 DEF Block, TagsOf, AllTags
  <2>2. TagsOf(call[t]) \subseteq AllTags
    <3>1. call[t].tags \in TagLists \cup {<<>>}
      BY DEF TagInv, TagTypes, Call
    <3> QED
      BY <3>1, EmptyTags DEF TagsOf, AllTags, ToSet
  <2>3. Left(t) \subseteq AllTags
    BY DEF LabelTypes
  <2> QED
    BY <2>1, <2>2, <2>3 DEF OpenTags, OwnTags, Range
<1>9. \A i \in 1 .. n : h(i) \in Trace
  BY <1>7, <1>8 DEF Trace
<1>10. hand' \in Seq(Trace) /\ Len(hand') = n /\ DOMAIN hand' = 1 .. n
  <2>1. hand' \in [1 .. n -> Trace]
    BY <1>6, <1>9
  <2> QED
    BY <1>5, <2>1
<1>11. LabelTypes'
  BY <1>3, <1>4, <1>10 DEF LabelTypes, n
<1>12. Alone'
  BY <1>3 DEF Alone
<1>13. Backed'
  BY <1>3 DEF Backed, Labelling, OwnTags
<1>14. Between'
  <2> SUFFICES ASSUME NEW i \in 1 .. n
      PROVE  /\ call[s[i]].op = "add" => TagsOf(call[s[i]]) \subseteq h(i).may
             /\ call[s[i]].op = "remove" => h(i).must \cap TagsOf(call[s[i]]) = {}
             /\ Labelling =>
                  /\ \A r \in rules : r.tid = s[i] => r.tag \in h(i).may
                  /\ \A x \in h(i).must : ThreadTag(s[i], x) \in rules
    <3>1. \A i \in 1 .. n : hand'[i] = h(i) /\ hand'[i].thread = s[i]
      BY <1>6
    <3>2. Labelling' = Labelling
      BY <1>3 DEF Labelling
    <3> HIDE DEF h
    <3> QED
      BY <1>3, <1>10, <3>1, <3>2 DEF Between, TagsOf, ThreadTag
  <2> DEFINE t == s[i]
  <2>1. t \in Threads /\ h(i).may = OpenTags(t) \cup Left(t) /\ h(i).must = OwnTags(t)
    BY <1>7
  <2> HIDE DEF t, h
  <2>2. TagsOf(call[t]) \subseteq OpenTags(t)
    BY DEF OpenTags
  <2>3. OwnTags(t) \cap TagsOf(call[t]) = {}
    BY <2>1 DEF Alone, Apart, OwnTags, Range
  <2>4. Labelling => \A x \in OwnTags(t) : ThreadTag(t, x) \in rules
    BY <2>1 DEF Backed
  <2>5. ASSUME Labelling, NEW r \in rules, r.tid = t PROVE r.tag \in OpenTags(t) \cup Left(t)
    <3>1. state = "Running"
      BY <2>5 DEF Labelling, TagInv, Owned
    <3>2. InBlock(r) \/ InCall(r) \/ r \in leaked
      BY <3>1 DEF TagInv, Owned
    <3>3. InBlock(r) \/ InCall(r) => r.tag \in OpenTags(r.tid)
      BY Covered
    <3> QED
      BY <2>5, <3>2, <3>3
  <2> QED
    BY <2>1, <2>2, <2>3, <2>4, <2>5 DEF t
<1>15. LabelsTrue'
  BY <1>3 DEF LabelsTrue
<1>16. Counted'
  <2>1. /\ count' \in [blocks : 0 .. MaxBlocks, samples : 0 .. MaxSamples,
                       agents : 0 .. MaxAgents]
        /\ count'.samples = count.samples + 1 /\ count.samples \in Nat
    BY <1>3, BoundAssumption DEF Counted, Counts
  <2>2. Most \in Nat /\ \A k \in Nat : k =< Most => k + n =< Most'
    BY <1>4, <1>5, <2>1, MoreSamples, ThreadCount DEF Most, n
  <2>3. Len(hand) = 0
    BY <1>3
  <2>4. \A trace \in DOMAIN buffer : buffer[trace] \in Nat \ {0} /\ buffer[trace] =< Most
    BY <2>3 DEF Counted
  <2>5. n =< Most'
    BY <1>5, <2>2
  <2>6. drops' \in [Reasons -> Nat] /\ \A r \in Reasons : drops'[r] =< count'.samples
    BY <1>3, <2>1 DEF Counted
  <2>7. \A trace \in DOMAIN buffer' :
          buffer'[trace] \in Nat \ {0} /\ buffer'[trace] + n =< Most'
    BY <1>3, <2>2, <2>4
  <2> QED
    BY <1>10, <2>1, <2>5, <2>6, <2>7 DEF Counted
<1> QED
  BY <1>1, <1>11, <1>12, <1>13, <1>14, <1>15, <1>16

\* add_tag_rules gives a trace the rules of its thread, which lie between the
\* bounds the trace has by then.
LEMMA RecordTraceLabels ==
    ASSUME LabelInv, RecordTrace
    PROVE  LabelInv'
<1> USE DEF LabelInv
<1> DEFINE h == Head(hand)
           new == NewTrace(h.thread, h.frames)
           trace == add_tag_rules(new)
<1>1. TagInv'
  <2>1. UNCHANGED <<state, rules, open, call, leaked>>
    BY DEF RecordTrace, agent, wrapper
  <2> QED
    BY <2>1, StutterOwned
<1>2. /\ UNCHANGED <<state, backend, rules, open, call, leaked, drops, count>>
      /\ hand # <<>> /\ hand' = Tail(hand)
      /\ buffer' = Plus(buffer, trace, 1)
      /\ labelled' = IF state = "Stopping" THEN labelled
                     ELSE [tags |-> trace.tags, may |-> h.may \cup new.tags,
                           must |-> h.must \cup new.tags]
  BY DEF RecordTrace, Record, agent, wrapper
<1>3. hand \in Seq(Trace)
  BY DEF LabelTypes
<1>4. /\ hand' \in Seq(Trace) /\ Len(hand) \in Nat \ {0} /\ Len(hand') = Len(hand) - 1
      /\ DOMAIN hand = 1 .. Len(hand) /\ DOMAIN hand' = 1 .. Len(hand) - 1
      /\ \A k \in 1 .. Len(hand) - 1 : hand'[k] = hand[k + 1]
      /\ h = hand[1]
  BY <1>2, <1>3, HeadTailProperties, LenProperties, EmptySeq
<1>5. LabelTypes'
  <2>1. Len(hand') =< Cardinality(Threads)
    BY <1>4, ThreadCount DEF LabelTypes
  <2>2. state # "Idle"
    BY <1>2 DEF LabelTypes
  <2> QED
    BY <1>2, <1>4, <2>1, <2>2 DEF LabelTypes
<1>6. Alone'
  BY <1>2 DEF Alone
<1>7. Labelling' = Labelling
  BY <1>2 DEF Labelling
<1>8. Backed'
  BY <1>2, <1>7 DEF Backed, OwnTags
<1>9. Between'
  <2>1. \A k \in DOMAIN hand' : \E j \in DOMAIN hand : hand'[k] = hand[j]
    BY <1>4
  <2> QED
    BY <1>2, <1>7, <2>1 DEF Between, TagsOf, ThreadTag
<1>10. LabelsTrue'
  <2>1. CASE state = "Stopping"
    BY <1>2, <2>1 DEF LabelsTrue
  <2>2. CASE state # "Stopping"
    <3>1. Labelling /\ h \in Trace /\ 1 \in DOMAIN hand
      BY <1>2, <1>3, <1>4, <2>2, ElementOfSeq DEF LabelTypes, Labelling
    <3>2. /\ \A r \in rules : r.tid = h.thread => r.tag \in h.may
          /\ \A x \in h.must : ThreadTag(h.thread, x) \in rules
      BY <1>4, <3>1 DEF Between
    <3>3. /\ new.thread = h.thread
          /\ trace.tags = new.tags \cup {r.tag : r \in {x \in rules : x.tid = h.thread}}
      BY DEF NewTrace, add_tag_rules
    <3>4. h.must \subseteq {r.tag : r \in {x \in rules : x.tid = h.thread}}
      <4> SUFFICES ASSUME NEW x \in h.must
                   PROVE  x \in {r.tag : r \in {y \in rules : y.tid = h.thread}}
        OBVIOUS
      <4>1. ThreadTag(h.thread, x) \in {y \in rules : y.tid = h.thread}
        BY <3>2 DEF ThreadTag
      <4>2. ThreadTag(h.thread, x).tag = x
        BY DEF ThreadTag
      <4> QED
        BY <4>1, <4>2
    <3>5. /\ labelled'.tags = trace.tags /\ labelled'.may = h.may \cup new.tags
          /\ labelled'.must = h.must \cup new.tags
      BY <1>2, <2>2
    <3> QED
      BY <3>2, <3>3, <3>4, <3>5 DEF LabelsTrue
  <2> QED
    BY <2>1, <2>2
<1>11. Counted'
  <2>1. Most' = Most /\ Most \in Nat
    <3>1. count.samples \in Nat
      BY DEF Counted
    <3> QED
      BY <1>2, <3>1, MoreSamples, ThreadCount DEF Most
  <2>2. \A y \in DOMAIN buffer : buffer[y] \in Nat \ {0} /\ buffer[y] + Len(hand) =< Most
    BY DEF Counted
  <2>3. Len(hand) =< Most
    BY DEF Counted
  <2>4. \A y \in DOMAIN buffer' :
          /\ buffer'[y] \in Nat \ {0}
          /\ buffer'[y] = 1 \/ \E z \in DOMAIN buffer : buffer'[y] =< buffer[z] + 1
    BY <1>2, <2>2, PlusCounts
  <2>5. \A y \in DOMAIN buffer' :
          buffer'[y] \in Nat \ {0} /\ buffer'[y] + (Len(hand) - 1) =< Most
    BY <1>4, <2>1, <2>2, <2>3, <2>4
  <2>6. Len(hand') =< Most'
    BY <1>4, <2>1, <2>3
  <2> QED
    BY <1>2, <1>4, <2>1, <2>5, <2>6 DEF Counted
<1> QED
  BY <1>1, <1>5, <1>6, <1>8, <1>9, <1>10, <1>11

-----------------------------------------------------------------------------
\* Every step of the program, of the agent and of the sampler threads.
LEMMA NextLabels == LabelInv /\ [Next]_vars => LabelInv'
<1> SUFFICES ASSUME LabelInv, [Next]_vars PROVE LabelInv'
  OBVIOUS
<1>1. CASE Start \/ AgentStep
  BY <1>1, StartLabels, AgentStepLabels
<1>2. ASSUME NEW t \in Threads, NEW tags \in TagLists, Enter(t, tags) PROVE LabelInv'
  BY <1>2, EnterLabels
<1>3. ASSUME NEW t \in Threads, AddTag(t) \/ AddTagRaises(t) \/ Exit(t) \/ RemoveTag(t)
      PROVE  LabelInv'
  BY <1>3, AddTagLabels, AddTagRaisesLabels, ExitLabels, RemoveTagLabels
<1>4. CASE Sample \/ RecordTrace \/ Drained \/ Report
  BY <1>4, SampleLabels, RecordTraceLabels, DrainedLabels, ReportLabels
<1>5. CASE UNCHANGED vars
  <2>1. /\ UNCHANGED <<agent, rules, wrapper, hand>> /\ labelled' = labelled
        /\ UNCHANGED <<count, drops, buffer>> /\ hand' = hand
    BY <1>5 DEF vars, agent, wrapper
  <2>2. Counted'
    BY <2>1, CountsKept
  <2> QED
    BY <2>1, <2>2, QuietLabels
<1> QED
  BY <1>1, <1>2, <1>3, <1>4, <1>5 DEF Next

\* Blocks, loops, the ruleset and the samples in hand fit together.
LEMMA LabelInvariant == Spec => []LabelInv
BY InitLabels, NextLabels, PTL DEF Spec

\* Every variable has its type; no rule holds a tag that is not text, and no
\* count of a stack exceeds what the samples can have brought (add_thread_tag,
\* StackBuffer::record).
THEOREM ReportTypes == Spec => []TypeOK
<1>1. ASSUME LabelInv PROVE TypeOK
  <2> USE <1>1 DEF LabelInv
  <2>1. ASSUME NEW t \in Threads
        PROVE  /\ \A i \in DOMAIN open[t] :
                    /\ open[t][i].tags \in TagLists
                    /\ open[t][i].own \subseteq TagsOf(open[t][i]) \ BadTags
               /\ call[t].op \in {"none", "add", "remove"}
               /\ call[t].op # "none" => call[t].next \in DOMAIN call[t].tags
    <3>1. \A i \in DOMAIN open[t] : open[t][i] \in Block
      BY BlockTypes
    <3>2. \A i \in DOMAIN open[t] : open[t][i].own \subseteq TagsOf(open[t][i]) \ BadTags
      BY DEF Alone, OwnOnly
    <3>3. call[t] \in Call /\ (call[t].op # "none" => call[t].next \in DOMAIN call[t].tags)
      BY DEF TagInv, TagTypes
    <3> QED
      BY <3>1, <3>2, <3>3 DEF Block, Call
  <2>2. rules \subseteq [tid : Threads, tag : AllTags \ BadTags]
    BY DEF TagInv, TagTypes, LabelTypes
  <2>3. count.samples \in 0 .. MaxSamples /\ MaxSamples \in Nat
    BY BoundAssumption DEF Counted
  <2>4. Most =< MaxSamples * Cardinality(Threads) /\ Most \in Nat
        /\ MaxSamples * Cardinality(Threads) \in Nat
    <3> DEFINE N == Cardinality(Threads)
               n == count.samples
    <3>1. N \in Nat
      BY ThreadCount
    <3>2. n \in Nat /\ n =< MaxSamples /\ MaxSamples \in Nat /\ Most = n * N
      BY <2>3 DEF Most
    <3> HIDE DEF n, N
    <3>3. PICK m \in Nat : MaxSamples = n + m
      <4>1. MaxSamples - n \in Nat /\ MaxSamples = n + (MaxSamples - n)
        BY <3>2
      <4> QED
        BY <4>1
    <3>4. MaxSamples * N = n * N + m * N /\ n * N \in Nat /\ m * N \in Nat
      BY <3>1, <3>2, <3>3
    <3>5. n * N =< MaxSamples * N /\ MaxSamples * N \in Nat
      BY <3>4
    <3> QED
      BY <3>2, <3>4, <3>5 DEF N
  <2>5. Len(hand) \in Nat
    BY HandTypes
  <2>6. \A trace \in DOMAIN buffer : buffer[trace] \in 1 .. MaxSamples * Cardinality(Threads)
    <3> DEFINE M == MaxSamples * Cardinality(Threads)
    <3>1. M \in Nat /\ Most =< M /\ Most \in Nat
      BY <2>4
    <3> HIDE DEF M
    <3>2. \A trace \in DOMAIN buffer :
            buffer[trace] \in Nat \ {0} /\ buffer[trace] + Len(hand) =< Most
      BY DEF Counted
    <3>3. \A trace \in DOMAIN buffer : buffer[trace] \in 1 .. M
      BY <2>5, <3>1, <3>2
    <3> QED
      BY <3>3 DEF M
  <2>7. drops \in [Reasons -> 0 .. MaxSamples]
    BY <2>3 DEF Counted
  <2> QED
    BY <2>1, <2>2, <2>6, <2>7 DEF TypeOK, LabelTypes
<1> QED
  BY <1>1, LabelInvariant, PTL

\* The labels a trace gets when it is recorded are true of its thread: every tag
\* of a block the thread has been in all the while and that no other block of it
\* shares, and no tag of a block it was not in since the sample was taken
\* (tag_wrapper, add_tag_rules, Pyspy::initialize).
THEOREM LabelsAreTrue == Spec => []LabelsTrue
<1>1. LabelInv => LabelsTrue
  BY DEF LabelInv
<1> QED
  BY <1>1, LabelInvariant, PTL

-----------------------------------------------------------------------------
(***************************************************************************)
(* Counts                                                                  *)
(***************************************************************************)

\* What f counts under what reads as r: one unit for each time.
Units(f, r) == {u \in [of : DOMAIN f, nth : Nat] : Reading(u.of) = r /\ u.nth \in 1 .. f[u.of]}

\* The units of x from m + 1 to m + n.
UnitsOf(x, m, n) == {u \in [of : {x}, nth : Nat] : u.nth \in m + 1 .. m + n}

\* What the function g has for x, 0 when it has nothing.
Of(g, x) == IF x \in DOMAIN g THEN g[x] ELSE 0

\* g has the counts of f, by what the stack traces read as.
Tally(f, g) ==
    /\ IsFiniteSet(DOMAIN f) /\ \A x \in DOMAIN f : f[x] \in Nat \ {0}
    /\ DOMAIN g = {Reading(x) : x \in DOMAIN f}
    /\ \A r : IsFiniteSet(Units(f, r)) /\ Of(g, r) = Cardinality(Units(f, r))

\* h is g with n more of x.
IsPlus(g, x, n, h) ==
    /\ DOMAIN h = DOMAIN g \cup {x} /\ h[x] = Of(g, x) + n
    /\ \A y \in DOMAIN g : y # x => h[y] = g[y] + 0

\* What Plus does.
LEMMA PlusIs == ASSUME NEW g, NEW x, NEW n PROVE IsPlus(g, x, n, Plus(g, x, n))
BY DEF Plus, Of, IsPlus

\* Nothing is counted yet.
LEMMA EmptyTally == Tally(Empty, Empty)
<1>1. DOMAIN Empty = {}
  BY DEF Empty
<1>2. \A r : Units(Empty, r) = {}
  BY <1>1 DEF Units
<1> QED BY <1>1, <1>2, FS_EmptySet DEF Tally, Of

\* n units of x.
LEMMA MoreUnits ==
    ASSUME NEW x, NEW m \in Nat, NEW n \in Nat
    PROVE  IsFiniteSet(UnitsOf(x, m, n)) /\ Cardinality(UnitsOf(x, m, n)) = n
<1> DEFINE I == m + 1 .. m + n
<1> DEFINE U == UnitsOf(x, m, n)
<1> DEFINE f == [k \in I |-> [of |-> x, nth |-> k]]
<1>1. IsFiniteSet(I) /\ Cardinality(I) = n
  <2>1. m + 1 \in Int /\ m + n \in Int /\ (m + 1 > m + n <=> n = 0)
        /\ m + n - (m + 1) + 1 = n
    OBVIOUS
  <2> QED BY <2>1, FS_Interval
<1>2. I \subseteq Nat
  OBVIOUS
<1>3. \A k \in I : [of |-> x, nth |-> k] \in U
  BY <1>2 DEF UnitsOf
<1>4. \A u \in U : u.nth \in I /\ u = [of |-> x, nth |-> u.nth]
  BY DEF UnitsOf
<1> HIDE DEF U, I
<1>5. f \in [I -> U] /\ \A k \in I : f[k] = [of |-> x, nth |-> k]
  BY <1>3
<1> HIDE DEF f
<1>6. IsInjective(f)
  <2>1. \A a, b \in I : f[a] = f[b] => a = b
    BY <1>5
  <2> QED BY <1>5, <2>1 DEF IsInjective
<1>7. f \in Surjection(I, U)
  <2>1. \A u \in U : \E k \in I : f[k] = u
    BY <1>4, <1>5
  <2> QED BY <1>5, <2>1 DEF Surjection
<1>8. f \in Bijection(I, U)
  BY <1>5, <1>6, <1>7 DEF Bijection, Injection
<1>9. ExistsBijection(I, U)
  BY <1>8 DEF ExistsBijection
<1>10. IsFiniteSet(U) /\ Cardinality(U) = Cardinality(I)
  BY <1>1, <1>9, FS_Bijection
<1> QED BY <1>1, <1>10 DEF U

\* A stack trace is counted n times more, and so is what it reads as.
LEMMA TallyPlus ==
    ASSUME NEW f, NEW g, Tally(f, g), NEW x, NEW n \in Nat \ {0}
    PROVE  Tally(Plus(f, x, n), Plus(g, Reading(x), n))
<1> DEFINE s == Reading(x)
<1> DEFINE F == Plus(f, x, n)
<1> DEFINE G == Plus(g, s, n)
<1> DEFINE old == Of(f, x)
<1> DEFINE New == UnitsOf(x, old, n)
<1>1. /\ IsFiniteSet(DOMAIN f) /\ \A y \in DOMAIN f : f[y] \in Nat \ {0}
      /\ DOMAIN g = {Reading(y) : y \in DOMAIN f}
      /\ \A r : IsFiniteSet(Units(f, r)) /\ Of(g, r) = Cardinality(Units(f, r))
  BY Zenon DEF Tally
<1>2. old \in Nat
  BY <1>1 DEF Of
<1>3. /\ DOMAIN F = DOMAIN f \cup {x} /\ F[x] = old + n
      /\ \A y \in DOMAIN f : y # x => F[y] = f[y]
  <2>0. IsPlus(f, x, n, F)
    BY PlusIs
  <2> HIDE DEF F
  <2>1. /\ DOMAIN F = DOMAIN f \cup {x} /\ F[x] = old + n
        /\ \A y \in DOMAIN f : y # x => F[y] = f[y] + 0
    BY <2>0 DEF IsPlus
  <2> QED BY <1>1, <2>1
<1>4. DOMAIN G = DOMAIN g \cup {s} /\ G[s] = Of(g, s) + n
      /\ \A r \in DOMAIN g : r # s => G[r] = g[r] + 0
  <2>1. IsPlus(g, s, n, G)
    BY PlusIs
  <2> HIDE DEF G, s
  <2> QED BY <2>1 DEF IsPlus
<1>5. \A r : Of(g, r) \in Nat
  BY <1>1, FS_CardinalityType
<1>6. \A r \in DOMAIN g : g[r] = Of(g, r)
  BY DEF Of
<1>7. Of(G, s) = Of(g, s) + n /\ \A r : r # s => Of(G, r) = Of(g, r)
  <2> HIDE DEF G, s
  <2>1. \A r \in DOMAIN g : r # s => G[r] = g[r]
    BY <1>4, <1>5, <1>6
  <2> QED BY <1>4, <2>1 DEF Of
<1> HIDE DEF F, G, s, old
<1>8. IsFiniteSet(New) /\ Cardinality(New) = n
  BY <1>2, MoreUnits
<1>9. \A r : r # s => Units(F, r) = Units(f, r)
  <2> SUFFICES ASSUME NEW r, r # s PROVE Units(F, r) = Units(f, r)
    OBVIOUS
  <2>1. \A y : Reading(y) = r => y # x
    BY DEF s
  <2>2. ASSUME NEW u PROVE u \in Units(F, r) <=> u \in Units(f, r)
    BY <1>3, <2>1 DEF Units
  <2> QED BY <2>2
<1>10. Units(F, s) = Units(f, s) \cup New /\ Units(f, s) \cap New = {}
  <2>1. x \in DOMAIN f => old = f[x]
    BY DEF old, Of
  <2>2. x \notin DOMAIN f => old = 0
    BY DEF old, Of
  <2>3. ASSUME NEW u \in [of : DOMAIN F, nth : Nat], Reading(u.of) = s
        PROVE  u.nth \in 1 .. F[u.of] <=> u \in Units(f, s) \/ u \in New
    <3>1. CASE u.of = x
      <4>1. u \in Units(f, s) <=> x \in DOMAIN f /\ u.nth \in 1 .. f[x]
        BY <2>3, <3>1 DEF Units
      <4>2. u \in New <=> u.nth \in old + 1 .. old + n
        BY <3>1 DEF UnitsOf
      <4>3. u.nth \in Nat
        OBVIOUS
      <4> HIDE DEF New
      <4>4. u.nth \in 1 .. old + n <=> u.nth \in 1 .. old \/ u.nth \in old + 1 .. old + n
        BY <1>2, <4>3
      <4>5. x \notin DOMAIN f => ~(u.nth \in 1 .. old)
        BY <2>2, <4>3
      <4> QED BY <1>3, <2>1, <3>1, <4>1, <4>2, <4>4, <4>5
    <3>2. CASE u.of # x
      <4>1. u.of \in DOMAIN f /\ F[u.of] = f[u.of]
        BY <1>3, <3>2
      <4>2. u \notin New
        BY <3>2 DEF UnitsOf
      <4> HIDE DEF New
      <4> QED BY <2>3, <4>1, <4>2 DEF Units
    <3> QED BY <3>1, <3>2
  <2>4. ASSUME NEW u \in New PROVE u \in [of : DOMAIN F, nth : Nat] /\ Reading(u.of) = s
    <3>1. u \in [of : {x}, nth : Nat]
      BY DEF UnitsOf
    <3> HIDE DEF New
    <3> QED BY <1>3, <3>1 DEF s
  <2>5. ASSUME NEW u \in Units(f, s)
        PROVE  u \in [of : DOMAIN F, nth : Nat] /\ Reading(u.of) = s
    BY <1>3 DEF Units
  <2>6. ASSUME NEW u \in New PROVE u \notin Units(f, s)
    <3>1. u.of = x /\ u.nth \in old + 1 .. old + n
      BY DEF UnitsOf
    <3> HIDE DEF New
    <3>2. u \in Units(f, s) => x \in DOMAIN f /\ u.nth \in 1 .. f[x]
      BY <3>1 DEF Units
    <3> QED BY <1>2, <2>1, <3>1, <3>2
  <2> HIDE DEF New
  <2>7. \A u : u \in Units(F, s) <=> u \in [of : DOMAIN F, nth : Nat] /\ Reading(u.of) = s
                                      /\ u.nth \in 1 .. F[u.of]
    BY DEF Units
  <2> QED BY <2>3, <2>4, <2>5, <2>6, <2>7, Zenon
<1> HIDE DEF New
<1>11. \A r : IsFiniteSet(Units(F, r)) /\ Of(G, r) = Cardinality(Units(F, r))
  <2> SUFFICES ASSUME NEW r
               PROVE  IsFiniteSet(Units(F, r)) /\ Of(G, r) = Cardinality(Units(F, r))
    OBVIOUS
  <2>1. CASE r # s
    BY <1>1, <1>7, <1>9, <2>1
  <2>2. CASE r = s
    <3>1. IsFiniteSet(Units(f, s) \cup New)
          /\ Cardinality(Units(f, s) \cup New) =
               Cardinality(Units(f, s)) + Cardinality(New) - Cardinality(Units(f, s) \cap New)
      BY <1>1, <1>8, FS_Union
    <3>2. Cardinality(Units(f, s) \cap New) = 0
      BY <1>10, FS_EmptySet
    <3>3. Of(g, s) = Cardinality(Units(f, s)) /\ Of(g, s) \in Nat
      BY <1>1, <1>5, Zenon
    <3>4. Cardinality(Units(F, s)) = Of(g, s) + n
      BY <1>8, <1>10, <3>1, <3>2, <3>3
    <3>5. IsFiniteSet(Units(F, s))
      BY <1>10, <3>1, Zenon
    <3> QED BY <1>7, <2>2, <3>4, <3>5, Zenon
  <2> QED BY <2>1, <2>2
<1>12. IsFiniteSet(DOMAIN F) /\ DOMAIN G = {Reading(y) : y \in DOMAIN F}
  <2>1. IsFiniteSet(DOMAIN F)
    BY <1>1, <1>3, FS_AddElement
  <2> QED BY <1>1, <1>3, <1>4, <2>1 DEF s
<1>13. \A y \in DOMAIN F : F[y] \in Nat \ {0}
  <2>1. old + n \in Nat \ {0}
    BY <1>2
  <2> QED BY <1>1, <1>3, <2>1
<1> QED BY <1>11, <1>12, <1>13, Zenon DEF Tally, F, G, s

-----------------------------------------------------------------------------
\* The drops of the reason r, as the entry e[r].
DropStep(g, r, e) == IF drops[r] = 0 THEN g ELSE Plus(g, e[r], drops[r])

\* The counts c with the drops of the reasons in s.
WithDrops(c, s, e) ==
    FoldLeft(LAMBDA g, r : IF drops[r] = 0 THEN g ELSE Plus(g, e[r], drops[r]), c, s)

\* The function that it is defined by, on the first n reasons, and the counts it
\* goes through.
DropFold(f, c, s, e, n) ==
    f = [T \in SUBSET (1 .. n) |->
           IF T = {} THEN c ELSE DropStep(f[T \ {Max(T)}], s[Max(T)], e)]

DropRun(g, c, s, e, n) ==
    /\ g[0] = c /\ g[n] = WithDrops(c, s, e)
    /\ \A i \in 0 .. n - 1 : g[i + 1] = DropStep(g[i], s[i + 1], e)

\* The drops are added reason by reason.
LEMMA DropSteps ==
    ASSUME NEW c, NEW s, NEW e, NEW n \in Nat, DOMAIN s = 1 .. n
    PROVE  \E g : DropRun(g, c, s, e, n)
<1> DEFINE S == {m \in Nat : \E f : DropFold(f, c, s, e, m)}
<1>1. 0 \in S
  <2> DEFINE f == [T \in SUBSET (1 .. 0) |-> c]
  <2>1. DropFold(f, c, s, e, 0)
    BY DEF DropFold
  <2> QED BY <2>1
<1>2. ASSUME NEW m \in Nat, m \in S PROVE m + 1 \in S
  <2> PICK f : DropFold(f, c, s, e, m)
    BY <1>2
  <2> DEFINE v == [U \in SUBSET (1 .. m) |-> DropStep(f[U], s[m + 1], e)]
  <2> PICK g : Grown(g, f, v, m)
    BY Growth
  <2>1. g = [T \in SUBSET (1 .. m + 1) |-> g[T]] /\ g[{}] = c
    BY DEF Grown, DropFold
  <2>2. ASSUME NEW T \in SUBSET (1 .. m + 1), T # {}
        PROVE  g[T] = DropStep(g[T \ {Max(T)}], s[Max(T)], e)
    <3> DEFINE U == T \ {Max(T)}
    <3>1. /\ U \in SUBSET (1 .. m) /\ g[U] = f[U]
          /\ \/ Max(T) = m + 1 /\ g[T] = v[U]
             \/ T \in SUBSET (1 .. m) /\ g[T] = f[T]
      BY <2>2, Zenon DEF Grown
    <3>2. T \in SUBSET (1 .. m) => f[T] = DropStep(f[U], s[Max(T)], e)
      BY <2>2, Zenon DEF DropFold
    <3>3. v[U] = DropStep(f[U], s[m + 1], e)
      BY <3>1
    <3> QED BY <3>1, <3>2, <3>3, Zenon
  <2>3. DropFold(g, c, s, e, m + 1)
    BY <2>1, <2>2, Zenon DEF DropFold
  <2> QED BY <2>3
<1> HIDE DEF S
<1>3. n \in S
  BY <1>1, <1>2, Induct
<1> DEFINE f == CHOOSE f : DropFold(f, c, s, e, n)
<1>4. DropFold(f, c, s, e, n)
  BY <1>3 DEF S
<1>5. WithDrops(c, s, e) = f[1 .. n]
  BY DEF WithDrops, DropStep, FoldLeft, MapThenFoldSet, DropFold
<1> HIDE DEF f
<1> DEFINE g == [i \in 0 .. n |-> f[1 .. i]]
<1>6. g[0] = c /\ g[n] = WithDrops(c, s, e)
  <2>1. f[{}] = c
    BY <1>4, Zenon DEF DropFold
  <2> QED BY <1>5, <2>1, FirstIndices
<1>7. ASSUME NEW i \in 0 .. n - 1 PROVE g[i + 1] = DropStep(g[i], s[i + 1], e)
  <2> DEFINE T == 1 .. i + 1
  <2>1. /\ T \in SUBSET (1 .. n) /\ T # {} /\ Max(T) = i + 1 /\ T \ {i + 1} = 1 .. i
        /\ i \in 0 .. n /\ i + 1 \in 0 .. n
    BY FirstIndices
  <2>2. f[T] = DropStep(f[T \ {Max(T)}], s[Max(T)], e)
    BY <1>4, <2>1, Zenon DEF DropFold
  <2> QED BY <2>1, <2>2
<1> QED BY <1>6, <1>7 DEF DropRun

\* The drops are counted on both sides, and nothing else comes in.
LEMMA DropsTally ==
    ASSUME NEW f, NEW g, Tally(f, g), NEW d, NEW e, \A r \in Reasons : e[r] = Reading(d[r]),
           drops \in [Reasons -> Nat]
    PROVE  /\ Tally(record_dropped_stacks(f, d), record_dropped_stacks(g, e))
           /\ \A x \in DOMAIN record_dropped_stacks(f, d) :
                x \in DOMAIN f \/ \E r \in Reasons : x = d[r]
<1> DEFINE n == Cardinality(Reasons)
<1> DEFINE s == SetToSeq(Reasons)
<1>1. n \in Nat /\ s \in [1 .. n -> Reasons]
  BY SampleAssumption, Listed DEF Injection
<1>2. /\ record_dropped_stacks(f, d) = WithDrops(f, s, d)
      /\ record_dropped_stacks(g, e) = WithDrops(g, s, e)
  BY DEF record_dropped_stacks, WithDrops
<1> HIDE DEF n, s
<1>3. DOMAIN s = 1 .. n
  BY <1>1
<1> PICK p : DropRun(p, f, s, d, n)
  BY <1>1, <1>3, DropSteps
<1> PICK q : DropRun(q, g, s, e, n)
  BY <1>1, <1>3, DropSteps
<1> DEFINE Good(m) == /\ Tally(p[m], q[m])
                      /\ \A x \in DOMAIN p[m] : x \in DOMAIN f \/ \E r \in Reasons : x = d[r]
<1> DEFINE M == {m \in Nat : m =< n => Good(m)}
<1>4. 0 \in M
  BY DEF DropRun
<1>5. ASSUME NEW m \in Nat, m \in M PROVE m + 1 \in M
  <2> SUFFICES ASSUME m + 1 =< n PROVE Good(m + 1)
    OBVIOUS
  <2>1. Good(m) /\ m \in 0 .. n - 1 /\ m + 1 \in 1 .. n
    BY <1>1, <1>5
  <2> DEFINE r == s[m + 1]
  <2>2. r \in Reasons
    BY <1>1, <2>1
  <2>3. p[m + 1] = DropStep(p[m], r, d) /\ q[m + 1] = DropStep(q[m], r, e)
    BY <2>1, Zenon DEF DropRun
  <2> HIDE DEF r
  <2>4. CASE drops[r] = 0
    BY <2>1, <2>3, <2>4 DEF DropStep
  <2>5. CASE drops[r] # 0
    <3>1. drops[r] \in Nat \ {0}
      BY <2>2, <2>5
    <3>2. /\ p[m + 1] = Plus(p[m], d[r], drops[r])
          /\ q[m + 1] = Plus(q[m], Reading(d[r]), drops[r])
      BY <2>2, <2>3, <2>5, Zenon DEF DropStep
    <3>3. Tally(p[m + 1], q[m + 1])
      BY <2>1, <3>1, <3>2, TallyPlus
    <3>4. DOMAIN p[m + 1] = DOMAIN p[m] \cup {d[r]}
      <4>1. IsPlus(p[m], d[r], drops[r], p[m + 1])
        BY <3>2, PlusIs
      <4> QED BY <4>1, Zenon DEF IsPlus
    <3> QED BY <2>1, <2>2, <3>3, <3>4
  <2> QED BY <2>4, <2>5
<1> HIDE DEF Good, M
<1>6. n \in M
  BY <1>1, <1>4, <1>5, Induct
<1>7. Good(n)
  BY <1>1, <1>6 DEF M
<1> QED BY <1>2, <1>7, Zenon DEF Good, DropRun

-----------------------------------------------------------------------------
\* The total n with the sample s, when it reads as r.
AddTo(P, r, n, s) == IF Seen(P, s) = r THEN n + s.value[1] ELSE n

\* The total over the samples s.
Summed(P, r, s) ==
    FoldLeft(LAMBDA n, x : IF Seen(P, x) = r THEN n + x.value[1] ELSE n, 0, s)

\* The function that Total is defined by, on the first n samples, and the totals it
\* goes through.
TotalFold(f, P, r, s, n) ==
    f = [T \in SUBSET (1 .. n) |->
           IF T = {} THEN 0 ELSE AddTo(P, r, f[T \ {Max(T)}], s[Max(T)])]

TotalRun(g, P, r, s, n) ==
    /\ g[0] = 0 /\ g[n] = Summed(P, r, s)
    /\ \A i \in 0 .. n - 1 : g[i + 1] = AddTo(P, r, g[i], s[i + 1])

\* The samples are added one by one.
LEMMA TotalSteps ==
    ASSUME NEW P, NEW r, NEW s, NEW n \in Nat, DOMAIN s = 1 .. n
    PROVE  \E g : TotalRun(g, P, r, s, n)
<1> DEFINE S == {m \in Nat : \E f : TotalFold(f, P, r, s, m)}
<1>1. 0 \in S
  <2> DEFINE f == [T \in SUBSET (1 .. 0) |-> 0]
  <2>1. TotalFold(f, P, r, s, 0)
    BY DEF TotalFold
  <2> QED BY <2>1
<1>2. ASSUME NEW m \in Nat, m \in S PROVE m + 1 \in S
  <2> PICK f : TotalFold(f, P, r, s, m)
    BY <1>2
  <2> DEFINE v == [U \in SUBSET (1 .. m) |-> AddTo(P, r, f[U], s[m + 1])]
  <2> PICK g : Grown(g, f, v, m)
    BY Growth
  <2>1. g = [T \in SUBSET (1 .. m + 1) |-> g[T]] /\ g[{}] = 0
    BY DEF Grown, TotalFold
  <2>2. ASSUME NEW T \in SUBSET (1 .. m + 1), T # {}
        PROVE  g[T] = AddTo(P, r, g[T \ {Max(T)}], s[Max(T)])
    <3> DEFINE U == T \ {Max(T)}
    <3>1. /\ U \in SUBSET (1 .. m) /\ g[U] = f[U]
          /\ \/ Max(T) = m + 1 /\ g[T] = v[U]
             \/ T \in SUBSET (1 .. m) /\ g[T] = f[T]
      BY <2>2, Zenon DEF Grown
    <3>2. T \in SUBSET (1 .. m) => f[T] = AddTo(P, r, f[U], s[Max(T)])
      BY <2>2, Zenon DEF TotalFold
    <3>3. v[U] = AddTo(P, r, f[U], s[m + 1])
      BY <3>1
    <3> QED BY <3>1, <3>2, <3>3, Zenon
  <2>3. TotalFold(g, P, r, s, m + 1)
    BY <2>1, <2>2, Zenon DEF TotalFold
  <2> QED BY <2>3
<1> HIDE DEF S
<1>3. n \in S
  BY <1>1, <1>2, Induct
<1> DEFINE f == CHOOSE f : TotalFold(f, P, r, s, n)
<1>4. TotalFold(f, P, r, s, n)
  BY <1>3 DEF S
<1>5. Summed(P, r, s) = f[1 .. n]
  BY DEF Summed, AddTo, FoldLeft, MapThenFoldSet, TotalFold
<1> HIDE DEF f
<1> DEFINE g == [i \in 0 .. n |-> f[1 .. i]]
<1>6. g[0] = 0 /\ g[n] = Summed(P, r, s)
  <2>1. f[{}] = 0
    BY <1>4, Zenon DEF TotalFold
  <2> QED BY <1>5, <2>1, FirstIndices
<1>7. ASSUME NEW i \in 0 .. n - 1 PROVE g[i + 1] = AddTo(P, r, g[i], s[i + 1])
  <2> DEFINE T == 1 .. i + 1
  <2>1. /\ T \in SUBSET (1 .. n) /\ T # {} /\ Max(T) = i + 1 /\ T \ {i + 1} = 1 .. i
        /\ i \in 0 .. n /\ i + 1 \in 0 .. n
    BY FirstIndices
  <2>2. f[T] = AddTo(P, r, f[T \ {Max(T)}], s[Max(T)])
    BY <1>4, <2>1, Zenon DEF TotalFold
  <2> QED BY <2>1, <2>2
<1> QED BY <1>6, <1>7 DEF TotalRun

\* The samples that read as r have the count of r, times the period.
LEMMA TotalReads ==
    ASSUME NEW c, NEW g, Tally(c, g), NEW P, NEW q, NEW p \in Nat, Reads(P, q, c, p),
           \A x : Contains(q, x) <=> x \in DOMAIN c, NEW r \in DOMAIN g
    PROVE  Total(P, r) = g[r] * p
<1> DEFINE n == Len(q)
<1> DEFINE s == P.pprof.sample
<1> DEFINE U(m) == {u \in Units(c, r) : \E i \in 1 .. m : u.of = q[i]}
<1>1. /\ n \in Nat /\ DOMAIN q = 1 .. n /\ DOMAIN s = 1 .. n
      /\ \A i, j \in 1 .. n : q[i] = q[j] => i = j
  <2>1. Len(s) = n /\ IsSeq(s) /\ IsSeq(q) /\ IsInjective(q)
    BY Zenon DEF Reads, Distinct
  <2> HIDE DEF n, s
  <2>2. n \in Nat /\ DOMAIN q = 1 .. n /\ DOMAIN s = 1 .. n
    BY <2>1, SeqFacts DEF n
  <2> QED BY <2>1, <2>2, Zenon DEF IsInjective
<1>2. \A i \in 1 .. n : Seen(P, s[i]) = Reading(q[i]) /\ s[i].value[1] = c[q[i]] * p
  BY Zenon DEF Reads, Reading
<1>3. /\ \A x \in DOMAIN c : c[x] \in Nat \ {0}
      /\ IsFiniteSet(Units(c, r)) /\ g[r] = Cardinality(Units(c, r))
  BY DEF Tally, Of
<1>4. \A x \in DOMAIN c : \E i \in 1 .. n : q[i] = x
  BY DEF Contains
<1>5. \A i \in 1 .. n : q[i] \in DOMAIN c
  BY DEF Contains
<1>6. Total(P, r) = Summed(P, r, s)
  BY DEF Total, Summed
<1> HIDE DEF n, s
<1> PICK f : TotalRun(f, P, r, s, n)
  BY <1>1, TotalSteps
<1>7. \A m \in Nat : IsFiniteSet(U(m)) /\ Cardinality(U(m)) \in Nat
  <2> SUFFICES ASSUME NEW m \in Nat PROVE IsFiniteSet(U(m)) /\ Cardinality(U(m)) \in Nat
    OBVIOUS
  <2>1. U(m) \in SUBSET Units(c, r)
    OBVIOUS
  <2> HIDE DEF U
  <2> QED BY <1>3, <2>1, FS_Subset, FS_CardinalityType
<1> DEFINE M == {m \in Nat : m =< n => f[m] = Cardinality(U(m)) * p}
<1>8. 0 \in M
  <2>1. U(0) = {}
    OBVIOUS
  <2>2. Cardinality(U(0)) * p = 0
    BY <2>1, FS_EmptySet
  <2> HIDE DEF U
  <2> QED BY <2>2 DEF TotalRun
<1>9. ASSUME NEW m \in Nat, m \in M PROVE m + 1 \in M
  <2> SUFFICES ASSUME m + 1 =< n PROVE f[m + 1] = Cardinality(U(m + 1)) * p
    OBVIOUS
  <2> DEFINE x == q[m + 1]
  <2> DEFINE V == UnitsOf(x, 0, c[x])
  <2>1. f[m] = Cardinality(U(m)) * p /\ m \in 0 .. n - 1 /\ m + 1 \in 1 .. n
    BY <1>1, <1>9
  <2>2. f[m + 1] = AddTo(P, r, f[m], s[m + 1])
    BY <2>1, Zenon DEF TotalRun
  <2>3. x \in DOMAIN c /\ c[x] \in Nat
    BY <1>3, <1>5, <2>1
  <2>4. Seen(P, s[m + 1]) = Reading(x) /\ s[m + 1].value[1] = c[x] * p
    BY <1>2, <2>1
  <2>5. \A u : u \in U(m + 1) <=> u \in U(m) \/ (u \in Units(c, r) /\ u.of = x)
    <3>1. \A i : i \in 1 .. m + 1 <=> i \in 1 .. m \/ i = m + 1
      OBVIOUS
    <3> QED BY <3>1
  <2>6. \A u \in U(m) : u.of # x
    BY <1>1, <2>1
  <2> HIDE DEF x
  <2>7. CASE Reading(x) = r
    <3>1. \A u : u \in Units(c, r) /\ u.of = x <=> u \in V
      <4>1. \A k \in Nat : k \in 0 + 1 .. 0 + c[x] <=> k \in 1 .. c[x]
        BY <2>3
      <4> QED BY <2>3, <2>7, <4>1 DEF Units, UnitsOf
    <3>2. IsFiniteSet(V) /\ Cardinality(V) = c[x]
      BY <2>3, MoreUnits
    <3>3. \A u \in V : u.of = x
      BY DEF UnitsOf
    <3> HIDE DEF V, U
    <3>4. U(m + 1) = U(m) \cup V /\ U(m) \cap V = {}
      BY <2>5, <2>6, <3>1, <3>3
    <3>5. Cardinality(U(m) \cup V) =
            Cardinality(U(m)) + Cardinality(V) - Cardinality(U(m) \cap V)
      BY <1>7, <3>2, FS_Union
    <3>6. Cardinality(U(m) \cap V) = 0
      BY <3>4, FS_EmptySet
    <3> DEFINE a == Cardinality(U(m))
    <3>7. a \in Nat /\ Cardinality(U(m + 1)) = a + c[x]
      BY <1>7, <2>3, <3>2, <3>4, <3>5, <3>6
    <3>8. f[m + 1] = a * p + c[x] * p
      BY <2>1, <2>2, <2>4, <2>7, Zenon DEF AddTo
    <3> HIDE DEF a
    <3>9. (a + c[x]) * p = a * p + c[x] * p
      BY <2>3, <3>7
    <3> QED BY <3>7, <3>8, <3>9, Zenon
  <2>8. CASE Reading(x) # r
    <3>1. \A u \in Units(c, r) : u.of # x
      BY <2>8 DEF Units
    <3> HIDE DEF U
    <3>2. U(m + 1) = U(m)
      BY <2>5, <3>1
    <3> QED BY <2>1, <2>2, <2>4, <2>8, <3>2 DEF AddTo
  <2> QED BY <2>7, <2>8
<1>10. U(n) = Units(c, r)
  <2>1. \A u \in Units(c, r) : u.of \in DOMAIN c
    BY DEF Units
  <2> QED BY <1>4, <2>1
<1> HIDE DEF M, U
<1>11. n \in M
  BY <1>1, <1>8, <1>9, Induct
<1>12. f[n] = Cardinality(U(n)) * p
  BY <1>1, <1>11 DEF M
<1> QED BY <1>3, <1>6, <1>10, <1>12, Zenon DEF TotalRun

-----------------------------------------------------------------------------
\* A report has the stack traces whose tags have the same hash.
SameTags(data, x) == {y \in DOMAIN data : Id(y.tags) = Id(x.tags)}

\* The reports R have the stack traces of data, each in one of them, with its count.
Divides(R, data) ==
    /\ IsFiniteSet(R) /\ UNION {DOMAIN r.data : r \in R} = DOMAIN data
    /\ \A r \in R : /\ IsFiniteSet(DOMAIN r.data)
                    /\ \A x \in DOMAIN r.data : x \in DOMAIN data /\ r.data[x] = data[x]
    /\ \A r, o \in R : r # o => DOMAIN r.data \cap DOMAIN o.data = {}

\* to_reports loses no stack trace and puts none in two reports, and each keeps its
\* count, whatever hashes collide (From<StackBuffer> for Vec<Report>).
THEOREM ReportsDivide ==
    ASSUME NEW data, IsFiniteSet(DOMAIN data)
    PROVE  Divides(to_reports(data), data)
<1> DEFINE D == DOMAIN data
<1> DEFINE Rep(x) == [metadata |-> (CHOOSE y \in SameTags(data, x) : TRUE).tags,
                     data |-> [y \in SameTags(data, x) |-> data[y]]]
<1> DEFINE R == to_reports(data)
<1>1. R = {Rep(x) : x \in D}
  BY DEF to_reports, SameTags
<1>2. ASSUME NEW x \in D
      PROVE  /\ DOMAIN Rep(x).data = SameTags(data, x)
             /\ \A y \in SameTags(data, x) : Rep(x).data[y] = data[y]
  OBVIOUS
<1>3. \A x, y \in D : Id(x.tags) = Id(y.tags) => SameTags(data, x) = SameTags(data, y)
  BY DEF SameTags
<1>4. \A x, y \in D : SameTags(data, x) = SameTags(data, y) => Rep(x) = Rep(y)
  OBVIOUS
<1>5. \A x \in D : x \in SameTags(data, x) /\ SameTags(data, x) \subseteq D
  BY DEF SameTags
<1>6. \A x, y \in D : y \in SameTags(data, x) => Id(y.tags) = Id(x.tags)
  BY DEF SameTags
<1> HIDE DEF Rep, R
<1>7. IsFiniteSet(R)
  <2> DEFINE f == [x \in D |-> Rep(x)]
  <2>1. f \in Surjection(D, R)
    BY <1>1 DEF Surjection
  <2> QED BY <2>1, FS_Surjection
<1>8. UNION {DOMAIN r.data : r \in R} = D
  <2>1. \A x \in D : DOMAIN Rep(x).data \subseteq D /\ x \in DOMAIN Rep(x).data
    BY <1>2, <1>5
  <2>2. ASSUME NEW x \in D PROVE x \in UNION {DOMAIN r.data : r \in R}
    BY <1>1, <2>1
  <2>3. ASSUME NEW x \in UNION {DOMAIN r.data : r \in R} PROVE x \in D
    BY <1>1, <2>1
  <2> HIDE DEF D
  <2> QED BY <2>2, <2>3
<1>9. ASSUME NEW r \in R
      PROVE  /\ IsFiniteSet(DOMAIN r.data)
             /\ \A x \in DOMAIN r.data : x \in DOMAIN data /\ r.data[x] = data[x]
  <2> PICK x \in D : r = Rep(x)
    BY <1>1
  <2>1. DOMAIN r.data = SameTags(data, x) /\ \A y \in SameTags(data, x) : r.data[y] = data[y]
    BY <1>2
  <2>2. IsFiniteSet(SameTags(data, x))
    BY <1>5, FS_Subset
  <2> QED BY <1>5, <2>1, <2>2
<1>10. ASSUME NEW r \in R, NEW o \in R, r # o
       PROVE  DOMAIN r.data \cap DOMAIN o.data = {}
  <2> PICK x \in D : r = Rep(x)
    BY <1>1
  <2> PICK y \in D : o = Rep(y)
    BY <1>1
  <2> SUFFICES ASSUME NEW z, z \in DOMAIN r.data, z \in DOMAIN o.data PROVE FALSE
    OBVIOUS
  <2>1. z \in SameTags(data, x) /\ z \in SameTags(data, y)
    BY <1>2
  <2>2. Id(x.tags) = Id(y.tags)
    BY <1>5, <1>6, <2>1
  <2> QED BY <1>3, <1>4, <1>10, <2>2
<1> QED BY <1>7, <1>8, <1>9, <1>10 DEF Divides, R

\* The profile of counts that agree with what was recorded reads as it.
LEMMA TallyReads ==
    ASSUME NEW data, NEW g, Tally(data, g), \A x \in DOMAIN data : IsTrace(x)
    PROVE  LET P == encode(to_reports(data), Period)
           IN  /\ SeenTypes(P) = Types["pyspy"]
               /\ \A i \in DOMAIN P.pprof.sample :
                    /\ Resolves(P, P.pprof.sample[i])
                    /\ Seen(P, P.pprof.sample[i]) \in DOMAIN g
               /\ \A r \in DOMAIN g : Total(P, r) = g[r] * Period
<1> DEFINE R == to_reports(data)
<1> DEFINE P == encode(R, Period)
<1>1. IsFiniteSet(DOMAIN data) /\ DOMAIN g = {Reading(x) : x \in DOMAIN data}
  BY Zenon DEF Tally
<1>2. Divides(R, data)
  BY <1>1, ReportsDivide
<1> HIDE DEF R
<1>3. /\ IsFiniteSet(R) /\ UNION {DOMAIN r.data : r \in R} = DOMAIN data
      /\ \A r \in R : /\ IsFiniteSet(DOMAIN r.data)
                      /\ \A x \in DOMAIN r.data : IsTrace(x) /\ r.data[x] = data[x]
      /\ \A r, o \in R : r # o => DOMAIN r.data \cap DOMAIN o.data = {}
  BY <1>2 DEF Divides
<1> PICK q : /\ Reads(P, q, data, Period)
             /\ \A x : Contains(q, x) <=> x \in UNION {DOMAIN r.data : r \in R}
  BY <1>3, EncodeReads
<1> HIDE DEF P
<1>4. \A x : Contains(q, x) <=> x \in DOMAIN data
  BY <1>3
<1>5. Period \in Nat
  BY PeriodAssumption
<1>6. \A r \in DOMAIN g : Total(P, r) = g[r] * Period
  BY <1>4, <1>5, TotalReads
<1> DEFINE s == P.pprof.sample
<1>7. /\ SeenTypes(P) = Types["pyspy"] /\ Distinct(q) /\ IsSeq(s) /\ Len(s) = Len(q)
      /\ \A i \in 1 .. Len(q) : /\ Resolves(P, s[i])
                                /\ Seen(P, s[i]) = [frames |-> q[i].frames, tags |-> q[i].tags]
  BY Zenon DEF Reads
<1> HIDE DEF s
<1>8. DOMAIN s = 1 .. Len(q) /\ DOMAIN q = 1 .. Len(q)
  BY <1>7, SeqFacts DEF Distinct
<1>9. \A i \in 1 .. Len(q) : q[i] \in DOMAIN data
  BY <1>4, <1>8 DEF Contains
<1>10. \A i \in 1 .. Len(q) : Seen(P, s[i]) \in DOMAIN g
  BY <1>1, <1>7, <1>9 DEF Reading
<1> QED BY <1>6, <1>7, <1>8, <1>10 DEF P, R, s

-----------------------------------------------------------------------------
\* The buffer has the counts of what was recorded, of stack traces that can be encoded.
ExactInv ==
    /\ Tally(buffer, recorded) /\ \A x \in DOMAIN buffer : IsTrace(x)
    /\ IsFiniteSet(rules)

\* A sequence of frames is a stack.
LEMMA StackOk == ASSUME NEW s \in Seq(Frame) PROVE IsStack(s)
<1>1. /\ Len(s) \in Nat /\ DOMAIN s = 1 .. Len(s) /\ s = [i \in 1 .. Len(s) |-> s[i]]
      /\ \A i \in 1 .. Len(s) : s[i] \in Frame
  BY LenProperties, ElementOfSeq
<1>2. \A f \in Frame : f = [name |-> f.name, file |-> f.file, line |-> f.line] /\ f.line \in Int
  BY DEF Frame
<1> QED BY <1>1, <1>2 DEF IsStack

\* The labels a stack trace starts with.
LEMMA NewTags == ASSUME NEW t, NEW s PROVE IsTags(NewTrace(t, s).tags)
<1> DEFINE L(key, value) == [key |-> key, value |-> value]
<1> DEFINE T(flag, key, value) == {L(key, v) : v \in {x \in {value} : BackendConfig[flag]}}
<1>1. ASSUME NEW flag, NEW key, NEW value
      PROVE  T(flag, key, value) \subseteq {L(key, value)}
  OBVIOUS
<1> DEFINE A == L("pid", "1")
<1> DEFINE B == L("thread_id", t)
<1> DEFINE C == L("thread_name", t)
<1> DEFINE tags == NewTrace(t, s).tags
<1>2. tags \subseteq T("report_pid", "pid", "1") \cup T("report_thread_id", "thread_id", t)
                       \cup T("report_thread_name", "thread_name", t)
  BY DEF NewTrace
<1>3. \A l \in {A, B, C} : l = [key |-> l.key, value |-> l.value]
  OBVIOUS
<1> HIDE DEF T, tags
<1>4. tags \subseteq {A, B, C}
  BY <1>1, <1>2
<1> HIDE DEF A, B, C
<1>5. IsFiniteSet({A, B, C})
  <2>1. IsFiniteSet({A}) /\ IsFiniteSet({A} \cup {B})
    BY FS_Singleton, FS_AddElement
  <2>2. IsFiniteSet(({A} \cup {B}) \cup {C}) /\ {A, B, C} = ({A} \cup {B}) \cup {C}
    BY <2>1, FS_AddElement
  <2> QED BY <2>2
<1>6. IsFiniteSet(tags)
  BY <1>4, <1>5, FS_Subset
<1> QED BY <1>3, <1>4, <1>6 DEF IsTags, tags

\* A stack trace that a sampler makes can be encoded.
LEMMA NewTraceOk == ASSUME NEW t, NEW s, IsStack(s) PROVE IsTrace(NewTrace(t, s))
<1>1. NewTrace(t, s).frames = s
  BY DEF NewTrace
<1> QED BY <1>1, NewTags DEF IsTrace

\* So can that of a drop.
LEMMA DropTraceOk == ASSUME NEW r PROVE IsTrace(DropTrace(r))
<1> DEFINE name == "[dropped: " \o r \o "]"
<1> DEFINE f(n) == <<[name |-> n, file |-> "", line |-> 0]>>
<1>1. ASSUME NEW n PROVE IsStack(f(n))
  <2> DEFINE s == f(n)
  <2>1. /\ Len(s) = 1 /\ 1 .. 1 = {1} /\ s = [i \in 1 .. 1 |-> s[i]]
        /\ s[1] = [name |-> n, file |-> "", line |-> 0]
    OBVIOUS
  <2>2. s[1] = [name |-> s[1].name, file |-> s[1].file, line |-> s[1].line] /\ s[1].line = 0
    BY <2>1
  <2> HIDE DEF s
  <2>3. \A i \in 1 .. 1 : i = 1
    BY <2>1
  <2>4. [i \in 1 .. 1 |-> s[i]] =
          [i \in 1 .. 1 |-> [name |-> s[i].name, file |-> s[i].file, line |-> s[i].line]]
    BY <2>2, <2>3
  <2>5. IsStack(s)
    <3>1. \A i \in 1 .. 1 : s[i].line \in Int
      BY <2>2, <2>3
    <3>2. Len(s) \in Nat
      <4>1. 1 \in Nat
        OBVIOUS
      <4> QED BY <2>1, <4>1, Zenon
    <3>3. s = [i \in 1 .. 1 |-> [name |-> s[i].name, file |-> s[i].file, line |-> s[i].line]]
      BY <2>1, <2>4, Zenon
    <3> QED BY <2>1, <3>1, <3>2, <3>3, Zenon DEF IsStack
  <2> QED BY <2>5 DEF s
<1>2. DropTrace(r) = NewTrace("none", f(name))
  BY DEF DropTrace
<1> HIDE DEF name, f
<1> QED BY <1>1, <1>2, NewTraceOk

\* The rules of its thread are tags.
LEMMA RulesOk ==
    ASSUME TagTypes, IsFiniteSet(rules), NEW x, x = [thread |-> x.thread, frames |-> x.frames,
                                                     tags |-> x.tags], IsTrace(x)
    PROVE  IsTrace(add_tag_rules(x))
<1> DEFINE mine == {r \in rules : r.tid = x.thread}
<1> DEFINE more == {r.tag : r \in mine}
<1> DEFINE y == add_tag_rules(x)
<1>1. y.frames = x.frames /\ y.tags = x.tags \cup more
  BY DEF add_tag_rules
<1>2. IsFiniteSet(mine)
  BY FS_Subset
<1>3. IsFiniteSet(more)
  <2> DEFINE f == [r \in mine |-> r.tag]
  <2>1. f \in Surjection(mine, more)
    BY DEF Surjection
  <2> QED BY <1>2, <2>1, FS_Surjection
<1>4. \A l \in more : l = [key |-> l.key, value |-> l.value]
  <2>1. \A l \in AllTags : l \in [key : STRING, value : STRING]
    BY LabelAssumption DEF AllTags
  <2>2. more \subseteq AllTags
    BY DEF TagTypes
  <2> HIDE DEF more
  <2> QED BY <2>1, <2>2
<1> HIDE DEF y, more
<1>5. IsFiniteSet(x.tags \cup more)
  BY <1>3, FS_Union DEF IsTrace, IsTags
<1> QED BY <1>1, <1>4, <1>5 DEF IsTrace, IsTags, y

\* One more of the stack trace x.
LEMMA RecordExact ==
    ASSUME ExactInv, NEW x, IsTrace(x), Record(x, 1), IsFiniteSet(rules')
    PROVE  ExactInv'
<1>1. buffer' = Plus(buffer, x, 1) /\ recorded' = Plus(recorded, Reading(x), 1)
  BY DEF Record
<1>2. Tally(buffer', recorded')
  BY <1>1, TallyPlus DEF ExactInv
<1>3. DOMAIN buffer' = DOMAIN buffer \cup {x}
  BY <1>1 DEF Plus
<1> QED BY <1>2, <1>3 DEF ExactInv

\* At first there are no counts.
LEMMA InitExact == Init => ExactInv
<1> SUFFICES ASSUME Init PROVE ExactInv
  OBVIOUS
<1>1. buffer = Empty /\ recorded = Empty /\ rules = {}
  BY DEF Init
<1>2. DOMAIN Empty = {}
  BY DEF Empty
<1> QED BY <1>1, <1>2, EmptyTally, FS_EmptySet DEF ExactInv

\* Steps that leave the counts alone.
LEMMA QuietExact ==
    ASSUME ExactInv, UNCHANGED <<buffer, recorded>>, IsFiniteSet(rules')
    PROVE  ExactInv'
BY DEF ExactInv

\* A step from no counts on.
LEMMA FreshExact ==
    ASSUME buffer' = Empty, recorded' = Empty, IsFiniteSet(rules')
    PROVE  ExactInv'
<1>1. DOMAIN Empty = {}
  BY DEF Empty
<1> QED BY <1>1, EmptyTally DEF ExactInv

\* Every step keeps the counts of the buffer and those of what was recorded equal.
LEMMA NextExact == LabelInv /\ ExactInv /\ [Next]_vars => ExactInv'
<1> SUFFICES ASSUME LabelInv, ExactInv, [Next]_vars PROVE ExactInv'
  OBVIOUS
<1>1. IsFiniteSet(rules)
  BY DEF ExactInv
<1>2. CASE Start
  <2>1. buffer' = Empty /\ recorded' = Empty /\ rules' = {}
    BY <1>2 DEF Start
  <2> QED BY <2>1, FreshExact, FS_EmptySet
<1>3. CASE AgentStep
  <2>1. UNCHANGED <<buffer, recorded, rules>>
    BY <1>3 DEF AgentStep
  <2> QED BY <1>1, <2>1, QuietExact
<1>4. ASSUME NEW t \in Threads, NEW tags \in TagLists, Enter(t, tags) PROVE ExactInv'
  <2>1. UNCHANGED <<buffer, recorded, rules>>
    BY <1>4 DEF Enter
  <2> QED BY <1>1, <2>1, QuietExact
<1>5. ASSUME NEW t \in Threads, AddTag(t) PROVE ExactInv'
  <2> DEFINE tag == call[t].tags[call[t].next]
  <2> DEFINE added == {ThreadTag(t, x) : x \in {x \in {tag} : state = "Running"}}
  <2>1. UNCHANGED <<buffer, recorded>> /\ rules' = rules \cup added
    BY <1>5 DEF AddTag
  <2>2. added \subseteq {ThreadTag(t, tag)}
    OBVIOUS
  <2> HIDE DEF added, tag
  <2>3. IsFiniteSet(added)
    BY <2>2, FS_Subset, FS_Singleton
  <2>4. IsFiniteSet(rules')
    BY <1>1, <2>1, <2>3, FS_Union
  <2> QED BY <2>1, <2>4, QuietExact
<1>6. ASSUME NEW t \in Threads, AddTagRaises(t) PROVE ExactInv'
  <2>1. UNCHANGED <<buffer, recorded, rules>>
    BY <1>6 DEF AddTagRaises
  <2> QED BY <1>1, <2>1, QuietExact
<1>7. ASSUME NEW t \in Threads, Exit(t) PROVE ExactInv'
  <2>1. UNCHANGED <<buffer, recorded, rules>>
    BY <1>7 DEF Exit
  <2> QED BY <1>1, <2>1, QuietExact
<1>8. ASSUME NEW t \in Threads, RemoveTag(t) PROVE ExactInv'
  <2>1. UNCHANGED <<buffer, recorded>> /\ rules' \subseteq rules
    BY <1>8 DEF RemoveTag
  <2> QED BY <1>1, <2>1, FS_Subset, QuietExact
<1>9. CASE Sample
  <2>1. UNCHANGED <<buffer, recorded, rules>>
    BY <1>9 DEF Sample
  <2> QED BY <1>1, <2>1, QuietExact
<1>10. CASE RecordTrace
  <2> DEFINE h == Head(hand)
  <2> DEFINE new == NewTrace(h.thread, h.frames)
  <2>1. hand # <<>> /\ Record(add_tag_rules(new), 1) /\ rules' = rules
    BY <1>10 DEF RecordTrace
  <2>2. h \in Trace
    <3>1. hand \in Seq(Trace)
      BY DEF LabelInv, LabelTypes
    <3> QED BY <2>1, <3>1, HeadTailProperties
  <2>3. h.frames \in Seq(Frame)
    BY <2>2, SampleAssumption DEF Trace
  <2>4. IsTrace(new)
    BY <2>3, StackOk, NewTraceOk
  <2>5. new = [thread |-> new.thread, frames |-> new.frames, tags |-> new.tags]
    BY DEF NewTrace
  <2>6. TagTypes
    BY DEF LabelInv, TagInv
  <2> HIDE DEF new
  <2>7. IsTrace(add_tag_rules(new))
    BY <1>1, <2>4, <2>5, <2>6, RulesOk
  <2> QED BY <1>1, <2>1, <2>7, RecordExact
<1>11. CASE Drained
  <2>1. rules' = rules
    BY <1>11 DEF Drained
  <2>2. CASE \E s \in Stacks : Record(NewTrace("none", s), 1)
    <3> PICK s \in Stacks : Record(NewTrace("none", s), 1)
      BY <2>2
    <3>1. IsTrace(NewTrace("none", s))
      BY SampleAssumption, StackOk, NewTraceOk
    <3> QED BY <1>1, <2>1, <3>1, RecordExact
  <2>3. CASE UNCHANGED <<buffer, recorded>>
    BY <1>1, <2>1, <2>3, QuietExact
  <2> QED BY <1>11, <2>2, <2>3 DEF Drained
<1>12. CASE Report
  <2>1. buffer' = Empty /\ recorded' = Empty /\ rules' = rules
    BY <1>12 DEF Report
  <2> QED BY <1>1, <2>1, FreshExact
<1>13. CASE UNCHANGED vars
  <2>1. UNCHANGED <<buffer, recorded, rules>>
    BY <1>13 DEF vars
  <2> QED BY <1>1, <2>1, QuietExact
<1> QED
  BY <1>2, <1>3, <1>4, <1>5, <1>6, <1>7, <1>8, <1>9, <1>10, <1>11, <1>12, <1>13 DEF Next

\* What is in the buffer is what was recorded.
LEMMA ExactInvariant == Spec => [](LabelInv /\ ExactInv)
<1>1. Init => LabelInv /\ ExactInv
  BY InitLabels, InitExact
<1>2. LabelInv /\ ExactInv /\ [Next]_vars => (LabelInv /\ ExactInv)'
  BY NextLabels, NextExact
<1> QED BY <1>1, <1>2, PTL DEF Spec

\* The profile of the next report is exactly what was recorded since the last one,
\* drops by reason among them: to_reports divides the counts by the hash of the
\* tags, encode interns each stack trace and its labels, and a reader adds up what
\* reads the same (Reporter::report, to_reports, encode).
THEOREM ReportsExact == Spec => []ProfileExact
<1>1. ASSUME LabelInv, ExactInv PROVE ProfileExact
  <2>1. Tally(buffer, recorded) /\ \A x \in DOMAIN buffer : IsTrace(x)
    BY <1>1 DEF ExactInv
  <2> DEFINE d == [r \in Reasons |-> DropTrace(r)]
  <2> DEFINE e == [r \in Reasons |-> Reading(DropTrace(r))]
  <2> DEFINE g == IF backend = "Signal" THEN record_dropped_stacks(recorded, e) ELSE recorded
  <2>2. Tally(Reported, g) /\ \A x \in DOMAIN Reported : IsTrace(x)
    <3>1. CASE backend = "Signal"
      <4>1. drops \in [Reasons -> Nat]
        BY <1>1 DEF LabelInv, Counted
      <4>2. \A r \in Reasons : e[r] = Reading(d[r]) /\ d[r] = DropTrace(r)
        OBVIOUS
      <4>3. /\ Reported = record_dropped_stacks(buffer, d)
            /\ g = record_dropped_stacks(recorded, e)
        BY <3>1 DEF Reported
      <4> HIDE DEF d, e, g
      <4>4. /\ Tally(record_dropped_stacks(buffer, d), record_dropped_stacks(recorded, e))
            /\ \A x \in DOMAIN record_dropped_stacks(buffer, d) :
                 x \in DOMAIN buffer \/ \E r \in Reasons : x = d[r]
        BY <2>1, <4>1, <4>2, DropsTally
      <4> QED BY <2>1, <4>2, <4>3, <4>4, DropTraceOk
    <3>2. CASE backend # "Signal"
      BY <2>1, <3>2 DEF Reported
    <3> QED BY <3>1, <3>2
  <2>3. ProfileExact <=>
          (Reported # Empty =>
             LET P == encode(to_reports(Reported), Period)
             IN  /\ SeenTypes(P) = Types["pyspy"]
                 /\ \A i \in DOMAIN P.pprof.sample :
                      /\ Resolves(P, P.pprof.sample[i])
                      /\ Seen(P, P.pprof.sample[i]) \in DOMAIN g
                 /\ \A r \in DOMAIN g : Total(P, r) = g[r] * Period)
    BY Zenon DEF ProfileExact
  <2> HIDE DEF g
  <2> QED BY <2>2, <2>3, TallyReads, Zenon
<1> QED BY <1>1, ExactInvariant, PTL
=============================================================================
