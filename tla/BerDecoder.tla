----------------------------- MODULE BerDecoder -----------------------------
(***************************************************************************)
(* The restartable BER decoder of the asn1c runtime (asn/).  A call of     *)
(* Decode is given the octets there are, and the structure earlier calls   *)
(* left; it answers OK, WMORE when it wants more octets or FAIL, with what *)
(* it used, the structure as it is now, and by how many the blocks of      *)
(* memory allocated have grown.  Octets not used are given again.          *)
(*                                                                         *)
(* A structure is the record of what the C structure and its context hold: *)
(* phase and left (the octets still to come of an element, -1 when its     *)
(* length is indefinite), the member being decoded, the values so far.     *)
(***************************************************************************)
EXTENDS AsnTypes

(* A structure as calloc makes it, members included that are inside it.    *)
RECURSIVE NewNode(_)
NewNode(type) ==
  CASE type.kind = "SEQUENCE" ->
         [phase |-> 0, left |-> 0, edx |-> 1, entered |-> FALSE,
          members |-> [n \in DOMAIN type.members |->
             IF type.members[n].pointer THEN NoNode ELSE NewNode(type.members[n].type)]]
    [] type.kind = "CHOICE" ->
         [phase |-> 0, left |-> 0, chosen |-> 0, present |-> 0, member |-> NoNode]
    [] type.kind = "SEQUENCE OF" ->
         [phase |-> 0, left |-> 0, entered |-> FALSE, list |-> <<>>, element |-> NoNode]
    [] type.kind \in {"OCTET STRING", "ANY"} ->
         [phase |-> 0, left |-> 0, octets |-> <<>>, buf |-> FALSE,
          stacked |-> FALSE, stack |-> <<>>, frames |-> 0]
    [] type.kind = "INTEGER" -> [octets |-> <<0>>]
    [] OTHER                 -> [octets |-> <<>>, buf |-> FALSE]

(* A call under way, and its ends.                                         *)
Call(node, blocks) == [code |-> "OK", used |-> 0, node |-> node, blocks |-> blocks]
Return(c, code)    == [c EXCEPT !.code = code]
Finish(c, phase)   == [c EXCEPT !.code = "OK", !.node.phase = phase]

(* ADVANCE, LEFT and SIZE_VIOLATION: the part of the octets not used that  *)
(* belongs to the element, and whether all of the element is there.        *)
Advance(c, n) ==
  [c EXCEPT !.used = @ + n, !.node.left = IF @ >= 0 THEN @ - n ELSE @]

Rest(c, m)  == SubSeq(m, c.used + 1, Len(m))
Frame(c, m) ==
  IF c.node.left >= 0 /\ c.node.left < Len(m) - c.used
  THEN SubSeq(m, c.used + 1, c.used + c.node.left) ELSE Rest(c, m)
SizeViolation(c, m) == c.node.left >= 0 /\ c.node.left <= Len(m) - c.used

(* More octets are wanted: an error if the element is complete.            *)
WantMore(c, m) == Return(c, IF SizeViolation(c, m) THEN "FAIL" ELSE "WMORE")

Ended(m) == Len(m) >= 2 /\ m[1] = 0 /\ m[2] = 0

(* ber_skip_length: how many octets the length and the contents take, an   *)
(* indefinite length up to the two zero octets.                            *)
RECURSIVE SkipLength(_, _), SkipContents(_, _)
SkipLength(constructed, m) ==
  LET l == FetchLength(constructed, m)
  IN  IF l.took <= 0 THEN l.took
      ELSE IF l.length = Indefinite THEN SkipContents(m, l.took)
      ELSE IF l.took + l.length > Len(m) THEN 0 ELSE l.took + l.length

SkipContents(m, skip) ==
  LET rest == SubSeq(m, skip + 1, Len(m))
      tl   == FetchTag(rest).took
      ll   == IF tl <= 0 THEN tl
              ELSE SkipLength(Constructed(rest), SubSeq(rest, tl + 1, Len(rest)))
  IN  IF ll <= 0 THEN ll
      ELSE IF Ended(rest) THEN skip + tl + ll
      ELSE SkipContents(m, skip + tl + ll)

(***************************************************************************)
(* ber_check_tags, for types of at most one tag: the tag must be the one   *)
(* of the type unless the member's replaces it, and have the form asked    *)
(* for, before the length is looked at.                                    *)
(***************************************************************************)
AnyForm == {TRUE, FALSE}

Checked(t, l, constructed) ==
  CASE l.took = -1 -> [code |-> "FAIL"]
    [] l.took = 0  -> [code |-> "WMORE"]
    [] OTHER       -> [code |-> "OK", used |-> t.took + l.took, left |-> l.length,
                       constructed |-> constructed]

CheckTags(type, m, mode, forms) ==
  LET t == FetchTag(m)
  IN  CASE t.took = -1 -> [code |-> "FAIL"]
        [] t.took = 0  -> [code |-> "WMORE"]
        [] OTHER ->
             IF /\ type.tags # <<>>
                /\ (mode = Own /\ t.tag # type.tags[1]) \/ Constructed(m) \notin forms
             THEN [code |-> "FAIL"]
             ELSE Checked(t, FetchLength(Constructed(m), SubSeq(m, t.took + 1, Len(m))),
                          Constructed(m))

RECURSIVE Decode(_, _, _, _)

(***************************************************************************)
(* SEQUENCE_decode_ber.                                                    *)
(***************************************************************************)
RECURSIVE SequenceMembers(_, _, _, _), SequenceRest(_, _, _)

(* From this member on the structure may end.                              *)
MayEnd(type, edx) ==
  \/ edx + type.members[edx].optional = Len(type.members) + 1
  \/ InExtensionGroup(type, edx - 1) /\ type.extBefore > Len(type.members)

(* The member a tag belongs to, among the next one and the optional ones   *)
(* after it; 0 if none.  The search stops at a member without a tag of its *)
(* own, and then goes through the tags such members may start with.        *)
Position(type, edx, tag) ==
  LET members == type.members
      reach   == {n \in edx..(edx + members[edx].optional) : n <= Len(members)}
      stops   == {n \in reach : members[n].tag \in {tag, NoTag}}
      mapped  == {n \in reach : tag \in MemberTags(members[n])}
  IN  IF stops = {} THEN 0
      ELSE IF members[Min(stops)].tag = tag \/ members[Min(stops)].open THEN Min(stops)
      ELSE IF mapped = {} THEN 0 ELSE Max(mapped)

SequenceSkip(type, c, m, edx, skip) ==
  CASE skip = 0  -> WantMore(c, m)
    [] skip = -1 -> Return(c, "FAIL")
    [] OTHER     -> IF edx = 0 THEN SequenceRest(type, Advance(c, skip), m)
                    ELSE SequenceMembers(type, Advance(c, skip), m, edx)

(* What the tag t and the element behind it take, in what is left.         *)
SkipElement(frame, t) ==
  LET skip == SkipLength(Constructed(frame), SubSeq(frame, t.took + 1, Len(frame)))
  IN  IF skip > 0 THEN t.took + skip ELSE skip

(* An unknown tag is passed over in an extension group: the next member is *)
(* then the one after the optional ones.                                   *)
SequenceUnknown(type, c, m, edx, t) ==
  LET next == edx + type.members[edx].optional
  IN  IF ~InExtensionGroup(type, next - 1) THEN Return(c, "FAIL")
      ELSE SequenceSkip(type, c, m, next, SkipElement(Frame(c, m), t))

SequenceTaken(type, c, m, edx, r) ==
  LET now == [c EXCEPT !.node.members[edx] = r.node, !.blocks = @ + r.blocks]
  IN  CASE r.code = "FAIL"  -> Return(now, "FAIL")
        [] r.code = "WMORE" -> IF SizeViolation(c, m) THEN Return(now, "FAIL")
                               ELSE Return(Advance(now, r.used), "WMORE")
        [] r.code = "OK"    ->
             SequenceMembers(type, [Advance(now, r.used) EXCEPT !.node.edx = edx + 1,
                                                               !.node.entered = FALSE],
                             m, edx + 1)

(* Mutant of SequenceMember: that the member is under way is forgotten.    *)
MemberForgotten(type, c, m, edx) ==
  LET member == type.members[edx]
  IN  SequenceTaken(type, [c EXCEPT !.node.edx = edx], m, edx,
                    Decode(member.type, c.node.members[edx], Frame(c, m), member.mode))

SequenceMember(type, c, m, edx) ==
  LET member == type.members[edx]
  IN  SequenceTaken(type, [c EXCEPT !.node.edx = edx, !.node.entered = TRUE], m, edx,
                    Decode(member.type, c.node.members[edx], Frame(c, m), member.mode))

SequenceTag(type, c, m, edx, t) ==
  LET frame == Frame(c, m)
      n     == Position(type, edx, t.tag)
  IN  CASE t.took = 0  -> WantMore(c, m)
        [] t.took = -1 -> Return(c, "FAIL")
        [] OTHER ->
             IF c.node.left < 0 /\ frame = <<0>> THEN Return(c, "WMORE")
             ELSE IF c.node.left < 0 /\ Ended(frame) /\ MayEnd(type, edx)
             THEN SequenceRest(type, Finish(c, 3), m)
             ELSE IF n = 0 THEN SequenceUnknown(type, c, m, edx, t)
             ELSE SequenceMember(type, c, m, n)

(* Phase 1: the members from edx on.                                       *)
SequenceMembers(type, c, m, edx) ==
  IF edx > Len(type.members) THEN SequenceRest(type, Finish(c, 3), m)
  ELSE IF c.node.entered THEN SequenceMember(type, c, m, edx)
  ELSE IF c.node.left = 0 /\ MayEnd(type, edx) THEN Finish(c, 10)
  ELSE SequenceTag(type, c, m, edx, FetchTag(Frame(c, m)))

(* Phases 3 and 4: to the end of the element, past what an extensible type *)
(* does not know.                                                          *)
SequenceLeft(type, c, m, t) ==
  LET frame == Frame(c, m)
  IN  CASE t.took = 0  -> WantMore(c, m)
        [] t.took = -1 -> Return(c, "FAIL")
        [] OTHER ->
             IF c.node.left < 0 /\ frame = <<0>> THEN Return(c, "WMORE")
             ELSE IF c.node.left < 0 /\ Ended(frame)
             THEN SequenceRest(type, [Finish(Advance(c, 2), 4) EXCEPT !.node.left = @ + 1], m)
             ELSE IF ~InExtensionGroup(type, Len(type.members)) \/ c.node.phase = 4
             THEN Return(c, "FAIL")
             ELSE SequenceSkip(type, c, m, 0, SkipElement(frame, t))

SequenceRest(type, c, m) ==
  IF c.node.left = 0 THEN Finish(c, 10)
  ELSE SequenceLeft(type, c, m, FetchTag(Frame(c, m)))

SequenceBegin(type, c, m, h) ==
  IF h.code # "OK" THEN Return(c, h.code)
  ELSE SequenceMembers(type, [c EXCEPT !.used = h.used, !.node.left = h.left, !.node.phase = 1],
                       m, 1)

SequenceDecode(type, c, m, mode) ==
  CASE c.node.phase = 0       -> SequenceBegin(type, c, m, CheckTags(type, m, mode, {TRUE}))
    [] c.node.phase = 1       -> SequenceMembers(type, c, m, c.node.edx)
    [] c.node.phase \in {3, 4} -> SequenceRest(type, c, m)
    [] c.node.phase = 10      -> Return(c, "OK")

(***************************************************************************)
(* CHOICE_decode_ber, for the types here: without a tag of their own, and  *)
(* not extensible.  present says which member there is before it is        *)
(* decoded, so that it can be freed at any time.                           *)
(***************************************************************************)
(* Mutant of ChoiceTaken: it says so only when the member is complete.     *)
PresentWhenDone(c, r) ==
  LET now == [c EXCEPT !.node.member = r.node, !.blocks = @ + r.blocks]
  IN  CASE r.code = "FAIL"  -> Return(now, "FAIL")
        [] r.code = "WMORE" -> [now EXCEPT !.used = @ + r.used, !.code = "WMORE"]
        [] r.code = "OK"    -> [Finish(now, 4) EXCEPT !.used = @ + r.used,
                                                 !.node.present = c.node.chosen]

ChoiceTaken(c, r) ==
  LET now == [c EXCEPT !.node.present = c.node.chosen, !.node.member = r.node,
                       !.blocks = @ + r.blocks]
  IN  CASE r.code = "FAIL"  -> Return(now, "FAIL")
        [] r.code = "WMORE" -> [now EXCEPT !.used = @ + r.used, !.code = "WMORE"]
        [] r.code = "OK"    -> [Finish(now, 4) EXCEPT !.used = @ + r.used]

ChoiceMember(type, c, m) ==
  LET member == type.members[c.node.chosen]
      node   == IF c.node.member = NoNode THEN NewNode(member.type) ELSE c.node.member
  IN  ChoiceTaken(c, Decode(member.type, node, Rest(c, m), member.mode))

ChoiceTag(type, c, m, t) ==
  LET members == {n \in DOMAIN type.members : t.tag \in MemberTags(type.members[n])}
  IN  CASE t.took = 0  -> Return(c, "WMORE")
        [] t.took = -1 -> Return(c, "FAIL")
        [] OTHER -> IF members = {} THEN Return(c, "FAIL")
                    ELSE ChoiceMember(type, [c EXCEPT !.node.phase = 2,
                                                      !.node.chosen = Min(members)], m)

ChoiceDecode(type, c, m) ==
  CASE c.node.phase \in {0, 1} ->
         ChoiceTag(type, [c EXCEPT !.node.phase = 1, !.node.left = -1], m, FetchTag(m))
    [] c.node.phase = 2 -> ChoiceMember(type, c, m)
    [] c.node.phase = 4 -> Return(c, "OK")

(***************************************************************************)
(* SET_OF_decode_ber, SEQUENCE OF as well: elements go into the list when  *)
(* they are complete, an incomplete one is freed when there is an error.   *)
(***************************************************************************)
RECURSIVE Released(_, _, _), ElementsFrom(_, _, _)

EndOfContents(c, m) ==
  LET frame == Frame(c, m)
  IN  CASE c.node.left >= 0 -> Finish(c, 3)
        [] c.node.left < 0 /\ Ended(frame) ->
             Finish([Advance(c, 2) EXCEPT !.node.left = @ + 1], 3)
        [] OTHER -> Return([c EXCEPT !.node.phase = 2],
                           IF Len(frame) >= 2 \/ (frame # <<>> /\ frame[1] # 0)
                           THEN "FAIL" ELSE "WMORE")

(* Mutant of ElementFailed: the element is freed and still pointed to.     *)
DanglingElement(type, c, r) ==
  [c EXCEPT !.code = "FAIL", !.node.element = r.node,
            !.blocks = @ + r.blocks - Released(type.member.type, r.node, FALSE)]

(* The element is abandoned.                                               *)
ElementFailed(type, c, r) ==
  [c EXCEPT !.code = "FAIL", !.node.element = NoNode,
            !.blocks = @ + r.blocks - Released(type.member.type, r.node, FALSE)]

ElementAdded(c, r) ==
  [Advance(c, r.used) EXCEPT
     !.node.list = Append(@, r.node), !.node.element = NoNode, !.node.entered = FALSE,
     !.blocks = @ + r.blocks + (IF c.node.list = <<>> THEN 1 ELSE 0)]

ElementTaken(type, c, m, r) ==
  CASE r.code = "OK" -> ElementsFrom(type, ElementAdded(c, r), m)
    [] r.code = "WMORE" /\ ~SizeViolation(c, m) ->
         Return([Advance(c, r.used) EXCEPT !.node.element = r.node, !.blocks = @ + r.blocks],
                "WMORE")
    [] OTHER -> ElementFailed(type, c, r)

ElementEntered(type, c, m) ==
  ElementTaken(type, c, m, Decode(type.member.type, c.node.element, Frame(c, m), Own))

ElementTag(type, c, m, t) ==
  LET frame == Frame(c, m)
  IN  CASE t.took = 0  -> WantMore(c, m)
        [] t.took = -1 -> Return(c, "FAIL")
        [] OTHER ->
             IF c.node.left < 0 /\ frame = <<0>> THEN Return(c, "WMORE")
             ELSE IF c.node.left < 0 /\ Ended(frame) THEN EndOfContents(c, m)
             ELSE IF type.member.tag \notin {NoTag, t.tag} THEN Return(c, "FAIL")
             ELSE ElementEntered(type, [c EXCEPT !.node.entered = TRUE], m)

ElementsFrom(type, c, m) ==
  IF c.node.entered THEN ElementEntered(type, c, m)
  ELSE IF c.node.left = 0 THEN Finish(c, 3)
  ELSE ElementTag(type, c, m, FetchTag(Frame(c, m)))

SequenceOfBegin(type, c, m, h) ==
  IF h.code # "OK" THEN Return(c, h.code)
  ELSE ElementsFrom(type, [c EXCEPT !.used = h.used, !.node.left = h.left, !.node.phase = 1], m)

SequenceOfDecode(type, c, m, mode) ==
  CASE c.node.phase = 0 -> SequenceOfBegin(type, c, m, CheckTags(type, m, mode, {TRUE}))
    [] c.node.phase = 1 -> ElementsFrom(type, c, m)
    [] c.node.phase = 2 -> EndOfContents(c, m)
    [] c.node.phase = 3 -> Return(c, "OK")

(***************************************************************************)
(* OCTET_STRING_decode_ber, ANY as well.  Contents of a primitive string   *)
(* are kept as they come (phase 3).  A constructed one (phases 1 and 2)    *)
(* needs a stack of the elements that are open: how much is left of each   *)
(* (-1 for no end known), how much it took, and whether two zero octets    *)
(* must end it.  An ANY keeps the tags and lengths as well.                *)
(***************************************************************************)
Kept(c, octets) ==
  [c EXCEPT !.node.octets = @ \o octets, !.node.buf = TRUE,
            !.blocks = @ + (IF c.node.buf THEN 0 ELSE 1)]

KeptOfAny(type, c, octets) == IF type.kind = "ANY" THEN Kept(c, octets) ELSE c

Top(c) == c.node.stack[Len(c.node.stack)]

RECURSIVE Expectations(_, _, _)

Contents(c, rest) ==
  IF Len(rest) < c.node.left
  THEN IF rest = <<>> THEN Return(c, "WMORE")
       ELSE Return(Advance(Kept(c, rest), Len(rest)), "WMORE")
  ELSE Finish(Advance(Kept(c, SubSeq(rest, 1, c.node.left)), c.node.left), 4)

(* Phase 2: the contents of the primitive element on top of the stack.     *)
Segment(type, c, m) ==
  LET top  == Top(c)
      n    == Min({top.left, Len(m) - c.used})
      kept == IF n = 0 THEN c
              ELSE [Kept(c, SubSeq(m, c.used + 1, c.used + n)) EXCEPT !.used = @ + n]
      now  == [kept EXCEPT !.node.stack[Len(c.node.stack)].left = top.left - n,
                           !.node.stack[Len(c.node.stack)].got  = top.got + n]
  IN  IF n < top.left THEN Return([now EXCEPT !.node.phase = 2], "WMORE")
      ELSE Expectations(type, [now EXCEPT !.node.phase = 1], m)

(* The element on top of the stack is complete.                            *)
Popped(type, c, m) ==
  LET top  == Top(c)
      deep == Len(c.node.stack)
      prev == c.node.stack[deep - 1]
      left == IF prev.left = -1 THEN -1 ELSE prev.left - top.got
  IN  IF deep = 1 THEN Finish([c EXCEPT !.node.stack = <<>>], 4)
      ELSE IF prev.left # -1 /\ left < 0 THEN Return(c, "FAIL")
      ELSE Expectations(type,
             [c EXCEPT !.node.stack = Append(SubSeq(c.node.stack, 1, deep - 2),
                [left |-> left, got |-> prev.got + top.got, nulls |-> prev.nulls])], m)

NullsTaken(type, c, m) ==
  LET deep == Len(c.node.stack)
  IN  Expectations(type,
        [KeptOfAny(type, c, <<0, 0>>) EXCEPT
           !.used = @ + 2, !.node.stack[deep] = [left |-> 0, got |-> @.got + 2, nulls |-> FALSE]],
        m)

(* A new element; the frames of the stack are used again.                  *)
Pushed(type, c, m, took, constructed, length) ==
  LET head  == SubSeq(m, c.used + 1, c.used + took)
      deep  == Len(c.node.stack)
      bound == IF deep = 0 THEN -1 ELSE Top(c).left
      fresh == IF deep = c.node.frames THEN 1 ELSE 0
      held  == [c EXCEPT !.node.frames = @ + fresh, !.blocks = @ + fresh]
      frame == [left  |-> IF bound # -1 /\ length = Indefinite THEN bound - took ELSE length,
                got   |-> took, nulls |-> length = Indefinite]
      now   == [KeptOfAny(type, held, head) EXCEPT !.used = @ + took,
                                                   !.node.stack = Append(@, frame)]
  IN  IF bound # -1 /\ bound < took + Max({length, 0}) THEN Return(held, "FAIL")
      ELSE IF constructed THEN Expectations(type, now, m)
      ELSE Segment(type, now, m)

(* The tag an element on this level of the stack must have.                *)
ExpectedTag(type, level) == type.tags[Min({level, Len(type.tags)})]

WantNulls(c) == c.node.stack # <<>> /\ Top(c).nulls

(* Mutant of ExpectationLength: whatever is in a string is a part of it.   *)
AnySegment(type, c, m, window, t, l) ==
  CASE l.took = -1 -> Return(c, "FAIL")
    [] l.took = 0  -> Return(c, "WMORE")
    [] OTHER       ->
         IF WantNulls(c) /\ Ended(window) THEN NullsTaken(type, c, m)
         ELSE Pushed(type, c, m, t.took + l.took, Constructed(window), l.length)

ExpectationLength(type, c, m, window, t, l) ==
  CASE l.took = -1 -> Return(c, "FAIL")
    [] l.took = 0  -> Return(c, "WMORE")
    [] OTHER ->
         IF WantNulls(c) /\ Ended(window) THEN NullsTaken(type, c, m)
         ELSE IF /\ type.kind # "ANY" /\ c.node.stack # <<>>
                 /\ t.tag # ExpectedTag(type, Len(c.node.stack))
         THEN Return(c, "FAIL")
         ELSE Pushed(type, c, m, t.took + l.took, Constructed(window), l.length)

ExpectationTag(type, c, m, window, t) ==
  CASE t.took = -1 -> Return(c, "FAIL")
    [] t.took = 0  -> Return(c, "WMORE")
    [] OTHER       -> ExpectationLength(type, c, m, window, t,
                        FetchLength(Constructed(window),
                                    SubSeq(window, t.took + 1, Len(window))))

Window(c, m) ==
  IF c.node.stack = <<>> \/ Top(c).left < 0 \/ Top(c).left >= Len(m) - c.used THEN Rest(c, m)
  ELSE SubSeq(m, c.used + 1, c.used + Top(c).left)

Expectation(type, c, m, window) == ExpectationTag(type, c, m, window, FetchTag(window))

(* Phase 1.                                                                *)
Expectations(type, c, m) ==
  IF c.node.stack # <<>> /\ Top(c).left <= 0 /\ ~Top(c).nulls THEN Popped(type, c, m)
  ELSE Expectation(type, c, m, Window(c, m))

StringBegin(type, c, m, h) ==
  IF h.code # "OK" THEN Return(c, h.code)
  ELSE IF h.constructed
  THEN Expectations(type, [c EXCEPT !.node.phase = 1, !.node.left = h.left,
                                    !.node.stacked = TRUE, !.blocks = @ + 1], m)
  ELSE Contents([KeptOfAny(type, c, SubSeq(m, 1, h.used)) EXCEPT
                   !.used = h.used, !.node.phase = 3, !.node.left = h.left],
                SubSeq(m, h.used + 1, Len(m)))

StringDecode(type, c, m, mode) ==
  CASE c.node.phase = 0 -> StringBegin(type, c, m, CheckTags(type, m, mode, AnyForm))
    [] c.node.phase = 1 -> Expectations(type, c, m)
    [] c.node.phase = 2 -> Segment(type, c, m)
    [] c.node.phase = 3 -> Contents(c, m)
    [] c.node.phase = 4 -> Return(c, "OK")

(***************************************************************************)
(* The types without a context take their contents at once.                *)
(***************************************************************************)
(* The octets of a number without those that say nothing, at most eight.   *)
Minimal(octets) ==
  IF octets = <<>> THEN <<0>>
  ELSE LET says == {k \in 1..(Len(octets) - 1) :
                      ~\/ octets[k] = 0   /\ octets[k + 1] < 128
                       \/ octets[k] = 255 /\ octets[k + 1] > 127}
       IN  SubSeq(octets, Min(says \cup {Len(octets)}), Len(octets))

PrimitiveValue(type, c, used, octets) ==
  LET taken == [c EXCEPT !.used = used]
  IN  CASE type.kind = "INTEGER" ->
             IF Len(Minimal(octets)) > 8 THEN Return(c, "FAIL")
             ELSE [taken EXCEPT !.node.octets = Minimal(octets)]
        [] type.kind = "NULL" -> taken
        [] type.kind = "OBJECT IDENTIFIER" ->
             [taken EXCEPT !.node.octets = octets, !.node.buf = TRUE, !.blocks = @ + 1]

PrimitiveBegin(type, c, m, h) ==
  IF h.code # "OK" THEN Return(c, h.code)
  ELSE IF h.left > Len(m) - h.used THEN Return(c, "WMORE")
  ELSE PrimitiveValue(type, c, h.used + h.left, SubSeq(m, h.used + 1, h.used + h.left))

PrimitiveDecode(type, c, m, mode) == PrimitiveBegin(type, c, m, CheckTags(type, m, mode, {FALSE}))

-----------------------------------------------------------------------------
(* The decoder of the type; the structure is allocated if there is none.   *)
DecodeInto(type, c, m, mode) ==
  CASE type.kind = "SEQUENCE"                -> SequenceDecode(type, c, m, mode)
    [] type.kind = "CHOICE"                  -> ChoiceDecode(type, c, m)
    [] type.kind = "SEQUENCE OF"             -> SequenceOfDecode(type, c, m, mode)
    [] type.kind \in {"OCTET STRING", "ANY"} -> StringDecode(type, c, m, mode)
    [] OTHER                                 -> PrimitiveDecode(type, c, m, mode)

Decode(type, node, m, mode) ==
  DecodeInto(type, IF node = NoNode THEN Call(NewNode(type), 1) ELSE Call(node, 0), m, mode)

(* The blocks that the *_free function of the type gives back.             *)
Released(type, node, contentsOnly) ==
  IF node = NoNode THEN 0
  ELSE (IF contentsOnly THEN 0 ELSE 1) +
       CASE type.kind = "SEQUENCE" ->
              MapThenSumSet(LAMBDA n : Released(type.members[n].type, node.members[n],
                                                ~type.members[n].pointer),
                            DOMAIN type.members)
         [] type.kind = "CHOICE" ->
              IF node.present = 0 THEN 0
              ELSE Released(type.members[node.present].type, node.member, TRUE)
         [] type.kind = "SEQUENCE OF" ->
              MapThenSumSet(LAMBDA n : Released(type.member.type, node.list[n], FALSE),
                            DOMAIN node.list)
              + (IF node.list = <<>> THEN 0 ELSE 1)
              + Released(type.member.type, node.element, FALSE)
         [] type.kind \in {"OCTET STRING", "ANY"} ->
              (IF node.buf THEN 1 ELSE 0) + (IF node.stacked THEN 1 ELSE 0) + node.frames
         [] OTHER -> IF type.kind = "OBJECT IDENTIFIER" /\ node.buf THEN 1 ELSE 0

(* ber_decode: the whole structure from the start.                         *)
BerDecode(type, m) == Decode(type, NoNode, m, Own)
=============================================================================
