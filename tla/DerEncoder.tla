----------------------------- MODULE DerEncoder -----------------------------
(***************************************************************************)
(* What else the asn1c runtime does with a decoded structure: the DER      *)
(* encoder, and the check of the constraints of the grammar                *)
(* (asn_check_constraints).                                                *)
(***************************************************************************)
EXTENDS BerDecoder

LOCAL INSTANCE SequencesExt

NotEncoded == [ok |-> FALSE, octets |-> <<>>]
Encoded(octets) == [ok |-> TRUE, octets |-> octets]

(* Mutant of WriteTags: the type's own tag whatever the member says.       *)
OwnTag(type, content, mode, constructed, tag) ==
  Encoded(WriteTL(type.tags[1], Len(content), constructed) \o content)

(* der_write_tags: the tag of the type, which the tag of the member        *)
(* replaces in IMPLICIT mode, with the length behind it.                   *)
WriteTags(type, content, mode, constructed, tag) ==
  Encoded(WriteTL(IF mode = IMPLICIT THEN tag ELSE type.tags[1], Len(content), constructed)
          \o content)

RECURSIVE Encode(_, _, _, _)

AllOf(parts) ==
  IF \A n \in DOMAIN parts : parts[n].ok
  THEN Encoded(FlattenSeq([n \in DOMAIN parts |-> parts[n].octets])) ELSE NotEncoded

(* Absent members are left out, unless they are mandatory.                 *)
MemberEncoded(member, node) ==
  IF node # NoNode THEN Encode(member.type, node, member.mode, member.tag)
  ELSE IF member.optional > 0 THEN Encoded(<<>>) ELSE NotEncoded

SequenceEncode(type, parts, mode, tag) ==
  IF parts.ok THEN WriteTags(type, parts.octets, mode, TRUE, tag) ELSE NotEncoded

ChoiceEncode(type, node) ==
  IF node.present = 0 THEN NotEncoded
  ELSE MemberEncoded(type.members[node.present], node.member)

(* An ANY holds its tag and length; a number is written in as few octets   *)
(* as it can be.                                                           *)
Encode(type, node, mode, tag) ==
  CASE type.kind = "SEQUENCE" ->
         SequenceEncode(type, AllOf([n \in DOMAIN type.members |->
                                MemberEncoded(type.members[n], node.members[n])]), mode, tag)
    [] type.kind = "CHOICE" -> ChoiceEncode(type, node)
    [] type.kind = "SEQUENCE OF" ->
         SequenceEncode(type, AllOf([n \in DOMAIN node.list |->
                                Encode(type.member.type, node.list[n], Own, NoTag)]), mode, tag)
    [] type.kind = "ANY"     -> Encoded(node.octets)
    [] type.kind = "INTEGER" -> WriteTags(type, Minimal(node.octets), mode, FALSE, tag)
    [] OTHER                 -> WriteTags(type, node.octets, mode, FALSE, tag)

(* der_encode of a whole message.                                          *)
DerEncode(type, node) == Encode(type, node, Own, NoTag)

(***************************************************************************)
(* The constraints.  Within says that a value obeys a constraint; a number *)
(* of more than four octets obeys none of those in the grammars.           *)
(***************************************************************************)
Within(type, node, allowed) ==
  \/ allowed = <<>>
  \/ /\ type.kind = "INTEGER" /\ Len(node.octets) <= 4
     /\ allowed[1] <= Number(node.octets) /\ Number(node.octets) <= allowed[2]
  \/ type.kind = "OCTET STRING" /\ Len(node.octets) \in allowed[1]..allowed[2]

(* What is left of a constraint once a value of the type was decoded:      *)
(* X_inherit_TYPE_descriptor has put the check of the basic type in the    *)
(* place of the one asn1c generated, and only an OBJECT IDENTIFIER has one.*)
CheckLeft(type, node) == type.kind = "OBJECT IDENTIFIER" => node.octets # <<>>

(* The generated check: what the grammar says.                             *)
Grammar(type, node) == type.kind \in {"OCTET STRING", "INTEGER"} => Within(type, node, type.allowed)

(* The values checked against the grammar: all of them, none, or the       *)
(* elements of lists of a simple type.                                     *)
Checks == {"all", "none", "elements"}

(* The constraint functions from the whole structure down: no member is    *)
(* missing, and every value passes.                                        *)
RECURSIVE Obeys(_, _, _)
MemberObeys(member, node, checks) ==
  IF node = NoNode THEN member.optional > 0
  ELSE IF member.allowed # <<>> THEN Within(member.type, node, member.allowed)
  ELSE Obeys(member.type, node, checks)

ElementObeys(type, node, checks) ==
  IF checks = "elements" /\ type.kind = "OCTET STRING" THEN Grammar(type, node)
  ELSE Obeys(type, node, checks)

Obeys(type, node, checks) ==
  CASE type.kind = "SEQUENCE" ->
         \A n \in DOMAIN type.members : MemberObeys(type.members[n], node.members[n], checks)
    [] type.kind = "CHOICE" ->
         node.present # 0 /\ MemberObeys(type.members[node.present], node.member, checks)
    [] type.kind = "SEQUENCE OF" ->
         \A n \in DOMAIN node.list : ElementObeys(type.member.type, node.list[n], checks)
    [] OTHER -> CheckLeft(type, node) /\ (checks = "all" => Grammar(type, node))
=============================================================================
