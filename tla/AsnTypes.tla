------------------------------ MODULE AsnTypes ------------------------------
(***************************************************************************)
(* What a type descriptor of the asn1c runtime says of a type              *)
(* (asn/constr_TYPE.h): its kind, its tags, its members, and the           *)
(* constraint the grammar puts on its values.  All the types here have at  *)
(* most one tag of their own (tags), followed by those of the type they    *)
(* are made from (all_tags), and no member has an EXPLICIT tag.            *)
(***************************************************************************)
EXTENDS BerTlv

NoTag == <<>>

(* The least and the greatest value, or size, that a constraint allows.    *)
AnySize    == <<>>
AnyInteger == <<>>

(* tag_mode of a member: the type brings its own tag, or the tag of the    *)
(* member replaces it.                                                     *)
Own      == 0
IMPLICIT == -1

(* A member: inside the structure, or behind a pointer that is null until  *)
(* the member is decoded.  optional counts the members from this one on    *)
(* that may be absent.                                                     *)
Inline(name, tag, mode, type) ==
  [name |-> name, tag |-> tag, mode |-> mode, type |-> type,
   pointer |-> FALSE, optional |-> 0, open |-> FALSE, allowed |-> AnyInteger]

Pointer(name, tag, mode, optional, type) ==
  [name |-> name, tag |-> tag, mode |-> mode, type |-> type,
   pointer |-> TRUE, optional |-> optional, open |-> FALSE, allowed |-> AnyInteger]

(* A member with a constraint of its own (memb_constraints).               *)
Constrained(member, range) == [member EXCEPT !.allowed = range]

(* A member of type ANY, which may bear any tag (ATF_OPEN_TYPE).           *)
OpenPointer(name, optional, type) ==
  [Pointer(name, NoTag, Own, optional, type) EXCEPT !.open = TRUE]

Sequence(tags, members) ==
  [kind |-> "SEQUENCE", tags |-> tags, members |-> members, extAfter |-> -1, extBefore |-> -1]

(* The members between the two positions (from 0) are an extension group.  *)
Extensible(type, after, before) == [type EXCEPT !.extAfter = after, !.extBefore = before]

InExtensionGroup(type, k) == k > type.extAfter /\ k < type.extBefore

Choice(members) == [kind |-> "CHOICE", tags |-> <<>>, members |-> members]

SequenceOf(tags, member) == [kind |-> "SEQUENCE OF", tags |-> tags, member |-> member]

(* The simple types, with the sizes, or the values, the grammar allows.    *)
OctetString(tags, range) == [kind |-> "OCTET STRING", tags |-> tags, allowed |-> range]
Integer(tags, range)     == [kind |-> "INTEGER", tags |-> tags, allowed |-> range]

asn_DEF_OCTET_STRING      == OctetString(<<Universal(4)>>, AnySize)
asn_DEF_NativeInteger     == Integer(<<Universal(2)>>, AnyInteger)
asn_DEF_ANY               == [kind |-> "ANY", tags |-> <<>>]
asn_DEF_OBJECT_IDENTIFIER == [kind |-> "OBJECT IDENTIFIER", tags |-> <<Universal(6)>>]
asn_DEF_NULL              == [kind |-> "NULL", tags |-> <<Universal(5)>>]

(* X_inherit_TYPE_descriptor: a type made from another one works as that   *)
(* one does, under a tag of its own if the grammar gives it one.           *)
Tagged(tag, type)         == [type EXCEPT !.tags = <<tag>> \o @]
Restricted(type, allowed) == [type EXCEPT !.allowed = allowed]

(* The tags a value of the type may start with: what the tag2el maps are   *)
(* made of.                                                                *)
RECURSIVE FirstTags(_)
FirstTags(type) ==
  CASE type.kind = "CHOICE" -> UNION {FirstTags(type.members[n].type) :
                                 n \in {k \in DOMAIN type.members : type.members[k].tag = NoTag}}
                               \cup {type.members[n].tag : n \in DOMAIN type.members}
    [] type.kind = "ANY"    -> {}
    [] OTHER                -> {type.tags[1]}

MemberTags(member) ==
  IF member.tag # NoTag THEN {member.tag} ELSE FirstTags(member.type) \ {NoTag}
=============================================================================
