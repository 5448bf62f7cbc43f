------------------------------ MODULE TcapTypes ------------------------------
(***************************************************************************)
(* The types of the TCAP grammar (asn/tcap.asn), as the descriptors that   *)
(* asn1c generated from it give them: one definition for each.             *)
(***************************************************************************)
EXTENDS AsnTypes

asn_DEF_OrigTransactionID == Restricted(Tagged(Application(8), asn_DEF_OCTET_STRING), <<1, 4>>)
asn_DEF_DestTransactionID == Restricted(Tagged(Application(9), asn_DEF_OCTET_STRING), <<1, 4>>)
asn_DEF_DialogueOC        == asn_DEF_OCTET_STRING
asn_DEF_DialoguePortion   == Tagged(Application(11), asn_DEF_DialogueOC)

asn_DEF_InvokeIdType == Restricted(asn_DEF_NativeInteger, <<-128, 127>>)

asn_DEF_OPERATION ==
  Choice(<<Inline("localValue", Universal(2), Own, asn_DEF_NativeInteger),
           Inline("globalValue", Universal(6), Own, asn_DEF_OBJECT_IDENTIFIER)>>)

asn_DEF_ERROR ==
  Choice(<<Inline("localValue", Universal(2), Own, asn_DEF_NativeInteger),
           Inline("globalValue", Universal(6), Own, asn_DEF_OBJECT_IDENTIFIER)>>)

(* memb_nationaler_constraint_1 is the only constraint of a member.        *)
asn_DEF_ErrorCode ==
  Choice(<<Constrained(Inline("nationaler", Private(19), IMPLICIT, asn_DEF_NativeInteger),
                       <<-32768, 32767>>),
           Inline("privateer", Private(20), IMPLICIT, asn_DEF_NativeInteger)>>)

asn_DEF_Parameter == asn_DEF_ANY

asn_DEF_Invoke ==
  Sequence(<<Universal(16)>>,
    <<Inline("invokeID", Universal(2), Own, asn_DEF_InvokeIdType),
      Pointer("linkedID", Context(0), IMPLICIT, 1, asn_DEF_InvokeIdType),
      Inline("opCode", NoTag, Own, asn_DEF_OPERATION),
      OpenPointer("parameter", 1, asn_DEF_Parameter)>>)

asn_DEF_resultretres ==
  Sequence(<<Universal(16)>>,
    <<Inline("opCode", NoTag, Own, asn_DEF_OPERATION),
      OpenPointer("parameter", 1, asn_DEF_Parameter)>>)

asn_DEF_ReturnResult ==
  Sequence(<<Universal(16)>>,
    <<Inline("invokeID", Universal(2), Own, asn_DEF_InvokeIdType),
      Pointer("resultretres", Universal(16), Own, 1, asn_DEF_resultretres)>>)

asn_DEF_ReturnError ==
  Sequence(<<Universal(16)>>,
    <<Inline("invokeID", Universal(2), Own, asn_DEF_InvokeIdType),
      Inline("errorCode", NoTag, Own, asn_DEF_ErrorCode),
      OpenPointer("parameter", 1, asn_DEF_Parameter)>>)

asn_DEF_GeneralProblem      == asn_DEF_NativeInteger
asn_DEF_InvokeProblem       == asn_DEF_NativeInteger
asn_DEF_ReturnResultProblem == asn_DEF_NativeInteger
asn_DEF_ReturnErrorProblem  == asn_DEF_NativeInteger

asn_DEF_invokeIDRej ==
  Choice(<<Inline("derivable", Universal(2), Own, asn_DEF_InvokeIdType),
           Inline("not-derivable", Universal(5), Own, asn_DEF_NULL)>>)

asn_DEF_problem ==
  Choice(<<Inline("generalProblem", Context(0), IMPLICIT, asn_DEF_GeneralProblem),
           Inline("invokeProblem", Context(1), IMPLICIT, asn_DEF_InvokeProblem),
           Inline("returnResultProblem", Context(2), IMPLICIT, asn_DEF_ReturnResultProblem),
           Inline("returnErrorProblem", Context(3), IMPLICIT, asn_DEF_ReturnErrorProblem)>>)

asn_DEF_Reject ==
  Sequence(<<Universal(16)>>,
    <<Inline("invokeIDRej", NoTag, Own, asn_DEF_invokeIDRej),
      Inline("problem", NoTag, Own, asn_DEF_problem)>>)

asn_DEF_Component ==
  Choice(<<Inline("invoke", Context(1), IMPLICIT, asn_DEF_Invoke),
           Inline("returnResultLast", Context(2), IMPLICIT, asn_DEF_ReturnResult),
           Inline("returnError", Context(3), IMPLICIT, asn_DEF_ReturnError),
           Inline("reject", Context(4), IMPLICIT, asn_DEF_Reject),
           Inline("returnResultNotLast", Context(7), IMPLICIT, asn_DEF_ReturnResult)>>)

asn_DEF_ComponentPortion ==
  SequenceOf(<<Application(12), Universal(16)>>, Pointer("", NoTag, Own, 0, asn_DEF_Component))

-----------------------------------------------------------------------------
DialogueMember(optional)  ==
  Pointer("dialoguePortion", Application(11), Own, optional, asn_DEF_DialoguePortion)
ComponentsMember(optional) ==
  Pointer("components", Application(12), Own, optional, asn_DEF_ComponentPortion)
Otid == Inline("otid", Application(8), Own, asn_DEF_OrigTransactionID)
Dtid == Inline("dtid", Application(9), Own, asn_DEF_DestTransactionID)

asn_DEF_Unidirectional ==
  Sequence(<<Universal(16)>>,
    <<DialogueMember(1), Inline("components", Application(12), Own, asn_DEF_ComponentPortion)>>)

(* Mutant of asn_DEF_Begin: the dialogue portion is not OPTIONAL.          *)
DialogueRequired ==
  Sequence(<<Universal(16)>>, <<Otid, DialogueMember(0), ComponentsMember(1)>>)

asn_DEF_Begin ==
  Sequence(<<Universal(16)>>, <<Otid, DialogueMember(2), ComponentsMember(1)>>)

asn_DEF_End ==
  Sequence(<<Universal(16)>>, <<Dtid, DialogueMember(2), ComponentsMember(1)>>)

asn_DEF_Continue ==
  Sequence(<<Universal(16)>>, <<Otid, Dtid, DialogueMember(2), ComponentsMember(1)>>)

asn_DEF_P_AbortCause ==
  Restricted(Tagged(Application(10), asn_DEF_NativeInteger), <<0, 127>>)

asn_DEF_Reason ==
  Choice(<<Inline("p-abortCause", Application(10), Own, asn_DEF_P_AbortCause),
           Inline("u-abortCause", Application(11), Own, asn_DEF_DialoguePortion)>>)

asn_DEF_Abort ==
  Sequence(<<Universal(16)>>, <<Dtid, Pointer("reason", NoTag, Own, 1, asn_DEF_Reason)>>)

asn_DEF_TCMessage ==
  Choice(<<Inline("unidirectional", Application(1), IMPLICIT, asn_DEF_Unidirectional),
           Inline("begin", Application(2), IMPLICIT, asn_DEF_Begin),
           Inline("end", Application(4), IMPLICIT, asn_DEF_End),
           Inline("continue", Application(5), IMPLICIT, asn_DEF_Continue),
           Inline("abort", Application(7), IMPLICIT, asn_DEF_Abort)>>)

(* The dialogue as a PDU of its own, in the octets of DialoguePortion.     *)
asn_DEF_Dialog1 == asn_DEF_OCTET_STRING

asn_DEF_ExternalPDU ==
  Sequence(<<Universal(8), Universal(16)>>,
    <<Inline("oid", Universal(6), Own, asn_DEF_OBJECT_IDENTIFIER),
      Inline("dialog", Context(0), IMPLICIT, asn_DEF_Dialog1)>>)
=============================================================================
