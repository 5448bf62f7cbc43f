------------------------------ MODULE InapTypes ------------------------------
(***************************************************************************)
(* The types of the INAP grammar (asn/INAP_DEF.asn), as the descriptors    *)
(* that asn1c generated from it give them.                                 *)
(***************************************************************************)
EXTENDS AsnTypes

asn_DEF_Integer4   == Restricted(asn_DEF_NativeInteger, <<0, 2147483647>>)
asn_DEF_ServiceKey == Restricted(asn_DEF_Integer4, <<0, 2147483647>>)

asn_DEF_CalledPartyNumber  == Restricted(asn_DEF_OCTET_STRING, <<1, 20>>)
asn_DEF_CallingPartyNumber == Restricted(asn_DEF_OCTET_STRING, <<1, 20>>)

asn_DEF_CutAndPaste == Restricted(asn_DEF_NativeInteger, <<0, 22>>)

asn_DEF_Cause          == Restricted(asn_DEF_OCTET_STRING, <<2, 20>>)
asn_DEF_ReleaseCallArg == Restricted(asn_DEF_Cause, <<2, 20>>)

asn_DEF_DestinationRoutingAddress ==
  SequenceOf(<<Universal(16)>>, Pointer("", Universal(4), Own, 0, asn_DEF_CalledPartyNumber))

asn_DEF_InitialDPArg ==
  Extensible(
    Sequence(<<Universal(16)>>,
      <<Inline("serviceKey", Context(0), IMPLICIT, asn_DEF_ServiceKey),
        Pointer("calledPartyNumber", Context(2), IMPLICIT, 2, asn_DEF_CalledPartyNumber),
        Pointer("callingPartyNumber", Context(3), IMPLICIT, 1, asn_DEF_CallingPartyNumber)>>),
    2, 4)

asn_DEF_ConnectArg ==
  Extensible(
    Sequence(<<Universal(16)>>,
      <<Inline("destinationRoutingAddress", Context(0), IMPLICIT, asn_DEF_DestinationRoutingAddress),
        Pointer("cutAndPaste", Context(3), IMPLICIT, 2, asn_DEF_CutAndPaste),
        Pointer("callingPartyNumber", Context(27), IMPLICIT, 1, asn_DEF_CallingPartyNumber)>>),
    2, 4)
=============================================================================
