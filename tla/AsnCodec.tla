------------------------------ MODULE AsnCodec ------------------------------
(***************************************************************************)
(* The asn1c runtime as TcapMessage and InapMessage call it: ber_decode,   *)
(* der_encode and ASN_STRUCT_FREE with the descriptors of the messages     *)
(* they read and write.                                                    *)
(***************************************************************************)
EXTENDS DerEncoder, TcapTypes, InapTypes

TCMessageDecoded(m)     == BerDecode(asn_DEF_TCMessage, m)
TCMessageReleased(node) == Released(asn_DEF_TCMessage, node, FALSE)
TCMessageEncoded(node)  == DerEncode(asn_DEF_TCMessage, node).octets

InitialDPArgDecoded(m)  == BerDecode(asn_DEF_InitialDPArg, m)
ConnectArgEncoded(node) == DerEncode(asn_DEF_ConnectArg, node).octets
=============================================================================
