--------------------------- MODULE MCNpiTransport ---------------------------
(***************************************************************************)
(* NpiTransport for TLC: the command thread and the event thread send, a   *)
(* write with a payload that just fits and one that does not; two packets, *)
(* one of them of an unknown type and without data.                        *)
(***************************************************************************)
EXTENDS NpiTransport

MCCallers == {"hub"}
MCCalls == {"WriteCharacValue"}
MCPayloads == {119, 120}
MCPackets == <<[type |-> "event", len |-> 2], [type |-> "unknown", len |-> 0]>>
MCRaces == {"tx", "evt"}
=============================================================================
