--------------------------- MODULE MCObusDecoder ---------------------------
EXTENDS ObusDecoder

(* Two valid types, the highest one included, and payloads of 0 and 2 bytes (so a payload can be split between chunks). *)
MCFrames == {[type |-> t, payload |-> p] : t \in {2, 7}, p \in {<<>>, <<0, 5>>}}

(* A header with a size below 9, and one with the type 8 = OBUS_PKT_COUNT. *)
MCBadSize == Magic \o <<0, 0, 0, 0>> \o <<2>>
MCBadType == Magic \o <<0, 0, 0, 9>> \o <<8>>

(* Garbage: none, a stray byte, partial magics, and the two bad headers. *)
MCGarbage == {<<>>, <<0>>, <<111>>, <<0, 111>>, <<111, 0>>, <<111, 98>>,
              MCBadSize, MCBadType}
=============================================================================
