-------------------------------- MODULE Bus --------------------------------
(***************************************************************************)
(* The messages relay instances send each other on the Redis channel of a  *)
(* device (relay/bus.rs).  A payload is the tag byte followed by its       *)
(* fields; a field of fixed width is one element, and a text or a frame is *)
(* represented by its length in bytes, the only thing the receiving        *)
(* instance reads of it before writing it out.                             *)
(***************************************************************************)
EXTENDS Naturals, Sequences

CONSTANTS
    Device,     \* device ids
    Conn,       \* connection ids, one per accepted socket
    Pair,       \* pair ids, standing for the signed statement that revokes one
    FrameLen    \* lengths of texts and frames

ASSUME FrameLenAssumption == FrameLen \subseteq Nat

TAG_TEXT == 1
TAG_BINARY == 2
TAG_CONTROL == 3
TAG_PAIR_REVOKED == 4
TAG_PAIRS_CHANGED == 5
TAG_REPLACE == 6
TAG_CLOSE == 7

CLOSE_NORMAL == 1000

ForwardText(from, len) == [type |-> "text", from |-> from, len |-> len]
ForwardBinary(from, len) == [type |-> "binary", from |-> from, len |-> len]
Control(len) == [type |-> "control", len |-> len]
PairRevoked(pair) == [type |-> "pair_revoked", pair |-> pair]
PairsChanged == [type |-> "pairs_changed"]
Replace(conn) == [type |-> "replace", conn |-> conn]
Close(code) == [type |-> "close", code |-> code]

\* Every message an instance can publish; 1000 is the only code sent.
BusMessage ==
    [type : {"text", "binary"}, from : Device, len : FrameLen]
      \cup [type : {"control"}, len : FrameLen]
      \cup [type : {"pair_revoked"}, pair : Pair]
      \cup {PairsChanged}
      \cup [type : {"replace"}, conn : Conn]
      \cup {Close(CLOSE_NORMAL)}

encode(m) ==
    CASE m.type = "text"          -> <<TAG_TEXT, m.from, m.len>>
      [] m.type = "binary"        -> <<TAG_BINARY, m.from, m.len>>
      [] m.type = "control"       -> <<TAG_CONTROL, m.len>>
      [] m.type = "pair_revoked"  -> <<TAG_PAIR_REVOKED, m.pair>>
      [] m.type = "pairs_changed" -> <<TAG_PAIRS_CHANGED>>
      [] m.type = "replace"       -> <<TAG_REPLACE, m.conn>>
      [] m.type = "close"         -> <<TAG_CLOSE, m.code>>

\* Mutant: the connection of a Replace is read where the tag is.
DecodeShifted(b) ==
    CASE b[1] = TAG_REPLACE -> Replace(b[1])
      [] b[1] = TAG_CLOSE   -> Close(b[2])
      [] OTHER              -> Control(b[2])

\* The message of a payload whose fields have the lengths of its tag.
decode(b) ==
    CASE b[1] = TAG_TEXT          -> ForwardText(b[2], b[3])
      [] b[1] = TAG_BINARY        -> ForwardBinary(b[2], b[3])
      [] b[1] = TAG_CONTROL       -> Control(b[2])
      [] b[1] = TAG_PAIR_REVOKED  -> PairRevoked(b[2])
      [] b[1] = TAG_PAIRS_CHANGED -> PairsChanged
      [] b[1] = TAG_REPLACE       -> Replace(b[2])
      [] b[1] = TAG_CLOSE         -> Close(b[2])

\* Bytes a message holds in a receiver's queue: only frames and control
\* texts are counted.
queued_len(m) == IF m.type \in {"text", "binary", "control"} THEN m.len ELSE 0
=============================================================================
