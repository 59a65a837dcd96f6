---------------------------- MODULE WireFormats ----------------------------
(***************************************************************************)
(* The three wire formats: order entry (a TCP stream), market data         *)
(* (datagrams, captures and snapshots) and commands (the journal).         *)
(*                                                                         *)
(* A byte is a number below Base; integers are written most significant    *)
(* byte first, over WidthOf bytes.  Encoder, decoder and payload_size_for  *)
(* each keep their own idea of a message's layout in the code, and so they *)
(* do here: that they agree is one of the things checked.                  *)
(***************************************************************************)
EXTENDS Integers, Sequences, FiniteSetsExt, SequencesExt

CONSTANTS
  Base,          \* 256 in the code
  W16, W32, W64  \* 2, 4 and 8 bytes in the code

ASSUME WidthAssumption ==
  /\ Base \in Nat /\ Base >= 16
  /\ {W16, W32, W64} \subseteq Nat \ {0}

Enumerations == {"type", "reserved", "side", "aggressor_side", "order_type",
                 "time_in_force", "reason"}

WidthOf(field) ==
  CASE field \in Enumerations -> 1
    [] field \in {"payload_size", "version", "frame_count", "flags"} -> W16
    [] field \in {"instrument_id", "magic", "payload_length"} -> W32
    [] OTHER -> W64

Signed(field) == field \in {"price", "new_price"}

\* put_u8 .. put_i64: two's complement for a negative price.
PutField(field, v) ==
  LET w == WidthOf(field)
  IN  [i \in 1..w |-> ((v % Base^w) \div Base^(w - i)) % Base]

\* ByteReader::get_u8 .. get_i64.
GetField(field, bytes) ==
  LET w == WidthOf(field)
      v == MapThenSumSet(LAMBDA i : bytes[i] * Base^(w - i), 1..w)
  IN  IF Signed(field) /\ 2 * v >= Base^w THEN v - Base^w ELSE v

PutFields(fields, m) ==
  FoldLeft(LAMBDA bytes, field : bytes \o PutField(field, m[field]), << >>, fields)

SizeOf(fields) == FoldLeft(LAMBDA n, field : n + WidthOf(field), 0, fields)

GetFields(fields, bytes) ==
  LET At(i) == SizeOf(SubSeq(fields, 1, i - 1))
      Index(field) == CHOOSE i \in DOMAIN fields : fields[i] = field
  IN  [field \in Range(fields) |->
         GetField(field, SubSeq(bytes, At(Index(field)) + 1,
                                At(Index(field)) + WidthOf(field)))]
-----------------------------------------------------------------------------
(***************************************************************************)
(* Headers and message types.                                              *)
(***************************************************************************)
HeaderFields ==
  [order_entry |-> <<"type", "payload_size">>,
   command     |-> <<"type", "reserved", "payload_size", "command_sequence">>,
   market_data |-> <<"type", "reserved", "payload_size", "sequence_number",
                     "timestamp_ns">>]

\* What a message takes over from the header.
Hoisted ==
  [order_entry |-> << >>, command |-> <<"command_sequence">>,
   market_data |-> <<"sequence_number", "timestamp_ns">>]

HeaderSize(format) == SizeOf(HeaderFields[format])

TypeCode ==
  [order_entry |-> [NewOrder |-> 1, CancelOrder |-> 2, ReplaceOrder |-> 3,
                    Accepted |-> 10, Rejected |-> 11, Cancelled |-> 12,
                    Replaced |-> 13, TradeReport |-> 14],
   command     |-> [NewOrder |-> 1, CancelOrder |-> 2, ReplaceOrder |-> 3,
                    RegisterInstrument |-> 4],
   market_data |-> [AddOrder |-> 1, CancelOrder |-> 2, ModifyOrder |-> 3,
                    Trade |-> 4, ClearBook |-> 5]]

MessageTypes(format) == DOMAIN TypeCode[format]

Valid(field, raw) ==
  CASE field \in {"side", "aggressor_side"} -> raw \in 0..1
    [] field = "order_type" -> raw = 0
    [] field = "time_in_force" -> raw \in 0..2
    [] field = "reason" -> raw \in 0..12
    [] OTHER -> TRUE
-----------------------------------------------------------------------------
(***************************************************************************)
(* payload_size_for, of each format.                                       *)
(***************************************************************************)
OrderEntryPayload ==
  [NewOrder     |-> 4 * W64 + W32 + 3,
   CancelOrder  |-> 2 * W64 + W32,
   ReplaceOrder |-> 5 * W64 + W32,
   Accepted     |-> 5 * W64 + W32 + 3,
   Rejected     |-> 2 * W64 + W32 + 1,
   Cancelled    |-> 3 * W64 + W32,
   Replaced     |-> 6 * W64 + W32,
   TradeReport  |-> 6 * W64 + W32]

CommandPayload ==
  [NewOrder           |-> 4 * W64 + W32 + 3,
   CancelOrder        |-> 2 * W64 + W32,
   ReplaceOrder       |-> 5 * W64 + W32,
   RegisterInstrument |-> W32]

MarketDataPayload ==
  [AddOrder    |-> 3 * W64 + W32 + 1,
   CancelOrder |-> W64 + W32,
   ModifyOrder |-> 3 * W64 + W32,
   Trade       |-> 2 * W64 + W32 + 1,
   ClearBook   |-> W32]

PayloadSize ==
  [order_entry |-> OrderEntryPayload, command |-> CommandPayload,
   market_data |-> MarketDataPayload]
-----------------------------------------------------------------------------
(***************************************************************************)
(* What the encoders write.                                                *)
(***************************************************************************)
OrderEntryEncoder ==
  [NewOrder     |-> <<"account_id", "client_order_id", "instrument_id", "side",
                      "price", "quantity", "order_type", "time_in_force">>,
   CancelOrder  |-> <<"account_id", "client_order_id", "instrument_id">>,
   ReplaceOrder |-> <<"account_id", "original_client_order_id", "new_client_order_id",
                      "instrument_id", "new_price", "new_quantity">>,
   Accepted     |-> <<"account_id", "client_order_id", "exchange_order_id",
                      "instrument_id", "side", "price", "quantity", "order_type",
                      "time_in_force">>,
   Rejected     |-> <<"account_id", "client_order_id", "instrument_id", "reason">>,
   Cancelled    |-> <<"account_id", "client_order_id", "exchange_order_id",
                      "instrument_id">>,
   Replaced     |-> <<"account_id", "original_client_order_id", "new_client_order_id",
                      "exchange_order_id", "instrument_id", "new_price",
                      "new_quantity">>,
   TradeReport  |-> <<"account_id", "client_order_id", "exchange_order_id",
                      "instrument_id", "price", "quantity", "remaining_quantity">>]

CommandEncoder ==
  [NewOrder     |-> <<"account_id", "client_order_id", "instrument_id", "side",
                      "price", "quantity", "order_type", "time_in_force">>,
   CancelOrder  |-> <<"account_id", "client_order_id", "instrument_id">>,
   ReplaceOrder |-> <<"account_id", "original_client_order_id", "new_client_order_id",
                      "instrument_id", "new_price", "new_quantity">>,
   RegisterInstrument |-> <<"instrument_id">>]

MarketDataEncoder ==
  [AddOrder    |-> <<"order_id", "instrument_id", "price", "quantity", "side">>,
   CancelOrder |-> <<"order_id", "instrument_id">>,
   ModifyOrder |-> <<"order_id", "instrument_id", "new_price", "new_quantity">>,
   Trade       |-> <<"instrument_id", "price", "quantity", "aggressor_side">>,
   ClearBook   |-> <<"instrument_id">>]

EncoderFields ==
  [order_entry |-> OrderEntryEncoder, command |-> CommandEncoder,
   market_data |-> MarketDataEncoder]

\* A message is a record of its type's name and its fields.
Encode(format, m) ==
  LET header == [field \in Range(HeaderFields[format]) |->
                   CASE field = "type" -> TypeCode[format][m.type]
                     [] field = "reserved" -> 0
                     [] field = "payload_size" -> PayloadSize[format][m.type]
                     [] OTHER -> m[field]]
  IN  PutFields(HeaderFields[format], header)
        \o PutFields(EncoderFields[format][m.type], m)
-----------------------------------------------------------------------------
(***************************************************************************)
(* What the decoders read.                                                 *)
(***************************************************************************)
OrderEntryDecoder ==
  [NewOrder     |-> <<"account_id", "client_order_id", "instrument_id", "side",
                      "price", "quantity", "order_type", "time_in_force">>,
   CancelOrder  |-> <<"account_id", "client_order_id", "instrument_id">>,
   ReplaceOrder |-> <<"account_id", "original_client_order_id", "new_client_order_id",
                      "instrument_id", "new_price", "new_quantity">>,
   Accepted     |-> <<"account_id", "client_order_id", "exchange_order_id",
                      "instrument_id", "side", "price", "quantity", "order_type",
                      "time_in_force">>,
   Rejected     |-> <<"account_id", "client_order_id", "instrument_id", "reason">>,
   Cancelled    |-> <<"account_id", "client_order_id", "exchange_order_id",
                      "instrument_id">>,
   Replaced     |-> <<"account_id", "original_client_order_id", "new_client_order_id",
                      "exchange_order_id", "instrument_id", "new_price",
                      "new_quantity">>,
   TradeReport  |-> <<"account_id", "client_order_id", "exchange_order_id",
                      "instrument_id", "price", "quantity", "remaining_quantity">>]

CommandDecoder ==
  [NewOrder     |-> <<"account_id", "client_order_id", "instrument_id", "side",
                      "price", "quantity", "order_type", "time_in_force">>,
   CancelOrder  |-> <<"account_id", "client_order_id", "instrument_id">>,
   ReplaceOrder |-> <<"account_id", "original_client_order_id", "new_client_order_id",
                      "instrument_id", "new_price", "new_quantity">>,
   RegisterInstrument |-> <<"instrument_id">>]

MarketDataDecoder ==
  [AddOrder    |-> <<"order_id", "instrument_id", "price", "quantity", "side">>,
   CancelOrder |-> <<"order_id", "instrument_id">>,
   ModifyOrder |-> <<"order_id", "instrument_id", "new_price", "new_quantity">>,
   Trade       |-> <<"instrument_id", "price", "quantity", "aggressor_side">>,
   ClearBook   |-> <<"instrument_id">>]

DecoderFields ==
  [order_entry |-> OrderEntryDecoder, command |-> CommandDecoder,
   market_data |-> MarketDataDecoder]

\* decode_header and decode_command_header.
DecodeHeader(format, bytes) ==
  LET head  == GetFields(HeaderFields[format], bytes)
      Known == {t \in MessageTypes(format) : TypeCode[format][t] = head.type}
  IN  IF Len(bytes) < HeaderSize(format) THEN [error |-> "TruncatedHeader"]
      ELSE IF format # "order_entry" /\ head.reserved # 0
           THEN [error |-> "InvalidReserved"]
      ELSE IF Known = {} THEN [error |-> "InvalidMessageType"]
      ELSE [error |-> "None", type |-> CHOOSE t \in Known : TRUE,
            frame_size |-> HeaderSize(format) + head.payload_size, head |-> head]

\* decode_message, decode_event and decode_journal_frame.
Decode(format, bytes) ==
  LET header == DecodeHeader(format, bytes)
      fields == DecoderFields[format][header.type]
      body   == GetFields(fields, SubSeq(bytes, HeaderSize(format) + 1, header.frame_size))
  IN  IF header.error # "None" THEN header
      ELSE IF header.frame_size # HeaderSize(format) + PayloadSize[format][header.type]
           THEN [error |-> "InvalidMessageSize"]
      ELSE IF Len(bytes) < header.frame_size THEN [error |-> "TruncatedPayload"]
      ELSE IF \E field \in Range(fields) : ~Valid(field, body[field])
           THEN [error |-> "InvalidField"]
      ELSE [error |-> "None",
            message |-> [field \in {"type"} \cup Range(fields) \cup Range(Hoisted[format]) |->
                           CASE field = "type" -> header.type
                             [] field \in Range(Hoisted[format]) -> header.head[field]
                             [] OTHER -> body[field]]]
=============================================================================
