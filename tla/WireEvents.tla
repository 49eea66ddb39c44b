----------------------------- MODULE WireEvents -----------------------------
(***************************************************************************)
(* The messages of sdk/node/src/gen/meta/v1/events.ts: the event stream.   *)
(* One table per message, named as in the code; the functions generated    *)
(* for them are in Wire.                                                   *)
(***************************************************************************)
EXTENDS Schema, Integers

\* Enums: the numbers xFromJSON and xToJSON know; any other is UNRECOGNIZED.
ThreadSystemKind == 0..9

Event ==
    {Field("sessionId", 1, "string"), Field("sequence", 2, "uint64"), Opt("emittedAt", 3, "Date"),
     Case("payload", "ready", 10, "ReadyEvent"),
     Case("payload", "reconnected", 11, "ReconnectedEvent"),
     Case("payload", "disconnected", 12, "DisconnectedEvent"),
     Case("payload", "error", 13, "ErrorEvent"), Case("payload", "message", 14, "MessageEvent"),
     Case("payload", "reaction", 15, "ReactionEvent"),
     Case("payload", "typing", 16, "TypingEvent"),
     Case("payload", "readReceipt", 17, "ReadReceiptEvent"),
     Case("payload", "deliveryReceipt", 18, "DeliveryReceiptEvent"),
     Case("payload", "messageEdit", 19, "MessageEditEvent"),
     Case("payload", "messageUnsend", 20, "MessageUnsendEvent"),
     Case("payload", "threadUpdate", 21, "ThreadUpdateEvent"),
     Case("payload", "e2eeReady", 22, "E2EEReadyEvent"),
     Case("payload", "e2eeReceipt", 23, "E2EEReceiptEvent"),
     Case("payload", "threadSystem", 24, "ThreadSystemEvent")}
ReadyEvent == {Field("isNewSession", 1, "bool")}
ReconnectedEvent == {}
DisconnectedEvent == {Field("transport", 1, "TransportKind")}
ErrorEvent == {Opt("error", 1, "ErrorDetail")}
MessageEvent == {Opt("message", 1, "Message")}
ReactionEvent ==
    {Field("messageId", 1, "string"), Field("threadId", 2, "string"),
     Field("actorId", 3, "string"), Field("reaction", 4, "string")}
TypingEvent ==
    {Field("threadId", 1, "string"), Field("senderId", 2, "string"), Field("typing", 3, "bool")}
ReadReceiptEvent ==
    {Field("threadId", 1, "string"), Field("readerId", 2, "string"), Opt("watermark", 3, "Date")}
DeliveryReceiptEvent ==
    {Field("threadId", 1, "string"), Field("recipientId", 2, "string"), Opt("watermark", 3, "Date")}
MessageEditEvent ==
    {Field("messageId", 1, "string"), Field("text", 2, "string"), Field("editCount", 3, "int64")}
MessageUnsendEvent == {Field("messageId", 1, "string"), Field("threadId", 2, "string")}
ThreadUpdateEvent ==
    {Field("threadId", 1, "string"), Field("field", 2, "string"), Field("value", 3, "string")}
ThreadSystemEvent ==
    {Field("kind", 1, "ThreadSystemKind"), Field("threadId", 2, "string"),
     Field("participantId", 3, "string"), Field("messageId", 4, "string"),
     Field("pollId", 5, "string"), Field("nickname", 6, "string"), Field("emoji", 7, "string"),
     Field("enabled", 8, "bool"), Field("pinned", 9, "bool"), Field("isAdmin", 10, "bool")}
E2EEReadyEvent == {}
E2EEReceiptEvent ==
    {Field("type", 1, "string"), Field("chatJid", 2, "string"), Field("senderJid", 3, "string"),
     Rep("messageIds", 4, "string")}

EventsMessages ==
    {Event, ReadyEvent, ReconnectedEvent, DisconnectedEvent, ErrorEvent, MessageEvent,
     ReactionEvent, TypingEvent, ReadReceiptEvent, DeliveryReceiptEvent, MessageEditEvent,
     MessageUnsendEvent, ThreadUpdateEvent, ThreadSystemEvent, E2EEReadyEvent, E2EEReceiptEvent}
EventsEnums ==
    [ThreadSystemKind |-> ThreadSystemKind]
=============================================================================
