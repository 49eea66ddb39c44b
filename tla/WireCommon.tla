----------------------------- MODULE WireCommon -----------------------------
(***************************************************************************)
(* The messages of sdk/node/src/gen/meta/v1/common.ts and                  *)
(* gen/google/protobuf: the values the other messages share. One table per *)
(* message, named as in the code; the functions generated for them are in  *)
(* Wire.                                                                   *)
(***************************************************************************)
EXTENDS Schema, Integers

\* Enums: the numbers xFromJSON and xToJSON know; any other is UNRECOGNIZED.
ErrorCategory == 0..11
TransportKind == 0..2
EncryptionKind == 0..2

Duration == {Field("seconds", 1, "int64"), Field("nanos", 2, "int32")}
Timestamp == {Field("seconds", 1, "int64"), Field("nanos", 2, "int32")}
ProtocolVersion == {Field("major", 1, "uint32"), Field("minor", 2, "uint32")}
BuildInfo ==
    {Field("version", 1, "string"), Field("commit", 2, "string"), Field("goVersion", 3, "string"),
     Field("os", 4, "string"), Field("arch", 5, "string")}
ErrorDetail ==
    {Field("category", 1, "ErrorCategory"), Field("code", 2, "string"),
     Field("message", 3, "string"), Field("retryable", 4, "bool"), Dict("details", 5)}
ErrorDetail_DetailsEntry == {Field("key", 1, "string"), Field("value", 2, "string")}
Account == {Field("id", 1, "string"), Field("name", 2, "string"), Field("username", 3, "string")}
ReplyReference == {Field("messageId", 1, "string"), Field("senderId", 2, "string")}
Mention == {Field("userId", 1, "string"), Field("offset", 2, "int32"), Field("length", 3, "int32")}
E2EEMediaReference ==
    {Field("kind", 1, "string"), Field("directPath", 2, "string"), Field("mediaKey", 3, "bytes"),
     Field("fileSha256", 4, "bytes"), Field("fileEncSha256", 5, "bytes"),
     Field("contentType", 6, "string"), Field("size", 7, "int64")}
Attachment ==
    {Field("id", 1, "string"), Field("type", 2, "string"), Field("url", 3, "string"),
     Field("previewUrl", 4, "string"), Field("fileName", 5, "string"),
     Field("contentType", 6, "string"), Field("size", 7, "int64"), Field("width", 8, "int32"),
     Field("height", 9, "int32"), Field("duration", 10, "int32"),
     Opt("e2ee", 11, "E2EEMediaReference")}
Message ==
    {Field("id", 1, "string"), Field("threadId", 2, "string"), Field("senderId", 3, "string"),
     Field("text", 4, "string"), Opt("timestamp", 5, "Date"), Opt("replyTo", 6, "ReplyReference"),
     Rep("mentions", 7, "Mention"), Rep("attachments", 8, "Attachment"),
     Field("encryption", 9, "EncryptionKind"), Field("transport", 10, "TransportKind")}
MediaChunk == {Field("data", 1, "bytes")}

CommonMessages ==
    {Duration, Timestamp, ProtocolVersion, BuildInfo, ErrorDetail, ErrorDetail_DetailsEntry,
     Account, ReplyReference, Mention, E2EEMediaReference, Attachment, Message, MediaChunk}
CommonEnums ==
    [ErrorCategory |-> ErrorCategory, TransportKind |-> TransportKind, EncryptionKind |-> EncryptionKind]
=============================================================================
