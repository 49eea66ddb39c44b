----------------------------- MODULE WireE2EE -----------------------------
(***************************************************************************)
(* The messages of sdk/node/src/gen/meta/v1/e2ee.ts: the E2EE service. One *)
(* table per message, named as in the code; the functions generated for    *)
(* them are in Wire.                                                       *)
(***************************************************************************)
EXTENDS Schema, Integers

\* Enums: the numbers xFromJSON and xToJSON know; any other is UNRECOGNIZED.
E2EEMediaKind == 0..5

E2EEServiceSendTextRequest ==
    {Field("sessionId", 1, "string"), Field("chatJid", 2, "string"),
     Field("facebookUserId", 3, "string"), Field("text", 4, "string"),
     Field("replyTo", 5, "string"), Field("replySenderJid", 6, "string")}
E2EEServiceSendTextResponse == {Field("messageId", 1, "string"), Opt("timestamp", 2, "Date")}
E2EEServiceSendMediaMetadata ==
    {Field("sessionId", 1, "string"), Field("chatJid", 2, "string"),
     Field("facebookUserId", 3, "string"), Field("kind", 4, "E2EEMediaKind"),
     Field("name", 5, "string"), Field("contentType", 6, "string"), Field("size", 7, "int64"),
     Field("caption", 8, "string"), Field("width", 9, "int32"), Field("height", 10, "int32"),
     Field("duration", 11, "int32"), Field("voice", 12, "bool"), Field("replyTo", 13, "string"),
     Field("replySenderJid", 14, "string"), Field("sha256", 15, "bytes")}
E2EEServiceSendMediaRequest ==
    {Case("payload", "metadata", 1, "E2EEServiceSendMediaMetadata"),
     Case("payload", "chunk", 2, "MediaChunk")}
E2EEServiceSendMediaResponse ==
    {Field("messageId", 1, "string"), Opt("timestamp", 2, "Date"), Field("sha256", 3, "bytes")}
E2EEServiceDownloadMediaRequest ==
    {Field("sessionId", 1, "string"), Opt("reference", 2, "E2EEMediaReference")}
E2EEServiceDownloadMediaMetadata ==
    {Field("size", 1, "int64"), Field("contentType", 2, "string"), Field("sha256", 3, "bytes")}
E2EEServiceDownloadMediaResponse ==
    {Case("payload", "metadata", 1, "E2EEServiceDownloadMediaMetadata"),
     Case("payload", "chunk", 2, "MediaChunk")}
E2EEServiceReactRequest ==
    {Field("sessionId", 1, "string"), Field("chatJid", 2, "string"),
     Field("messageId", 3, "string"), Field("senderJid", 4, "string"),
     Field("reaction", 5, "string")}
E2EEServiceReactResponse == {}
E2EEServiceEditRequest ==
    {Field("sessionId", 1, "string"), Field("chatJid", 2, "string"),
     Field("messageId", 3, "string"), Field("text", 4, "string")}
E2EEServiceEditResponse == {}
E2EEServiceUnsendRequest ==
    {Field("sessionId", 1, "string"), Field("chatJid", 2, "string"),
     Field("messageId", 3, "string")}
E2EEServiceUnsendResponse == {}
E2EEServiceSetTypingRequest ==
    {Field("sessionId", 1, "string"), Field("chatJid", 2, "string"), Field("typing", 3, "bool")}
E2EEServiceSetTypingResponse == {}
E2EEServiceMarkReadRequest ==
    {Field("sessionId", 1, "string"), Field("chatJid", 2, "string"),
     Field("senderJid", 3, "string"), Rep("messageIds", 4, "string"), Opt("timestamp", 5, "Date")}
E2EEServiceMarkReadResponse == {}

E2EEMessages ==
    {E2EEServiceSendTextRequest, E2EEServiceSendTextResponse, E2EEServiceSendMediaMetadata,
     E2EEServiceSendMediaRequest, E2EEServiceSendMediaResponse, E2EEServiceDownloadMediaRequest,
     E2EEServiceDownloadMediaMetadata, E2EEServiceDownloadMediaResponse, E2EEServiceReactRequest,
     E2EEServiceReactResponse, E2EEServiceEditRequest, E2EEServiceEditResponse,
     E2EEServiceUnsendRequest, E2EEServiceUnsendResponse, E2EEServiceSetTypingRequest,
     E2EEServiceSetTypingResponse, E2EEServiceMarkReadRequest, E2EEServiceMarkReadResponse}
E2EEEnums ==
    [E2EEMediaKind |-> E2EEMediaKind]
=============================================================================
