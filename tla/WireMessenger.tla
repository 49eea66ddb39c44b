----------------------------- MODULE WireMessenger -----------------------------
(***************************************************************************)
(* The messages of sdk/node/src/gen/meta/v1/messenger.ts: the Messenger    *)
(* service. One table per message, named as in the code; the functions     *)
(* generated for them are in Wire.                                         *)
(***************************************************************************)
EXTENDS Schema, Integers

\* Enums: the numbers xFromJSON and xToJSON know; any other is UNRECOGNIZED.
EncryptionPolicy == 0..3
MessengerBlockStatus == 0..4

User ==
    {Field("id", 1, "string"), Field("name", 2, "string"), Field("firstName", 3, "string"),
     Field("username", 4, "string"), Field("profileUrl", 5, "string"),
     Field("avatarUrl", 6, "string"), Field("gender", 7, "string"),
     Field("isMessengerUser", 8, "bool"), Field("isVerified", 9, "bool"),
     Field("canViewerMessage", 10, "bool"), Field("messengerRestricted", 11, "bool"),
     Field("messengerBlockStatus", 12, "MessengerBlockStatus")}
Thread ==
    {Field("id", 1, "string"), Field("name", 2, "string"), Field("type", 3, "string"),
     Rep("participants", 4, "User"), Rep("admins", 5, "string"), Dict("nicknames", 6),
     Field("emoji", 7, "string"), Field("messageCount", 8, "int64"),
     Field("approvalMode", 9, "bool"), Field("joinable", 10, "bool"),
     Field("joinableUrl", 11, "string"), Opt("lastActivity", 12, "Date")}
Thread_NicknamesEntry == {Field("key", 1, "string"), Field("value", 2, "string")}
PinnedMessage ==
    {Field("threadId", 1, "string"), Field("messageId", 2, "string"), Opt("pinnedAt", 3, "Date"),
     Field("authorityLevel", 4, "int64")}
PollOption ==
    {Field("id", 1, "string"), Field("text", 2, "string"),
     Opt("sortKeyVotingTimestamp", 3, "Date"), Opt("sortKeyCreationTimestamp", 4, "Date")}
PollVote ==
    {Field("optionId", 1, "string"), Field("contactId", 2, "string"), Opt("timestamp", 3, "Date"),
     Field("voteCount", 4, "int64"), Field("threadId", 5, "string"),
     Field("messageId", 6, "string")}
PollDetails ==
    {Field("id", 1, "string"), Field("threadId", 2, "string"), Field("title", 3, "string"),
     Field("lastUpdateMessageId", 4, "string"), Opt("lastUpdateMessageTimestamp", 5, "Date"),
     Field("lastUpdateMessageEventType", 6, "int64"), Rep("options", 7, "PollOption"),
     Rep("votes", 8, "PollVote")}
MessageSearchHighlight == {Field("offset", 1, "int32"), Field("length", 2, "int32")}
MessageSearchResult ==
    {Field("messageId", 1, "string"), Field("threadId", 2, "string"),
     Field("threadType", 3, "string"), Field("globalIndex", 4, "int64"),
     Field("senderName", 5, "string"), Field("senderAvatarUrl", 6, "string"),
     Opt("timestamp", 7, "Date"), Field("text", 8, "string"),
     Rep("highlights", 9, "MessageSearchHighlight")}
MessageRequest ==
    {Field("senderId", 1, "string"), Field("snippet", 2, "string"), Opt("timestamp", 3, "Date")}
Theme ==
    {Field("id", 1, "string"), Field("name", 2, "string"), Field("description", 3, "string"),
     Field("appColorMode", 4, "string"), Field("composerBackgroundColor", 5, "string"),
     Rep("backgroundGradientColors", 6, "string"), Field("titleBarButtonTintColor", 7, "string"),
     Rep("inboundMessageGradientColors", 8, "string"), Field("titleBarTextColor", 9, "string"),
     Field("composerTintColor", 10, "string"), Field("titleBarAttributionColor", 11, "string"),
     Field("composerInputBackgroundColor", 12, "string"), Field("hotLikeColor", 13, "string"),
     Field("backgroundImage", 14, "string"), Field("messageTextColor", 15, "string"),
     Field("inboundMessageTextColor", 16, "string"),
     Field("primaryButtonBackgroundColor", 17, "string"),
     Field("titleBarBackgroundColor", 18, "string"), Field("tertiaryTextColor", 19, "string"),
     Field("reactionPillBackgroundColor", 20, "string"), Field("secondaryTextColor", 21, "string"),
     Field("fallbackColor", 22, "string"), Rep("gradientColors", 23, "string"),
     Field("normalThemeId", 24, "string"), Field("iconAsset", 25, "string")}
Note == {Field("id", 1, "string"), Field("description", 2, "string")}
SendRequest ==
    {Field("sessionId", 1, "string"), Field("threadId", 2, "string"), Field("text", 3, "string"),
     Opt("replyTo", 4, "ReplyReference"), Rep("mentions", 5, "Mention"),
     Field("stickerId", 6, "string"), Field("url", 7, "string"),
     Field("encryption", 8, "EncryptionPolicy"), Rep("attachmentIds", 9, "string")}
SendResponse == {Field("messageId", 1, "string"), Opt("timestamp", 2, "Date")}
UploadMetadata ==
    {Field("sessionId", 1, "string"), Field("threadId", 2, "string"), Field("name", 3, "string"),
     Field("contentType", 4, "string"), Field("size", 5, "int64"), Field("voice", 6, "bool"),
     Field("sha256", 7, "bytes")}
UploadRequest ==
    {Case("payload", "metadata", 1, "UploadMetadata"), Case("payload", "chunk", 2, "MediaChunk")}
UploadResponse ==
    {Field("id", 1, "string"), Field("name", 2, "string"), Field("contentType", 3, "string"),
     Field("type", 4, "string"), Field("sha256", 5, "bytes")}
ForwardRequest ==
    {Field("sessionId", 1, "string"), Field("threadId", 2, "string"),
     Field("messageId", 3, "string")}
ForwardResponse == {Field("messageId", 1, "string"), Opt("timestamp", 2, "Date")}
ShareContactRequest ==
    {Field("sessionId", 1, "string"), Field("threadId", 2, "string"),
     Field("contactId", 3, "string"), Field("text", 4, "string")}
ShareContactResponse == {}
ReactRequest ==
    {Field("sessionId", 1, "string"), Field("threadId", 2, "string"),
     Field("messageId", 3, "string"), Field("reaction", 4, "string")}
ReactResponse == {}
EditRequest ==
    {Field("sessionId", 1, "string"), Field("messageId", 2, "string"), Field("text", 3, "string")}
EditResponse == {}
UnsendRequest == {Field("sessionId", 1, "string"), Field("messageId", 2, "string")}
UnsendResponse == {}
SetTypingRequest ==
    {Field("sessionId", 1, "string"), Field("threadId", 2, "string"), Field("typing", 3, "bool"),
     Field("group", 4, "bool"), Field("threadType", 5, "int64")}
SetTypingResponse == {}
MarkReadRequest ==
    {Field("sessionId", 1, "string"), Field("threadId", 2, "string"), Opt("watermark", 3, "Date")}
MarkReadResponse == {}
ListMessageRequestsRequest == {Field("sessionId", 1, "string")}
ListMessageRequestsResponse == {Rep("requests", 1, "MessageRequest")}
ListThemesRequest == {Field("sessionId", 1, "string")}
ListThemesResponse == {Rep("themes", 1, "Theme")}
FindThemeRequest == {Field("sessionId", 1, "string"), Field("query", 2, "string")}
FindThemeResponse == {Opt("theme", 1, "Theme")}
SetThemeRequest ==
    {Field("sessionId", 1, "string"), Field("threadId", 2, "string"), Field("themeId", 3, "string")}
SetThemeResponse == {}
GetCurrentNoteRequest == {Field("sessionId", 1, "string")}
GetCurrentNoteResponse == {Opt("note", 1, "Note")}
CreateNoteRequest ==
    {Field("sessionId", 1, "string"), Field("text", 2, "string"), Field("privacy", 3, "string")}
CreateNoteResponse == {Opt("note", 1, "Note")}
DeleteNoteRequest == {Field("sessionId", 1, "string"), Field("noteId", 2, "string")}
DeleteNoteResponse == {}
RecreateNoteRequest ==
    {Field("sessionId", 1, "string"), Field("oldNoteId", 2, "string"), Field("text", 3, "string"),
     Field("privacy", 4, "string")}
RecreateNoteResponse == {Opt("note", 1, "Note")}
SetRestrictedRequest ==
    {Field("sessionId", 1, "string"), Field("userId", 2, "string"), Field("restricted", 3, "bool")}
SetRestrictedResponse == {}
SetMessageBlockedRequest ==
    {Field("sessionId", 1, "string"), Field("userId", 2, "string"), Field("blocked", 3, "bool")}
SetMessageBlockedResponse == {}
ListThreadsRequest == {Field("sessionId", 1, "string"), Field("limit", 2, "int32")}
ListThreadsResponse == {Rep("threads", 1, "Thread"), Field("syncSequenceId", 2, "int64")}
GetThreadRequest == {Field("sessionId", 1, "string"), Field("threadId", 2, "string")}
GetThreadResponse == {Opt("thread", 1, "Thread")}
CreatePollRequest ==
    {Field("sessionId", 1, "string"), Field("threadId", 2, "string"),
     Field("question", 3, "string"), Rep("options", 4, "string")}
CreatePollResponse == {}
VotePollRequest ==
    {Field("sessionId", 1, "string"), Field("threadId", 2, "string"), Field("pollId", 3, "string"),
     Rep("optionIds", 4, "string")}
VotePollResponse == {}
ListPinnedMessagesRequest == {Field("sessionId", 1, "string"), Field("threadId", 2, "string")}
ListPinnedMessagesResponse == {Rep("messages", 1, "PinnedMessage")}
GetPollDetailsRequest == {Field("sessionId", 1, "string"), Field("pollId", 2, "string")}
GetPollDetailsResponse == {Opt("poll", 1, "PollDetails")}
SearchMessagesRequest ==
    {Field("sessionId", 1, "string"), Field("threadId", 2, "string"), Field("query", 3, "string"),
     Opt("cursor", 4, "string")}
SearchMessagesResponse ==
    {Rep("results", 1, "MessageSearchResult"), Field("resultCount", 2, "int64"),
     Field("hasNextPage", 3, "bool"), Opt("nextCursor", 4, "string")}
MuteThreadRequest ==
    {Field("sessionId", 1, "string"), Field("threadId", 2, "string"),
     Opt("duration", 3, "Duration"), Field("indefinitely", 4, "bool")}
MuteThreadResponse == {}
MuteThreadCallsRequest ==
    {Field("sessionId", 1, "string"), Field("threadId", 2, "string"),
     Opt("duration", 3, "Duration"), Field("indefinitely", 4, "bool")}
MuteThreadCallsResponse == {}
SetApprovalModeRequest ==
    {Field("sessionId", 1, "string"), Field("threadId", 2, "string"), Field("enabled", 3, "bool")}
SetApprovalModeResponse == {}
SetArchivedRequest ==
    {Field("sessionId", 1, "string"), Field("threadId", 2, "string"), Field("archived", 3, "bool")}
SetArchivedResponse == {}
SetMessagePinnedRequest ==
    {Field("sessionId", 1, "string"), Field("threadId", 2, "string"),
     Field("messageId", 3, "string"), Field("pinned", 4, "bool")}
SetMessagePinnedResponse == {}
SetThreadPhotoMetadata ==
    {Field("sessionId", 1, "string"), Field("threadId", 2, "string"), Field("name", 3, "string"),
     Field("contentType", 4, "string"), Field("size", 5, "int64"), Field("sha256", 6, "bytes")}
SetThreadPhotoRequest ==
    {Case("payload", "metadata", 1, "SetThreadPhotoMetadata"),
     Case("payload", "chunk", 2, "MediaChunk")}
SetThreadPhotoResponse == {Field("sha256", 1, "bytes")}
DeleteThreadRequest == {Field("sessionId", 1, "string"), Field("threadId", 2, "string")}
DeleteThreadResponse == {}
CreateDMRequest == {Field("sessionId", 1, "string"), Field("userId", 2, "string")}
CreateDMResponse == {Field("threadId", 1, "string")}
SearchUsersRequest == {Field("sessionId", 1, "string"), Field("query", 2, "string")}
SearchUsersResponse == {Rep("users", 1, "User")}
GetContactRequest == {Field("sessionId", 1, "string"), Field("userId", 2, "string")}
GetContactResponse == {Opt("user", 1, "User")}
SetAdminRequest ==
    {Field("sessionId", 1, "string"), Field("threadId", 2, "string"), Field("userId", 3, "string"),
     Field("admin", 4, "bool")}
SetAdminResponse == {}
SetThreadNameRequest ==
    {Field("sessionId", 1, "string"), Field("threadId", 2, "string"), Field("name", 3, "string")}
SetThreadNameResponse == {}
SetThreadEmojiRequest ==
    {Field("sessionId", 1, "string"), Field("threadId", 2, "string"), Field("emoji", 3, "string")}
SetThreadEmojiResponse == {}
SetNicknameRequest ==
    {Field("sessionId", 1, "string"), Field("threadId", 2, "string"), Field("userId", 3, "string"),
     Field("nickname", 4, "string")}
SetNicknameResponse == {}

MessengerMessages ==
    {User, Thread, Thread_NicknamesEntry, PinnedMessage, PollOption, PollVote, PollDetails,
     MessageSearchHighlight, MessageSearchResult, MessageRequest, Theme, Note, SendRequest,
     SendResponse, UploadMetadata, UploadRequest, UploadResponse, ForwardRequest, ForwardResponse,
     ShareContactRequest, ShareContactResponse, ReactRequest, ReactResponse, EditRequest,
     EditResponse, UnsendRequest, UnsendResponse, SetTypingRequest, SetTypingResponse,
     MarkReadRequest, MarkReadResponse, ListMessageRequestsRequest, ListMessageRequestsResponse,
     ListThemesRequest, ListThemesResponse, FindThemeRequest, FindThemeResponse, SetThemeRequest,
     SetThemeResponse, GetCurrentNoteRequest, GetCurrentNoteResponse, CreateNoteRequest,
     CreateNoteResponse, DeleteNoteRequest, DeleteNoteResponse, RecreateNoteRequest,
     RecreateNoteResponse, SetRestrictedRequest, SetRestrictedResponse, SetMessageBlockedRequest,
     SetMessageBlockedResponse, ListThreadsRequest, ListThreadsResponse, GetThreadRequest,
     GetThreadResponse, CreatePollRequest, CreatePollResponse, VotePollRequest, VotePollResponse,
     ListPinnedMessagesRequest, ListPinnedMessagesResponse, GetPollDetailsRequest,
     GetPollDetailsResponse, SearchMessagesRequest, SearchMessagesResponse, MuteThreadRequest,
     MuteThreadResponse, MuteThreadCallsRequest, MuteThreadCallsResponse, SetApprovalModeRequest,
     SetApprovalModeResponse, SetArchivedRequest, SetArchivedResponse, SetMessagePinnedRequest,
     SetMessagePinnedResponse, SetThreadPhotoMetadata, SetThreadPhotoRequest,
     SetThreadPhotoResponse, DeleteThreadRequest, DeleteThreadResponse, CreateDMRequest,
     CreateDMResponse, SearchUsersRequest, SearchUsersResponse, GetContactRequest,
     GetContactResponse, SetAdminRequest, SetAdminResponse, SetThreadNameRequest,
     SetThreadNameResponse, SetThreadEmojiRequest, SetThreadEmojiResponse, SetNicknameRequest,
     SetNicknameResponse}
MessengerEnums ==
    [EncryptionPolicy |-> EncryptionPolicy, MessengerBlockStatus |-> MessengerBlockStatus]
=============================================================================
