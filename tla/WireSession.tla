----------------------------- MODULE WireSession -----------------------------
(***************************************************************************)
(* The messages of sdk/node/src/gen/meta/v1/session.ts, runtime.ts and     *)
(* health.ts: sessions, the runtime itself and its health. One table per   *)
(* message, named as in the code; the functions generated for them are in  *)
(* Wire.                                                                   *)
(***************************************************************************)
EXTENDS Schema, Integers

\* Enums: the numbers xFromJSON and xToJSON know; any other is UNRECOGNIZED.
ConnectionState == 0..4

HealthSnapshot ==
    {Field("regular", 1, "ConnectionState"), Field("e2ee", 2, "ConnectionState"),
     Field("reconnectCount", 3, "uint64"), Field("engineDroppedEventCount", 4, "uint64"),
     Field("subscriberDroppedEventCount", 5, "uint64"), Opt("lastSuccessfulSend", 6, "Date"),
     Opt("lastReceive", 7, "Date"), Field("lastErrorCategory", 8, "string")}
GetInfoRequest == {}
GetInfoResponse ==
    {Opt("protocol", 1, "ProtocolVersion"), Opt("build", 2, "BuildInfo"),
     Rep("capabilities", 3, "string")}
CreateSessionRequest ==
    {Dict("cookies", 1), Field("e2ee", 2, "bool"), Field("eventBuffer", 3, "uint32"),
     Opt("timeout", 4, "Duration"), Opt("auth", 5, "SessionAuth")}
CreateSessionRequest_CookiesEntry == {Field("key", 1, "string"), Field("value", 2, "string")}
CreateSessionResponse == {Field("sessionId", 1, "string")}
ConnectRequest == {Field("sessionId", 1, "string")}
ConnectResponse == {Opt("account", 1, "Account")}
Credentials ==
    {Field("identifier", 1, "string"), Field("password", 2, "string"),
     Case("secondFactor", "totp", 3, "string"), Case("secondFactor", "otp", 4, "string")}
AppStateCookie ==
    {Field("key", 1, "string"), Field("value", 2, "string"), Field("domain", 3, "string"),
     Field("path", 4, "string"), Field("hostOnly", 5, "bool"), Field("secure", 6, "bool"),
     Field("httpOnly", 7, "bool")}
AppState == {Rep("cookies", 1, "AppStateCookie")}
CookieMap == {Dict("values", 1)}
CookieMap_ValuesEntry == {Field("key", 1, "string"), Field("value", 2, "string")}
SessionAuth ==
    {Case("source", "cookies", 1, "CookieMap"), Case("source", "appState", 2, "AppState"),
     Case("source", "credentials", 3, "Credentials")}
FacebookSession ==
    {Field("accountId", 1, "string"), Field("name", 2, "string"), Field("username", 3, "string"),
     Field("dtsg", 4, "string"), Field("jazoest", 5, "string"), Field("lsd", 6, "string"),
     Field("sessionId", 7, "string"), Field("clientRevision", 8, "int64"),
     Opt("refreshedAt", 9, "Date")}
AuthSnapshot ==
    {Opt("cookies", 1, "CookieMap"), Opt("appState", 2, "AppState"),
     Opt("session", 3, "FacebookSession")}
RefreshAuthRequest == {Field("sessionId", 1, "string"), Opt("auth", 2, "SessionAuth")}
RefreshAuthResponse == {Opt("snapshot", 1, "AuthSnapshot")}
GetAuthSnapshotRequest == {Field("sessionId", 1, "string")}
GetAuthSnapshotResponse == {Opt("snapshot", 1, "AuthSnapshot")}
CloseSessionRequest == {Field("sessionId", 1, "string")}
CloseSessionResponse == {}
GetHealthRequest == {Field("sessionId", 1, "string")}
GetHealthResponse == {Opt("health", 1, "HealthSnapshot")}
SubscribeEventsRequest == {Field("sessionId", 1, "string"), Field("buffer", 2, "uint32")}
SubscribeEventsResponse == {Opt("event", 1, "Event")}

SessionMessages ==
    {HealthSnapshot, GetInfoRequest, GetInfoResponse, CreateSessionRequest,
     CreateSessionRequest_CookiesEntry, CreateSessionResponse, ConnectRequest, ConnectResponse,
     Credentials, AppStateCookie, AppState, CookieMap, CookieMap_ValuesEntry, SessionAuth,
     FacebookSession, AuthSnapshot, RefreshAuthRequest, RefreshAuthResponse,
     GetAuthSnapshotRequest, GetAuthSnapshotResponse, CloseSessionRequest, CloseSessionResponse,
     GetHealthRequest, GetHealthResponse, SubscribeEventsRequest, SubscribeEventsResponse}
SessionEnums ==
    [ConnectionState |-> ConnectionState]
=============================================================================
