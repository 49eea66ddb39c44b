----------------------------- MODULE WireFacebook -----------------------------
(***************************************************************************)
(* The messages of sdk/node/src/gen/meta/v1/facebook.ts: the Facebook      *)
(* service. One table per message, named as in the code; the functions     *)
(* generated for them are in Wire.                                         *)
(***************************************************************************)
EXTENDS Schema, Integers

\* Enums: the numbers xFromJSON and xToJSON know; any other is UNRECOGNIZED.
FacebookPostOwnership == 0..2

FacebookUser ==
    {Field("id", 1, "string"), Field("name", 2, "string"), Field("firstName", 3, "string"),
     Field("username", 4, "string"), Field("profileUrl", 5, "string"),
     Field("avatarUrl", 6, "string"), Field("gender", 7, "string"),
     Field("alternateName", 8, "string"), Field("nonFriend", 9, "bool")}
FacebookSearchResult ==
    {Field("id", 1, "string"), Field("name", 2, "string"), Field("url", 3, "string")}
FacebookNotification ==
    {Field("id", 1, "string"), Field("text", 2, "string"), Field("url", 3, "string"),
     Opt("timestamp", 4, "Date")}
FacebookPost == {Field("id", 1, "string"), Field("url", 2, "string")}
MarketplaceLocation ==
    {Field("latitude", 1, "double"), Field("longitude", 2, "double"), Field("name", 3, "string")}
MarketplaceListingInput ==
    {Field("title", 1, "string"), Field("brand", 2, "string"), Field("price", 3, "string"),
     Field("currency", 4, "string"), Field("description", 5, "string"),
     Rep("hashtags", 6, "string"), Field("category", 7, "string"), Rep("photoIds", 8, "string"),
     Opt("location", 9, "MarketplaceLocation")}
MarketplaceListing ==
    {Field("id", 1, "string"), Field("title", 2, "string"), Field("description", 3, "string"),
     Field("price", 4, "string"), Field("currency", 5, "string"), Opt("seller", 6, "FacebookUser"),
     Opt("location", 7, "MarketplaceLocation"), Field("url", 8, "string"),
     Opt("createdAt", 9, "Date")}
FacebookServiceGetUserRequest == {Field("sessionId", 1, "string"), Field("userId", 2, "string")}
FacebookServiceGetUserResponse == {Opt("user", 1, "FacebookUser")}
FacebookServiceSearchRequest ==
    {Field("sessionId", 1, "string"), Field("query", 2, "string"), Field("limit", 3, "int32")}
FacebookServiceSearchResponse == {Rep("results", 1, "FacebookSearchResult")}
FacebookServiceListNotificationsRequest ==
    {Field("sessionId", 1, "string"), Field("limit", 2, "int32")}
FacebookServiceListNotificationsResponse == {Rep("notifications", 1, "FacebookNotification")}
FacebookServiceSetBioRequest ==
    {Field("sessionId", 1, "string"), Field("bio", 2, "string"),
     Field("publishFeedStory", 3, "bool")}
FacebookServiceSetBioResponse == {}
FacebookServiceCreateAdditionalProfileRequest ==
    {Field("sessionId", 1, "string"), Field("name", 2, "string"), Field("username", 3, "string")}
FacebookServiceCreateAdditionalProfileResponse == {}
FacebookServiceUnfriendRequest == {Field("sessionId", 1, "string"), Field("userId", 2, "string")}
FacebookServiceUnfriendResponse == {}
FacebookServiceSetBlockedRequest ==
    {Field("sessionId", 1, "string"), Field("userId", 2, "string"), Field("blocked", 3, "bool")}
FacebookServiceSetBlockedResponse == {}
FacebookServiceCreatePostRequest == {Field("sessionId", 1, "string"), Field("text", 2, "string")}
FacebookServiceCreatePostResponse == {Opt("post", 1, "FacebookPost")}
FacebookServiceArchivePostRequest ==
    {Field("sessionId", 1, "string"), Field("postId", 2, "string"),
     Field("ownership", 3, "FacebookPostOwnership")}
FacebookServiceArchivePostResponse == {}
FacebookServiceDeletePostRequest ==
    {Field("sessionId", 1, "string"), Field("postId", 2, "string"),
     Field("ownership", 3, "FacebookPostOwnership")}
FacebookServiceDeletePostResponse == {}
FacebookServiceCreateMarketplaceListingRequest ==
    {Field("sessionId", 1, "string"), Opt("listing", 2, "MarketplaceListingInput")}
FacebookServiceCreateMarketplaceListingResponse == {Opt("listing", 1, "MarketplaceListing")}
FacebookServiceGetMarketplaceListingRequest ==
    {Field("sessionId", 1, "string"), Field("listingId", 2, "string")}
FacebookServiceGetMarketplaceListingResponse == {Opt("listing", 1, "MarketplaceListing")}
FacebookServiceSetProfessionalModeRequest ==
    {Field("sessionId", 1, "string"), Field("enabled", 2, "bool")}
FacebookServiceSetProfessionalModeResponse == {}

FacebookMessages ==
    {FacebookUser, FacebookSearchResult, FacebookNotification, FacebookPost, MarketplaceLocation,
     MarketplaceListingInput, MarketplaceListing, FacebookServiceGetUserRequest,
     FacebookServiceGetUserResponse, FacebookServiceSearchRequest, FacebookServiceSearchResponse,
     FacebookServiceListNotificationsRequest, FacebookServiceListNotificationsResponse,
     FacebookServiceSetBioRequest, FacebookServiceSetBioResponse,
     FacebookServiceCreateAdditionalProfileRequest, FacebookServiceCreateAdditionalProfileResponse,
     FacebookServiceUnfriendRequest, FacebookServiceUnfriendResponse,
     FacebookServiceSetBlockedRequest, FacebookServiceSetBlockedResponse,
     FacebookServiceCreatePostRequest, FacebookServiceCreatePostResponse,
     FacebookServiceArchivePostRequest, FacebookServiceArchivePostResponse,
     FacebookServiceDeletePostRequest, FacebookServiceDeletePostResponse,
     FacebookServiceCreateMarketplaceListingRequest,
     FacebookServiceCreateMarketplaceListingResponse, FacebookServiceGetMarketplaceListingRequest,
     FacebookServiceGetMarketplaceListingResponse, FacebookServiceSetProfessionalModeRequest,
     FacebookServiceSetProfessionalModeResponse}
FacebookEnums ==
    [FacebookPostOwnership |-> FacebookPostOwnership]
=============================================================================
