---------------------------- MODULE WebToolStream ----------------------------
(***************************************************************************)
(* A message request from its arrival (ClaudeProxyService.create_message,  *)
(* src/api/services.py) to the end of a response that the proxy makes      *)
(* itself: the local web_search and web_fetch tools (src/api/web_tools).   *)
(* A fetch follows redirects by hand; before each hop it resolves the host *)
(* and checks every address, and it connects to a checked address only.    *)
(***************************************************************************)
EXTENDS StreamContract, Integers, FiniteSets

CONSTANTS Public, Private,   \* addresses, by ipaddress.is_global
          MaxRedirects,      \* _MAX_WEB_FETCH_REDIRECTS
          MaxBody            \* _MAX_WEB_FETCH_RESPONSE_BYTES, in units of chunks

ASSUME WebAssumption == Public \cap Private = {} /\ MaxRedirects \in Nat /\ MaxBody \in Nat

VARIABLES
    request,      \* the request, with the settings and the provider it is routed to
    web,          \* where create_message and the web tool stand
    target,       \* the URL of this hop
    checked,      \* the addresses it was resolved to
    address,      \* the one connected to
    hops,         \* connections made
    body,         \* size of the response read
    webOut,       \* events yielded and not yet received
    webClient     \* what the client has received

webVars == <<request, web, target, checked, address, hops, body, webOut, webClient>>

Addresses == Public \cup Private

\* An IP address as host is known by itself; a "local" host is localhost or
\* ends with .localhost or .local.
Urls == [scheme : {"allowed", "other"}, host : {"missing", "local", "name"} \cup Addresses]

\* named: a listed tool has the forced name; listed: any listed tool is a
\* server tool; canned: an enabled optimization matches the request.
Requests == {r \in [messages : BOOLEAN, openaiChat : BOOLEAN, forced : {"no", "search", "fetch"},
                    named : BOOLEAN, listed : BOOLEAN, canned : BOOLEAN,
                    webTools : BOOLEAN, private : BOOLEAN] :
               r.named => r.listed /\ r.forced # "no"}

WebInit ==
    /\ request \in Requests /\ web = "arrived"
    /\ target = [scheme |-> "other", host |-> "missing"] /\ checked = {} /\ address = "none"
    /\ hops = 0 /\ body = 0
    /\ webOut = <<>> /\ webClient = NewClient

fetchVars == <<target, checked, address, hops, body>>

-----------------------------------------------------------------------------
(* create_message.                                                         *)

\* openai_chat_upstream_server_tool_error
ServerToolError(r) == IF r.forced = "no" THEN r.listed ELSE ~r.webTools

\* is_web_server_tool_request
IsWebToolRequest(r) == r.webTools /\ r.forced # "no" /\ r.named

\* Empty messages, and server tools for an upstream that cannot serve them.
RequestRejected ==
    /\ web = "arrived"
    /\ ~request.messages \/ (request.openaiChat /\ ServerToolError(request))
    /\ web' = "rejected"
    /\ UNCHANGED <<request, fetchVars, webOut, webClient>>

RequestAccepted ==
    web = "arrived" /\ request.messages /\ ~(request.openaiChat /\ ServerToolError(request))

\* The proxy serves the web tool: the call of the tool is the first block.
RequestForWebTool ==
    /\ RequestAccepted /\ IsWebToolRequest(request)
    /\ webOut' = <<MessageStart, Start(0, "server_tool_use"), Stop(0)>>
    /\ \/ request.forced = "search" /\ web' = "searching" /\ UNCHANGED target
       \/ request.forced = "fetch" /\ web' = "resolving" /\ target' \in Urls
    /\ UNCHANGED <<request, checked, address, hops, body, webClient>>

\* A canned answer, or the provider - which the getter or the preflight may refuse.
RequestForOthers ==
    /\ RequestAccepted /\ ~IsWebToolRequest(request)
    /\ web' \in IF request.canned THEN {"canned"} ELSE {"provider", "rejected"}
    /\ UNCHANGED <<request, fetchVars, webOut, webClient>>

-----------------------------------------------------------------------------
(* The result of the tool.                                                 *)

\* Mutant: a failed tool ends the stream without a result.
AnswerOnlyText ==
    <<Start(2, "text"), Delta(2, "text"), Stop(1), MessageDelta, MessageStop>>

\* A result or an error block, then a text for the model, then the end.
Answer ==
    <<Start(1, "tool_result"), Stop(1), Start(2, "text"), Delta(2, "text"), Stop(2),
      MessageDelta, MessageStop>>

ToolAnswers ==
    /\ webOut' = Answer /\ web' = "answered"
    /\ UNCHANGED <<request, fetchVars, webClient>>

\* The search returns or raises; either way there is an answer.
Search == web = "searching" /\ webOut = <<>> /\ ToolAnswers

\* Whatever fails in a fetch (a time limit, the connection, the status).
FetchFails == web \in {"resolving", "connecting", "redirected", "reading"} /\ webOut = <<>> /\ ToolAnswers

-----------------------------------------------------------------------------
(* The fetch.                                                              *)

\* What the system's resolver may say of a host.
Resolutions(host) == IF host \in Addresses THEN {{host}} ELSE SUBSET Addresses

\* Mutant: only one of the addresses is checked.
PermittedFirst(url, found) ==
    /\ url.scheme = "allowed" /\ url.host # "missing" /\ found # {}
    /\ request.private \/ (url.host # "local" /\ found \cap Public # {})

\* get_validated_stream_addrinfos_for_egress
Permitted(url, found) ==
    /\ url.scheme = "allowed" /\ url.host # "missing" /\ found # {}
    /\ request.private \/ (url.host # "local" /\ found \subseteq Public)

Resolve ==
    /\ web = "resolving" /\ webOut = <<>>
    /\ \E found \in Resolutions(target.host) :
          /\ Permitted(target, found)
          /\ checked' = found
    /\ web' = "connecting"
    /\ UNCHANGED <<request, target, address, hops, body, webOut, webClient>>

\* The connection goes to an address of the pinned resolver.
Connect ==
    /\ web = "connecting"
    /\ address' \in checked
    /\ hops' = hops + 1
    /\ web' \in {"redirected", "reading"}
    /\ UNCHANGED <<request, target, checked, body, webOut, webClient>>

\* A redirect with a Location, while the limit allows it (else the fetch fails).
Redirect ==
    /\ web = "redirected" /\ hops - 1 < MaxRedirects
    /\ target' \in Urls
    /\ web' = "resolving"
    /\ UNCHANGED <<request, checked, address, hops, body, webOut, webClient>>

\* A chunk of the body, of which only what the limit leaves is kept.
ReadBody(chunk) ==
    /\ web = "reading" /\ body < MaxBody
    /\ body' = IF body + chunk <= MaxBody THEN body + chunk ELSE MaxBody
    /\ UNCHANGED <<request, web, target, checked, address, hops, webOut, webClient>>

FetchReturns == web = "reading" /\ ToolAnswers

WebReceive ==
    /\ webOut # <<>> /\ webClient.over = "no"
    /\ webClient' = After(webClient, Head(webOut)) /\ webOut' = Tail(webOut)
    /\ UNCHANGED <<request, web, fetchVars>>

WebEnd ==
    /\ webOut = <<>> /\ web = "answered" /\ webClient.over = "no"
    /\ webClient' = [webClient EXCEPT !.over = "ended"]
    /\ UNCHANGED <<request, web, fetchVars, webOut>>

\* The client may disconnect at any await of the stream.
WebLeave ==
    /\ web \in {"searching", "resolving", "connecting", "redirected", "reading", "answered"}
    /\ webClient.over = "no"
    /\ webClient' = [webClient EXCEPT !.over = "left"] /\ web' = "left"
    /\ UNCHANGED <<request, fetchVars, webOut>>

WebNext ==
    \/ RequestRejected \/ RequestForWebTool \/ RequestForOthers
    \/ Search \/ FetchFails \/ Resolve \/ Connect \/ Redirect \/ (\E chunk \in 1..2 : ReadBody(chunk))
    \/ FetchReturns \/ WebReceive \/ WebEnd \/ WebLeave

WebSpec == WebInit /\ [][WebNext]_webVars

-----------------------------------------------------------------------------

\* A provider that speaks OpenAI chat gets no request with server tools that
\* nobody would serve - except where one is forced that the request does not
\* list under its name, which nobody looks at.
UpstreamSpared ==
    web = "provider" /\ request.openaiChat =>
        IF request.forced = "no" THEN ~request.listed ELSE request.webTools /\ ~request.named

\* Every connection of a fetch goes to an address that was checked for the URL
\* of that hop, and to a private one only where the settings allow it; a fetch
\* makes one connection more than it may follow redirects.
HopsPinned ==
    web \in {"redirected", "reading"} =>
        /\ address \in checked /\ (address \in Private => request.private)
        /\ target.host \in Addresses => address = target.host
        /\ hops <= MaxRedirects + 1 /\ body <= MaxBody

\* The client of a web tool sees a stream that obeys the contract, whether the
\* tool succeeds or fails.
WebClient == INSTANCE BlockStream WITH client <- webClient
WebContract == WebClient!Spec

\* A request leaves the program only for where it may go and can be served.
OutboundPermitted == UpstreamSpared /\ HopsPinned
=============================================================================
