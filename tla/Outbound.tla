------------------------------ MODULE Outbound ------------------------------
(***************************************************************************)
(* Calls of remote services (upstream providers, avatars): a URL is        *)
(* screened, its host resolved, the address screened again when it is      *)
(* dialled, and every redirect goes through the same.  What a name         *)
(* resolves to, and where a server redirects to, is not ours to decide     *)
(* and may change from one look-up to the next.                            *)
(***************************************************************************)
EXTENDS Desk

CONSTANTS
    Urls,          \* URLs there are: [scheme, host]
    MaxRedirects   \* maxFederationRedirects

ASSUME OutboundAssumption == MaxRedirects \in Nat \ {0}

\* Destination classes of addresses.
Classes == {"public", "private", "alwaysBlocked"}

\* Local variables of a call: may it reach private networks, the URLs requested so
\* far, the addresses the host of the last one resolved to; to: the address dialled.
NoTrip == [private |-> FALSE, via |-> <<>>, addrs |-> {}, to |-> None]

\* A host that is an IP literal is the class of its address.
Literal(u) == u.host \in Classes

\* Mutated form of IpDestinationAllowed: the operator's opt-in opens everything.
IpAllowedAny(class, private) == class = "public" \/ private

IpDestinationAllowed(class, private) == class = "public" \/ (class = "private" /\ private)

\* validateOutboundURL: https, and a domain name.
ValidateOutboundURL(u) == u.scheme = "https" /\ ~Literal(u)

\* validateEndpoint of a provider's configuration.
ValidateEndpoint(u, private) ==
    u.scheme \in {"http", "https"} /\ (~private => ValidateOutboundURL(u))

\* validateAvatarURL: the picture's URL is the provider's word.
ValidateAvatarURL(u, private) == u.scheme = "https" \/ (u.scheme = "http" /\ private)

\* Mutated form of ValidateRedirectScheme: the scheme of the first request decides.
ValidateRedirectFirst(u, via, private) ==
    /\ u.scheme \in {"http", "https"}
    /\ IF private THEN u.scheme = "https" \/ Head(via).scheme = "http" ELSE ValidateOutboundURL(u)

\* No other scheme; without the opt-in the rule of configured URLs; with it, no way
\* back from https to http.
ValidateRedirectScheme(u, via, private) ==
    /\ u.scheme \in {"http", "https"}
    /\ IF private THEN u.scheme = "https" \/ Last(via).scheme = "http" ELSE ValidateOutboundURL(u)

-----------------------------------------------------------------------------

StartTrip(p, u, private) ==
    /\ Idle(p, "call") /\ private = ("private" \in ops)
    /\ ValidateEndpoint(u, private) \/ ValidateAvatarURL(u, private)
    /\ Goto(p, "resolveHost") /\ Set(p, [NoTrip EXCEPT !.private = private, !.via = <<u>>])
    /\ UNCHANGED <<clock, ops>>

\* screenedDialContext: every answer must be allowed, or none is dialled; an IP
\* literal is left to the screen of the dialler.
Lookup(p) ==
    LET l == loc[p]
    IN  /\ pc[p] = "resolveHost"
        /\ IF Literal(Last(l.via))
           THEN Goto(p, "dial") /\ Set(p, [l EXCEPT !.addrs = {Last(l.via).host}])
           ELSE \E answers \in SUBSET Classes :
                   IF answers # {} /\ \A a \in answers : IpDestinationAllowed(a, l.private)
                   THEN Goto(p, "dial") /\ Set(p, [l EXCEPT !.addrs = answers])
                   ELSE Done(p)
        /\ UNCHANGED <<clock, ops>>

\* The dialler's Control (screenDialControl) sees the address itself.
Dial(p) ==
    LET l == loc[p]
    IN  /\ pc[p] = "dial"
        /\ \E a \in l.addrs :
              IF IpDestinationAllowed(a, l.private)
              THEN Goto(p, "respond") /\ Set(p, [l EXCEPT !.to = a])
              ELSE Done(p)
        /\ UNCHANGED <<clock, ops>>

\* The answer: a redirect that is followed; or one that is not, a body (capped), no answer.
Respond(p) ==
    LET l == loc[p]
    IN  /\ pc[p] = "respond"
        /\ \/ \E u \in Urls :
                 /\ Len(l.via) < MaxRedirects
                 /\ ValidateRedirectScheme(u, l.via, l.private)
                 /\ Goto(p, "resolveHost")
                 /\ Set(p, [l EXCEPT !.via = Append(@, u), !.addrs = {}, !.to = None])
           \/ Done(p)
        /\ UNCHANGED <<clock, ops>>

OutboundNext ==
    \E p \in Procs :
        \/ \E u \in Urls, private \in BOOLEAN : StartTrip(p, u, private)
        \/ Lookup(p) \/ Dial(p) \/ Respond(p)

\* Wherever names resolve to and servers redirect to: no call reaches an address that is
\* always blocked, none reaches a private one without the operator's opt-in, none
\* follows a redirect from https to http, and it ends after MaxRedirects requests.
OutboundContained ==
    \A p \in Procs : pc[p] \in {"resolveHost", "dial", "respond"} =>
        LET l == loc[p]
        IN  /\ l.to \in {None, "public"} \cup (IF l.private THEN {"private"} ELSE {})
            /\ Len(l.via) <= MaxRedirects
            /\ \A i \in 1..(Len(l.via) - 1) : l.via[i].scheme = "https" => l.via[i + 1].scheme = "https"
=============================================================================
