------------------------------ MODULE Policies ------------------------------
(***************************************************************************)
(* The checks of src/src/security on what a tool is asked to write: the    *)
(* command and the URLs of a server definition, and a description.  A      *)
(* definition is a document of Redaction.  A URL is a record of its scheme *)
(* and its host; of an IPv4 address the first two octets are kept, of an   *)
(* IPv6 address the text it begins with, which is all that the code looks  *)
(* at.  URL.hostname gives an IPv6 address in brackets, and isIP takes no  *)
(* brackets: the IPv6 branch of isPrivateHost sees none of them.           *)
(***************************************************************************)
EXTENDS Redaction, FiniteSets

LOCALHOST == [name |-> "localhost"]
Ipv4(first, second) == [first |-> first, second |-> second]
Ipv6(prefix) == [prefix |-> prefix]
Host(name) == [name |-> name]
Url(protocol, host) == [protocol |-> protocol, host |-> host]

IsIpv4(host) == "first" \in DOMAIN host
IsIpv6(host) == "prefix" \in DOMAIN host

\* URL.hostname: brackets around an IPv6 address make it a text that is no address
Bracketed(host) == [bracketed |-> host.prefix]
hostname(url) == IF IsIpv6(url.host) THEN Bracketed(url.host) ELSE url.host

isPrivateIpv4(host) ==
    \/ host.first \in {10, 127}
    \/ host.first = 172 /\ host.second >= 16 /\ host.second <= 31
    \/ host.first = 169 /\ host.second = 254
    \/ host.first = 192 /\ host.second = 168

isPrivateIpv6(host) == host.prefix \in {"::1", "fc", "fd", "fe8", "fe9", "fea", "feb"}

\* a name is never resolved
isPrivateHost(host) ==
    \/ host = LOCALHOST
    \/ IsIpv4(host) /\ isPrivateIpv4(host)
    \/ IsIpv6(host) /\ isPrivateIpv6(host)

assertNoPrivateUrl(url) ==
    url.protocol \in {"http:", "https:"} /\ ~isPrivateHost(hostname(url))

\* an empty list allows every host
assertAllowedTargetHost(url, allowedTargetHosts) ==
    allowedTargetHosts = {} \/ hostname(url) \in allowedTargetHosts

\* the keys that contain url, endpoint or origin
urlBearingKeys == {"url", "dburl", "baseurl", "endpoint", "origin"}

\* mutant: the value's own key is looked at, the objects around it are not
extractInnermostUrls(payload) ==
    {leaf.url : leaf \in {l \in payload : l.path[Len(l.path)] \in urlBearingKeys}}

\* every string somewhere below such a key: the URL it is, {} when new URL() throws
extractCandidateUrls(payload) ==
    {leaf.url : leaf \in {l \in payload :
                    \E i \in 1 .. Len(l.path) : l.path[i] \in urlBearingKeys}}

assertAllowedCommand(allowStdioServerCreate) == allowStdioServerCreate

\* mutant: one pattern fewer than the redactor has
descriptionPatternsForgotten == {"bearer", "jwt"}

suspiciousDescriptionPatterns == {"bearer", "jwt", "sk-key"}

\* "501 characters" stands for whatever makes the text too long
assertSafeDescription(text) ==
    "501 characters" \notin text /\ text \cap suspiciousDescriptionPatterns = {}
=============================================================================
