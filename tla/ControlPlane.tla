--------------------------- MODULE ControlPlane ---------------------------
(* An issuer hands out a direct artifact or the two artifacts of a tunnel and  *)
(* keeps their authorization records, which an application stores encoded and  *)
(* restores after a restart.  A client parses its artifact and sends FSB2 for  *)
(* one candidate; a listener forwards it with the carrier it observed; the     *)
(* control plane authorizes it; the listener decodes the answer.               *)
EXTENDS HandshakeChecks, Sequences, FiniteSets, SequencesExt, TLC

-----------------------------------------------------------------------------
(* The connection artifact and the FSB2 admission request as documents: what   *)
(* the issuer, the client and the listener compute from them.  A hash is the   *)
(* record it hashes (no collisions); a document that is refused is Invalid.    *)
Invalid == [invalid |-> TRUE]
NoPath == <<>>
NoURL == [none |-> TRUE]
NoCandidates == <<>> \* CanonicalizeCandidates refused the set
MaxArtifactJSONBytes == 65536
MaxCandidates == 4
MaxCanonicalFSB2Payload == 32768

validRegistryID(s) == s # ""

\* The contract hash covers neither the expiry nor the key.
contractHash(s) ==
  [channel |-> s.channel, idle |-> s.idle, timing |-> s.timing, maxInbound |-> s.maxInbound,
   suites |-> s.suites, default |-> s.default]

validateSessionFields(s) ==
  /\ validRegistryID(s.channel) /\ s.expire > 0
  /\ s.timing = [establish |-> 30, prepare |-> 10, completion |-> 30]
  /\ s.maxInbound \in 1..128
  /\ s.suites \in {<<1>>, <<2>>, <<1, 2>>} \* sorted, known and distinct
  /\ s.default \in ToSet(s.suites)

ComputeSessionContractHash(s) ==
  IF validateSessionFields(s) THEN contractHash(s) ELSE Invalid

-----------------------------------------------------------------------------
(* Candidates.  A URL is its scheme, host, port (0: none) and path; the host   *)
(* is written as its normal form or in another case, or with a final dot.      *)
Loopback == {"127.0.0.1", "[::1]"}
wantScheme == [websocket |-> "wss", raw_quic |-> "quic", webtransport |-> "https"]

normalizeHost(h) == IF h.written = "dotted" THEN Invalid ELSE [name |-> h.name, written |-> "normal"]

normalizePort(port) == IF port = 443 THEN 0 ELSE port

normalizeCandidateURL(kind, carrier, u) ==
  LET path == IF carrier = "raw_quic" THEN NoPath ELSE <<carrier, kind>>
      loopbackWS == /\ carrier = "websocket" /\ u.scheme = "ws" /\ kind = "direct"
                    /\ u.host.name \in Loopback
  IN IF \/ normalizeHost(u.host) = Invalid
        \/ u.scheme # wantScheme[carrier] /\ ~loopbackWS
        \/ carrier = "raw_quic" /\ u.path \notin {NoPath, <<"/">>}
        \/ carrier # "raw_quic" /\ u.path # path
     THEN Invalid
     ELSE [scheme |-> u.scheme, host |-> normalizeHost(u.host),
           port |-> normalizePort(u.port), path |-> path]

\* IDs are "<carrier>" or "<carrier>-<n>", compared as strings.
carrierRank == [raw_quic |-> 1, websocket |-> 2, webtransport |-> 3]
idLess(a, b) == \/ carrierRank[a.carrier] < carrierRank[b.carrier]
                \/ a.carrier = b.carrier /\ a.n < b.n

sortedByID(items) == SortSeq(items, LAMBDA x, y : idLess(x.id, y.id))

\* Mutant: the URL is kept as it was given.
GivenURL(kind, c) == [id |-> c.id, carrier |-> c.carrier, url |-> c.url, profile |-> c.profile]

canonicalCandidate(kind, c) ==
  [id |-> c.id, carrier |-> c.carrier, profile |-> c.profile,
   url |-> normalizeCandidateURL(kind, c.carrier, c.url)]

\* Distinct IDs and distinct normalized tuples; the set is sorted and hashed.
CanonicalizeCandidates(kind, candidates) ==
  LET url(c) == normalizeCandidateURL(kind, c.carrier, c.url)
      distinct(f(_)) == \A i, j \in DOMAIN candidates :
                           f(candidates[i]) = f(candidates[j]) => i = j
  IN IF /\ Len(candidates) \in 1..MaxCandidates
        /\ \A i \in DOMAIN candidates :
             LET c == candidates[i]
             IN url(c) # Invalid /\ c.normalized \in {NoURL, url(c)} /\ c.profile = kind
        /\ distinct(LAMBDA c : c.id)
        /\ distinct(LAMBDA c : <<c.carrier, url(c), c.profile>>)
     THEN sortedByID([i \in DOMAIN candidates |-> canonicalCandidate(kind, candidates[i])])
     ELSE NoCandidates

-----------------------------------------------------------------------------
(* The artifact; bytes and payload are the lengths of its JSON and of its      *)
(* longest FSB2 payload, which only the limits look at.                        *)
validateScopes(scopes) ==
  /\ Len(scopes) <= 8
  /\ \A i \in DOMAIN scopes : scopes[i].name # "" /\ scopes[i].version # 0
  /\ \A i, j \in DOMAIN scopes : scopes[i].name = scopes[j].name => i = j

validateArtifact(a) ==
  /\ ComputeSessionContractHash(a.session) # Invalid
  /\ ComputeSessionContractHash(a.session) = a.session.hash
  /\ CanonicalizeCandidates(a.path.kind, a.path.candidates) # NoCandidates
  /\ validRegistryID(a.path.group) /\ validRegistryID(a.path.audience)
  /\ a.path.token # ""
  /\ CASE a.path.kind = "direct" -> a.path.role = 0 /\ a.path.local = "" /\ a.path.peer = ""
       [] a.path.kind = "tunnel" -> /\ a.path.role \in {1, 2}
                                    /\ validRegistryID(a.path.local) /\ validRegistryID(a.path.peer)
                                    /\ a.path.local # a.path.peer
  /\ validateScopes(a.scoped)
  /\ a.payload <= MaxCanonicalFSB2Payload

\* The JSON: keys and hashes in base64url, the URLs as they were given and
\* not their normal form, and only the fields of the path's own kind.
encode32(value) == [b64u |-> value]
decode32(text) == text.b64u
sessionToWire(c) == [c EXCEPT !.psk = encode32(@), !.hash = encode32(@)]
decodeSession(w) == [w EXCEPT !.psk = decode32(@), !.hash = decode32(@)]

candidatesToWire(cs) == [i \in DOMAIN cs |-> [id |-> cs[i].id, carrier |-> cs[i].carrier,
                                              url |-> cs[i].url, profile |-> cs[i].profile]]
candidatesFromWire(ws) == [i \in DOMAIN ws |-> [id |-> ws[i].id, carrier |-> ws[i].carrier, url |-> ws[i].url,
                                                profile |-> ws[i].profile, normalized |-> NoURL]]
pathToWire(p) ==
  LET direct == [kind |-> p.kind, group |-> p.group, audience |-> p.audience, token |-> p.token,
                 candidates |-> candidatesToWire(p.candidates)]
  IN IF p.kind = "direct" THEN direct
     ELSE [role |-> p.role, local |-> p.local, peer |-> p.peer] @@ direct
decodeArtifactPath(w) ==
  [w EXCEPT !.candidates = candidatesFromWire(@)]
    @@ [role |-> 0, local |-> "", peer |-> ""]

MarshalArtifactJSON(a) ==
  IF validateArtifact(a) /\ a.bytes <= MaxArtifactJSONBytes
  THEN [a EXCEPT !.session = sessionToWire(@), !.path = pathToWire(@)]
  ELSE Invalid

DecodeArtifactJSON(json) ==
  LET a == [json EXCEPT !.session = decodeSession(@), !.path = decodeArtifactPath(@)]
      withURL(c) == [c EXCEPT !.normalized = normalizeCandidateURL(a.path.kind, c.carrier, c.url)]
  IN IF json.bytes <= MaxArtifactJSONBytes /\ validateArtifact(a)
     THEN [a EXCEPT !.path.candidates = [i \in DOMAIN @ |-> withURL(@[i])]]
     ELSE Invalid

-----------------------------------------------------------------------------
(* The admission request.                                                      *)
requestFromValidatedArtifact(a, candidates, chosen) ==
  [kind |-> a.path.kind, channel |-> a.session.channel, contract |-> a.session.hash,
   group |-> a.path.group, audience |-> a.path.audience,
   candidates |-> candidates, setHash |-> candidates, chosen |-> chosen,
   token |-> a.path.token, role |-> a.path.role, endpoint |-> a.path.local,
   bytes |-> a.payload]

validateRequest(r) ==
  LET source == [i \in DOMAIN r.candidates |->
                   [id |-> r.candidates[i].id, carrier |-> r.candidates[i].carrier,
                    url |-> r.candidates[i].url, normalized |-> r.candidates[i].url,
                    profile |-> r.candidates[i].profile]]
      canonical == CanonicalizeCandidates(r.kind, source)
  IN /\ validRegistryID(r.channel) /\ validRegistryID(r.group) /\ validRegistryID(r.audience)
     /\ canonical # NoCandidates /\ canonical = r.candidates /\ canonical = r.setHash
     /\ \E i \in DOMAIN r.candidates : r.candidates[i].id = r.chosen
     /\ r.token # ""
     /\ IF r.kind = "direct" THEN r.role = 0 /\ r.endpoint = ""
                             ELSE r.role \in {1, 2} /\ validRegistryID(r.endpoint)

BuildRequest(a, chosen) ==
  LET r == requestFromValidatedArtifact(a, CanonicalizeCandidates(a.path.kind, a.path.candidates), chosen)
  IN IF validateArtifact(a) /\ validateRequest(r) THEN r ELSE Invalid

\* FSB2: a header with the path code and the canonical payload of that kind.
pathKindCode == [direct |-> 1, tunnel |-> 2]
marshalRequestPayload(r) ==
  LET hashed == [r EXCEPT !.contract = encode32(@), !.setHash = encode32(@)]
  IN [f \in DOMAIN r \ (IF r.kind = "direct" THEN {"kind", "role", "endpoint"} ELSE {"kind"}) |-> hashed[f]]
decodeRequestPayload(kind, p) ==
  [p EXCEPT !.contract = decode32(@), !.setHash = decode32(@)]
    @@ [kind |-> kind, role |-> 0, endpoint |-> ""]

MarshalRequest(r) ==
  IF r # Invalid /\ validateRequest(r) /\ r.bytes <= MaxCanonicalFSB2Payload
  THEN [code |-> pathKindCode[r.kind], payload |-> marshalRequestPayload(r)]
  ELSE Invalid

ParseRequest(raw) ==
  LET kind == CHOOSE k \in DOMAIN pathKindCode : pathKindCode[k] = raw.code
      r == decodeRequestPayload(kind, raw.payload)
  IN IF /\ raw # Invalid /\ raw.payload.bytes \in 1..MaxCanonicalFSB2Payload
        /\ validateRequest(r) /\ marshalRequestPayload(r) = raw.payload
     THEN r ELSE Invalid

AdmissionBinding(raw) == [binding |-> raw]

-----------------------------------------------------------------------------
CONSTANTS IssueOptions, \* the calls of IssueDirect and IssueTunnelPair
          MaxTime       \* the clock stops here

VARIABLES now,    \* the clock all parties read
          issue,  \* [opts, at, docs]: the call and the artifacts it returned
          stored, \* FALSE: the records are in memory; TRUE: encoded by the application
          ends,   \* per artifact: the client that holds it
          answers \* per artifact: what the listener made of the authorization

planeVars == <<now, issue, stored, ends, answers>>

DefaultArtifactLifetime == 1
MaxArtifactLifetime == 2
maxAuthorizationRecordBytes == 96 * 1024
maxRuntimeRequestBytes == 64 * 1024
base64Bytes(n) == (4 * n + 2) \div 3

-----------------------------------------------------------------------------
(* Issuance.                                                                   *)
lifetimeValid(expires) == expires > now /\ expires <= now + MaxArtifactLifetime

session(o) ==
  LET expires == IF o.expires = 0 THEN now + DefaultArtifactLifetime ELSE o.expires
      c == [channel |-> o.channel, expire |-> expires,
            idle |-> IF o.idle = 0 THEN 60 ELSE o.idle \div 1000,
            timing |-> [establish |-> 30, prepare |-> 10, completion |-> 30],
            maxInbound |-> IF o.maxInbound = 0 THEN 32 ELSE o.maxInbound,
            psk |-> "psk", suites |-> <<1, 2>>, default |-> 1]
  IN IF lifetimeValid(expires) /\ o.idle >= 0 /\ o.idle % 1000 = 0
        /\ ComputeSessionContractHash(c) # Invalid
     THEN [channel |-> c.channel, expire |-> c.expire, idle |-> c.idle, timing |-> c.timing,
           maxInbound |-> c.maxInbound, psk |-> c.psk, suites |-> c.suites,
           default |-> c.default, hash |-> contractHash(c)]
     ELSE Invalid

schemeCarrier(scheme) == CHOOSE k \in DOMAIN wantScheme : wantScheme[k] = scheme
NewEndpointSet(urls) ==
  /\ Len(urls) \in 1..MaxCandidates
  /\ \A i \in DOMAIN urls : urls[i].scheme \in {"wss", "quic", "https"}

\* The second endpoint of a carrier is "<carrier>-2", and so on.
candidateID(urls, i) ==
  [carrier |-> schemeCarrier(urls[i].scheme),
   n |-> Cardinality({j \in 1..i : urls[j].scheme = urls[i].scheme})]
endpointCandidates(kind, urls) ==
  [i \in DOMAIN urls |->
     [id |-> candidateID(urls, i), carrier |-> schemeCarrier(urls[i].scheme),
      url |-> urls[i], normalized |-> NoURL, profile |-> kind]]

artifact(o, role, local, peer, credential) ==
  [session |-> session(o),
   path |-> [kind |-> o.kind, group |-> o.group, audience |-> o.audience, role |-> role,
             local |-> local, peer |-> peer, token |-> credential,
             candidates |-> endpointCandidates(o.kind, o.urls)],
   scoped |-> o.scopes, bytes |-> o.bytes, payload |-> o.payload]

\* The two tunnel artifacts name each other's endpoint and hold independent
\* credentials; applyMetadata validates each before it is encoded.
tunnelPair(o) == <<artifact(o, 1, o.first, o.second, "credential1"),
                   artifact(o, 2, o.second, o.first, "credential2")>>
artifacts(o) == IF o.kind = "direct" THEN <<artifact(o, 0, "", "", "credential1")>>
                                     ELSE tunnelPair(o)

-----------------------------------------------------------------------------
(* Authorization records.                                                      *)
credentialLookupKey(credential) == [sha256 |-> credential]

newAuthorizationRecord(a, json, upstream, replacement) ==
  IF IF a.path.kind = "direct" THEN upstream # "" /\ ~replacement ELSE upstream = ""
  THEN [artifact |-> a, json |-> json, key |-> credentialLookupKey(a.path.token),
        upstream |-> upstream, replacement |-> replacement]
  ELSE Invalid

validateRecord(r) ==
  /\ r # Invalid /\ DecodeArtifactJSON(r.json) # Invalid
  /\ credentialLookupKey(DecodeArtifactJSON(r.json).path.token) = r.key
  /\ IF r.artifact.path.kind = "direct" THEN r.upstream # "" /\ ~r.replacement
                                        ELSE r.upstream = ""

\* Schema version, key names, lookup key and upstream take at most 700 bytes.
recordBytes(json) == base64Bytes(json.bytes) + 700

EncodeRecord(r) ==
  IF validateRecord(r)
  THEN [json |-> r.json, key |-> r.key, upstream |-> r.upstream, replacement |-> r.replacement]
  ELSE Invalid

recordFits(encoded) == recordBytes(encoded.json) <= maxAuthorizationRecordBytes

ParseAuthorizationRecord(encoded) ==
  LET a == DecodeArtifactJSON(encoded.json)
      r == newAuthorizationRecord(a, encoded.json, encoded.upstream, encoded.replacement)
  IN IF encoded # Invalid /\ recordFits(encoded) /\ a # Invalid /\ r # Invalid
        /\ r.key = encoded.key
     THEN r ELSE Invalid

issuedDocs(o) ==
  LET as == artifacts(o)
      upstream == IF o.kind = "direct" THEN o.upstream ELSE ""
      doc(a) == [json |-> MarshalArtifactJSON(a),
                 record |-> newAuthorizationRecord(a, MarshalArtifactJSON(a), upstream, o.replacement)]
      docs == [i \in DOMAIN as |-> doc(as[i])]
  IN IF /\ NewEndpointSet(o.urls) /\ session(o) # Invalid
        /\ CanonicalizeCandidates(o.kind, endpointCandidates(o.kind, o.urls)) # NoCandidates
        /\ o.kind = "direct" => o.upstream # "" \* validTCPAddress
        /\ \A i \in DOMAIN as : docs[i].json # Invalid /\ docs[i].record # Invalid
     THEN docs ELSE <<>>

\* The record the control plane works with: the one it issued, or the one it
\* restored from the application's storage.
record(i) ==
  IF stored THEN ParseAuthorizationRecord(EncodeRecord(issue.docs[i].record))
            ELSE issue.docs[i].record

-----------------------------------------------------------------------------
(* Runtime authorization.                                                      *)
matchedCarrier(r, observed) ==
  \E i \in DOMAIN r.candidates :
     r.candidates[i].id = r.chosen /\ r.candidates[i].carrier = observed

\* The header adds 12 bytes; field names and a remote address of at most 512.
runtimeRequestBytes(raw) == base64Bytes(raw.payload.bytes + 12) + 650

ParseRuntimeAuthorizationRequest(raw, observed) ==
  LET r == ParseRequest(raw)
  IN IF /\ r # Invalid /\ runtimeRequestBytes(raw) <= maxRuntimeRequestBytes
        /\ matchedCarrier(r, observed)
     THEN [raw |-> raw, chosen |-> r.chosen, key |-> credentialLookupKey(r.token)]
     ELSE Invalid

sessionWire(s) ==
  [channel |-> s.channel, expire |-> s.expire, idle |-> s.idle, timing |-> s.timing,
   maxInbound |-> s.maxInbound, psk |-> s.psk, suites |-> s.suites, default |-> s.default]
NoSession == [channel |-> "", expire |-> 0, idle |-> 0,
              timing |-> [establish |-> 0, prepare |-> 0, completion |-> 0],
              maxInbound |-> 0, psk |-> "", suites |-> <<>>, default |-> 0]
NoResponse == [decision |-> "error", lease |-> "", session |-> NoSession, direct |-> NoSession,
               peer |-> "", expires |-> 0]

unexpired(a) == now < a.session.expire

expectedBytes(a, request) == MarshalRequest(BuildRequest(a, request.chosen)) = request.raw

AuthorizeRuntime(request, r, lease) ==
  IF /\ request # Invalid /\ lease # "" /\ validateRecord(r) /\ request.key = r.key
     /\ unexpired(r.artifact) /\ expectedBytes(r.artifact, request)
  THEN LET wire == sessionWire(r.artifact.session)
           allow == [NoResponse EXCEPT !.decision = "allow", !.lease = lease,
                                       !.expires = r.artifact.session.expire]
       IN IF r.artifact.path.kind = "direct" THEN [allow EXCEPT !.direct = wire]
          ELSE [allow EXCEPT !.session = wire, !.peer = r.artifact.path.peer]
  ELSE NoResponse

RejectRuntime(retryable) ==
  [NoResponse EXCEPT !.decision = IF retryable THEN "retry" ELSE "reject"]

\* acceptorSessionWire.contract: the listener recomputes the contract hash.
contractOf(w) ==
  [channel |-> w.channel, expire |-> w.expire, idle |-> w.idle, timing |-> w.timing,
   maxInbound |-> w.maxInbound, psk |-> w.psk, suites |-> w.suites, default |-> w.default,
   hash |-> contractHash(w)]
contract(w) ==
  IF w.psk # "" /\ w.channel # "" /\ w.maxInbound # 0 /\ validateSessionFields(w)
  THEN contractOf(w) ELSE Invalid

\* handleDirect and authorizeTunnel: what the listener makes of the response.
Admitted(result, raw, c, response) ==
  [at |-> result, time |-> now, over |-> "", raw |-> raw, request |-> ParseRequest(raw), contract |-> c, response |-> response]
directAnswer(raw, response) ==
  CASE response.decision = "allow" ->
         IF contract(response.direct) # Invalid
         THEN Admitted("allow", raw, contract(response.direct), response)
         ELSE Admitted("error", raw, Invalid, response)
    [] response.decision \in {"retry", "reject"} -> Admitted(response.decision, raw, Invalid, response)
    [] OTHER -> Admitted("error", raw, Invalid, response)
tunnelAnswer(raw, response) ==
  IF \/ response.decision = "error" \/ response.session.channel = "" \/ response.peer = ""
     \/ response.lease = "" \/ contract(response.session) = Invalid
  THEN Admitted("error", raw, Invalid, response)
  ELSE Admitted("allow", raw, contract(response.session), response)
answer(raw, response) ==
  IF ParseRequest(raw).kind = "direct" THEN directAnswer(raw, response) ELSE tunnelAnswer(raw, response)

-----------------------------------------------------------------------------
(* The session configurations both sides derive.                               *)
clientConfig(a, raw) ==
  LET tunnel == a.path.kind = "tunnel"
  IN Config(IF tunnel /\ a.path.role = 2 THEN "server" ELSE "client", a.path.kind, a.session,
            AdmissionBinding(raw), IF tunnel THEN Zero ELSE AdmissionBinding(raw),
            a.path.local, a.path.peer)
directConfig(x) ==
  Config("server", "direct", x.contract, AdmissionBinding(x.raw), AdmissionBinding(x.raw), "", "")

\* onTunnelPair: the listener speaks to each end in the other end's name.
pairBindings(own, other) == [mine |-> other, theirs |-> own]
pairConfig(x, other) ==
  LET b == pairBindings(AdmissionBinding(x.raw), AdmissionBinding(other.raw))
  IN Config(IF x.request.role = 1 THEN "server" ELSE "client", "tunnel", x.contract,
            b.mine, b.theirs, x.response.peer, x.request.endpoint)

-----------------------------------------------------------------------------
Init ==
  /\ now = 1 /\ stored = FALSE
  /\ \E o \in IssueOptions : issue = [opts |-> o, at |-> "called", docs |-> <<>>]
  /\ ends = <<>> /\ answers = <<>>

NoEnd == [at |-> "idle", artifact |-> Invalid, raw |-> Invalid]
NoAnswer == [at |-> "none", time |-> 0, over |-> "", raw |-> Invalid, request |-> Invalid, contract |-> Invalid, response |-> NoResponse]

Issue ==
  /\ issue.at = "called"
  /\ LET docs == issuedDocs(issue.opts)
     IN /\ issue' = [issue EXCEPT !.at = IF docs = <<>> THEN "refused" ELSE "issued", !.docs = docs]
        /\ ends' = [i \in DOMAIN docs |-> NoEnd]
        /\ answers' = [i \in DOMAIN docs |-> NoAnswer]
  /\ UNCHANGED <<now, stored>>

\* The control plane restarts and continues from the encoded records.
Restart == issue.at = "issued" /\ ~stored /\ stored' = TRUE /\ UNCHANGED <<now, issue, ends, answers>>

Tick == issue.at = "issued" /\ now < MaxTime /\ now' = now + 1 /\ UNCHANGED <<issue, stored, ends, answers>>

ParseArtifact(i) ==
  /\ ends[i].at = "idle"
  /\ LET a == DecodeArtifactJSON(issue.docs[i].json)
     IN ends' = [ends EXCEPT ![i].at = IF a = Invalid THEN "failed" ELSE "parsed", ![i].artifact = a]
  /\ UNCHANGED <<now, issue, stored, answers>>

\* The connector refuses an expired artifact before it builds FSB2 (Connect).
SendRequest(i, chosen) ==
  /\ ends[i].at = "parsed" /\ now < ends[i].artifact.session.expire
  /\ LET raw == MarshalRequest(BuildRequest(ends[i].artifact, chosen))
     IN ends' = [ends EXCEPT ![i].at = IF raw = Invalid THEN "failed" ELSE "sent", ![i].raw = raw]
  /\ UNCHANGED <<now, issue, stored, answers>>

\* The listener forwards FSB2 with the carrier it came over; the control plane
\* reserves the credential and authorizes it with a fresh lease.
Authorize(i, observed) ==
  /\ ends[i].at = "sent" /\ answers[i].at = "none"
  /\ LET raw == ends[i].raw
         response == AuthorizeRuntime(ParseRuntimeAuthorizationRequest(raw, observed), record(i), "lease")
     IN answers' = [answers EXCEPT ![i] = [answer(raw, response) EXCEPT !.over = observed]]
  /\ UNCHANGED <<now, issue, stored, ends>>

Reject(i, retryable) ==
  /\ ends[i].at = "sent" /\ answers[i].at = "none"
  /\ answers' = [answers EXCEPT ![i] = answer(ends[i].raw, RejectRuntime(retryable))]
  /\ UNCHANGED <<now, issue, stored, ends>>

Next ==
  \/ Issue \/ Restart \/ Tick
  \/ \E i \in DOMAIN ends :
        \/ ParseArtifact(i)
        \/ ends[i].at = "parsed" /\ \E k \in DOMAIN ends[i].artifact.path.candidates :
              SendRequest(i, ends[i].artifact.path.candidates[k].id)
        \/ \E observed \in DOMAIN wantScheme : Authorize(i, observed)
        \/ \E retryable \in BOOLEAN : Reject(i, retryable)

Spec == Init /\ [][Next]_planeVars

chosenCarrier(r) ==
  r.candidates[CHOOSE i \in DOMAIN r.candidates : r.candidates[i].id = r.chosen].carrier

-----------------------------------------------------------------------------
\* The clock, the phases and the number of artifacts are as the code keeps them.
TypeOK ==
  /\ now \in 1..MaxTime /\ stored \in BOOLEAN
  /\ issue.at \in {"called", "refused", "issued"}
  /\ Len(issue.docs) = IF issue.at # "issued" THEN 0 ELSE IF issue.opts.kind = "direct" THEN 1 ELSE 2
  /\ DOMAIN ends = DOMAIN issue.docs /\ DOMAIN answers = DOMAIN issue.docs
  /\ \A i \in DOMAIN ends : ends[i].at \in {"idle", "parsed", "sent", "failed"}

\* Whatever IssueDirect or IssueTunnelPair returns, the client parses it and the
\* FSB2 of each of its candidates is accepted by the listener's parser, however
\* the endpoint URLs were written and ordered.
IssuedIsUsable ==
  \A i \in DOMAIN ends : ends[i].at # "failed" /\ (ends[i].at = "sent" => ParseRequest(ends[i].raw) # Invalid)

\* An end that presents its artifact before it expires, over the carrier it
\* chose, is allowed unless the application rejects it: neither the encoding of
\* the record, nor its size, nor a restart of the control plane loses it.
HonestAllowed ==
  \A i \in DOMAIN answers :
    answers[i].at = "error" =>
      \/ answers[i].response.decision # "error"
      \/ answers[i].time >= issue.docs[i].record.artifact.session.expire
      \/ answers[i].over # chosenCarrier(answers[i].request)

\* An allow answer is given before the artifact expires and over the candidate's
\* own carrier, and its expiry is the artifact's, never past the issuer's limit.
AllowBeforeExpiry ==
  \A i \in DOMAIN answers :
    answers[i].at = "allow" =>
      /\ answers[i].time < answers[i].response.expires
      /\ answers[i].over = chosenCarrier(answers[i].request)
      /\ answers[i].response.expires <= 1 + MaxArtifactLifetime

\* The contract and the identities the listener derives from the authorization
\* are the ones the client derived from its artifact: direct, the two ends pass
\* each other's handshake checks; through a tunnel, each end passes them with
\* the listener speaking in the name of the other end.
EndsAgree ==
  /\ \A i \in DOMAIN answers :
       answers[i].at = "allow" /\ answers[i].request.kind = "direct" =>
         Compatible(clientConfig(ends[i].artifact, ends[i].raw), directConfig(answers[i]), {}, {})
  /\ Len(answers) = 2 /\ (\A i \in 1..2 : answers[i].at = "allow") =>
       LET mine(i) == clientConfig(ends[i].artifact, ends[i].raw)
           its(i) == pairConfig(answers[i], answers[3 - i])
       IN Compatible(mine(1), its(1), {}, {}) /\ Compatible(its(2), mine(2), {}, {})

\* The two ends of an issued pair meet: they present the same rendezvous group,
\* contract, candidate set and audience, opposite roles and each other's
\* endpoint, and a bridge that joins them directly would pass both checks.
PairMeets ==
  Len(answers) = 2 /\ (\A i \in 1..2 : answers[i].at = "allow") =>
    LET r(i) == answers[i].request
        mine(i) == clientConfig(ends[i].artifact, ends[i].raw)
    IN /\ \A f \in {"channel", "group", "contract", "setHash", "audience"} : r(1)[f] = r(2)[f]
       /\ r(1).role # r(2).role /\ r(1).token # r(2).token
       /\ r(1).endpoint = answers[2].response.peer /\ r(2).endpoint = answers[1].response.peer
       /\ Compatible(mine(1), mine(2), {}, {})
=============================================================================
