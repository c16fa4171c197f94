-------------------------------- MODULE Finish -------------------------------
(***************************************************************************)
(* From an origin's response to the viewer's: the response headers policy  *)
(* (internal/behavior/response.go), the choice of a coding (compress.go)   *)
(* and writeResponse (internal/dataplane/write.go).                        *)
(*                                                                         *)
(* A body is [content, size, codings, part]: what it is a representation   *)
(* of, its length, the codings applied to it, and whether it is only a     *)
(* part of it.  The policy's security headers are in customHeaders, after  *)
(* the custom ones: they are set by the same rule.                         *)
(***************************************************************************)
EXTENDS Headers, FiniteSets

CONSTANT CompressibleTypes  \* the content types ChooseEncoding compresses

NoCors == [allowOrigins |-> {}, fields |-> <<>>, override |-> FALSE]
NoResponseHeaders == [removeHeaders |-> {}, customHeaders |-> <<>>, cors |-> NoCors]

NoBody == [content |-> "nothing", size |-> 0, codings |-> <<>>, part |-> FALSE]

(* addVary looks for the name in every line.                               *)
AddVary(h, name) == IF name \in Elements(Lines(h, "Vary")) THEN h ELSE AddHeader(h, "Vary", <<name>>)

(* addResponseVary looks for a line that is the name.                      *)
AddResponseVary(h, name) == IF <<name>> \in ToSet(Lines(h, "Vary")) THEN h ELSE AddHeader(h, "Vary", <<name>>)

(* Mutant: an allowed origin is echoed without Vary.                       *)
ApplyAllowOrigin_NoVary(cors, h, origin) ==
  IF "*" \in cors.allowOrigins THEN SetUnless(h, "Access-Control-Allow-Origin", <<"*">>, cors.override)
  ELSE IF origin \in cors.allowOrigins THEN SetUnless(h, "Access-Control-Allow-Origin", <<origin>>, cors.override)
  ELSE h

(* corsAllowOrigin and its use in applyCors: "*" wins, an origin that is   *)
(* listed is echoed.                                                       *)
ApplyAllowOrigin(cors, h, origin) ==
  IF "*" \in cors.allowOrigins THEN SetUnless(h, "Access-Control-Allow-Origin", <<"*">>, cors.override)
  ELSE IF origin \in cors.allowOrigins
       THEN AddVary(SetUnless(h, "Access-Control-Allow-Origin", <<origin>>, cors.override), "Origin")
       ELSE h

(* applyCors; fields has the other Access-Control- headers of the policy.  *)
ApplyCors(cors, h, origin) ==
  LET allowed == ApplyAllowOrigin(cors, h, origin)
      fields == [n \in DOMAIN cors.fields |-> IF cors.override \/ Get(h, n) = <<>> THEN <<cors.fields[n]>> ELSE h[n]]
  IN  Overlay(fields, allowed)

ApplyResponseHeaders(b, h, requestOrigin) ==
  LET policy == b.responseHeaders
      removed == DelHeaders(h, policy.removeHeaders)
      custom == policy.customHeaders
      set[i \in 0 .. Len(custom)] ==
        IF i = 0 THEN removed ELSE SetUnless(set[i - 1], custom[i].name, custom[i].line, custom[i].override)
      all == set[Len(custom)]
  IN  IF requestOrigin = <<>> THEN all ELSE ApplyCors(policy.cors, all, requestOrigin[1])

CompressibleSizes == 1000 .. 10000000

(* Mutant: a response that is encoded already is compressed again.         *)
ChooseEncoding_Recompresses(b, accepted, h) ==
  IF b.compress /\ Get(h, "Content-Length") # <<>> /\ Get(h, "Content-Length")[1] \in CompressibleSizes /\ "gzip" \in ToSet(accepted)
  THEN "gzip" ELSE "identity"

ChooseEncoding(b, accepted, h) ==
  LET usable == /\ b.compress
                /\ Get(h, "Content-Encoding") = <<>>
                /\ ToSet(Get(h, "Content-Type")) \cap CompressibleTypes # {}
                /\ Get(h, "Content-Length") # <<>> /\ Get(h, "Content-Length")[1] \in CompressibleSizes
                /\ "no-transform" \notin ToSet(Get(h, "Cache-Control"))
  IN  IF usable /\ "gzip" \in ToSet(accepted) THEN "gzip"
      ELSE IF usable /\ "br" \in ToSet(accepted) THEN "br" ELSE "identity"

(* compressBytes; a tenth stands for the size that is left.                *)
Compressed(body, coding) == [body EXCEPT !.codings = Append(@, coding), !.size = @ \div 10]

(* writeResponse.  X-Cache, X-Amz-Cf-Id and X-Amz-Cf-Pop are left out; a   *)
(* body that cannot be read is in module Pipeline.                         *)
WriteResponse(dist, b, r, resp) ==
  LET out == AddVia(RemoveHopByHopHeaders(resp.headers), dist.domain)
      coding == IF resp.status = 200 /\ r.method # "HEAD"
                THEN ChooseEncoding(b, Get(r.headers, "Accept-Encoding"), resp.headers) ELSE "identity"
      body == Compressed(resp.body, coding)
  IN  IF coding = "identity"
      THEN [status |-> resp.status, headers |-> out, body |-> IF r.method = "HEAD" THEN NoBody ELSE resp.body]
      ELSE [status |-> resp.status,
            headers |-> AddResponseVary(SetHeader(SetHeader(out, "Content-Encoding", <<coding>>),
                                                  "Content-Length", <<body.size>>), "Accept-Encoding"),
            body |-> body]
=============================================================================
