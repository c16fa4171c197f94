------------------------------- MODULE Headers -------------------------------
(***************************************************************************)
(* HTTP header sets, and what a hop of localfront does to them             *)
(* (internal/dataplane/headers.go).                                        *)
(*                                                                         *)
(* A header set maps each name it has to its lines, in order; a line is    *)
(* the sequence of its elements (the encodings of an Accept-Encoding, the  *)
(* pairs of a Cookie, one element if the header is not a list).  Names are *)
(* compared without regard to case by net/http, so a name is a token.      *)
(***************************************************************************)
EXTENDS Naturals, Sequences, SequencesExt

IsSeq(s) == s \in Seq(ToSet(s))

(* The lines of a header are a Go slice that is not empty.                 *)
IsHeaders(h) == \A n \in DOMAIN h : IsSeq(h[n]) /\ h[n] # <<>> /\ \A i \in DOMAIN h[n] : IsSeq(h[n][i])

(* The elements of s that are in set, in their order.                      *)
Kept(s, set) ==
  LET kept[i \in 0 .. Len(s)] ==
        IF i = 0 THEN <<>> ELSE IF s[i] \in set THEN Append(kept[i - 1], s[i]) ELSE kept[i - 1]
  IN  kept[Len(s)]

Restricted(h, names) == Restrict(h, DOMAIN h \cap names)

(* Header.Values and Header.Get: all the lines, and the first.             *)
Lines(h, n) == IF n \in DOMAIN h THEN h[n] ELSE <<>>
Get(h, n) == IF n \in DOMAIN h THEN h[n][1] ELSE <<>>

(* The headers of g, and those of f whatever g has there.                  *)
Overlay(f, g) == [n \in DOMAIN f \cup DOMAIN g |-> IF n \in DOMAIN f THEN f[n] ELSE g[n]]

(* Header.Set, Add and Del.                                                *)
SetLines(h, n, lines) == [k \in DOMAIN h \cup {n} |-> IF k = n THEN lines ELSE h[k]]
SetHeader(h, n, line) == SetLines(h, n, <<line>>)
AddHeader(h, n, line) == SetLines(h, n, Append(Lines(h, n), line))
DelHeaders(h, names) == Restrict(h, DOMAIN h \ names)

(* A header set unless it has an element of its own there.                 *)
SetUnless(h, n, line, override) == IF override \/ Get(h, n) = <<>> THEN SetHeader(h, n, line) ELSE h

Elements(lines) == UNION {ToSet(line) : line \in ToSet(lines)}

HopByHopHeaders == {"Connection", "Proxy-Connection", "Keep-Alive", "Proxy-Authenticate",
                    "Proxy-Authorization", "Te", "Trailer", "Transfer-Encoding", "Upgrade"}

(* removeHopByHopHeaders: what the first Connection line names, and the    *)
(* fixed ones.                                                             *)
RemoveHopByHopHeaders(h) == DelHeaders(h, ToSet(Get(h, "Connection")) \cup HopByHopHeaders)

(* addVia and appendXForwardedFor.                                         *)
AddVia(h, domain) == SetHeader(h, "Via", Append(Get(h, "Via"), domain))
AppendXForwardedFor(h, prior, ip) == SetHeader(h, "X-Forwarded-For", Append(prior, ip))
=============================================================================
