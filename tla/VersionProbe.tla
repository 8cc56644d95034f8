---------------------------- MODULE VersionProbe ----------------------------
(***************************************************************************)
(* run_version_probe(): which of the probes are sent to a port, over which *)
(* transport, which answer is taken for the service, and what is retried   *)
(* when an answer shows that the transport or the request was wrong.       *)
(***************************************************************************)
EXTENDS Integers, FiniteSets, Sequences, SequencesExt

CONSTANTS
    ProbeList,      \* sequence of [name, null, http, explicit]
    RedirectHops    \* max_hops of follow_redirects_fp

\* What a capture may return: nothing, a raw TLS record (only over plain TCP),
\* a banner, or an HTTP answer of a status class.
Plain == {"none", "alert", "banner", "ok", "bad400", "denied", "moved"}
Tls == Plain \ {"alert"}
Http == {"ok", "bad400", "denied", "moved"}
Client4xx == {"bad400", "denied"}

\* capture_udp: two attempts, each with its timeout; any data is a banner.
Udp == {"none", "banner"}

\* capture_mqtt: no connection, the CONNACK and what follows it, or no CONNACK
\* within the timeout: the result -1 of recv is taken for a length, and the
\* insertion of -1 bytes throws.
Mqtt == {"none", "banner", "exception"}

\* Where a redirect leads to: a URL names its scheme, a path keeps it.
Schemes == {"http", "https"}

\* The ways a capture is made: the user's wish, or decide_method on the port.
Modes == {"udp", "raw", "http", "https", "mqtt", "sslports", "auto"}

NoAnswer == [kind |-> "none", via |-> "none"]

VARIABLES
    vpPc,
    mode,           \* the way the capture is made
    isSsl,          \* is_ssl
    probeIdx,        \* attempt_idx
    cur,            \* the answer under consideration: [kind, via]
    resp,           \* response
    label,          \* method_label
    scheme,         \* cur_scheme of follow_redirects_fp
    hop,
    back,           \* where do_400_ssl_twin_fingerprint returns to
    fps,            \* http_fps: transports the fingerprints were marked with
    nullClosed,     \* null_close_ms >= 0
    switched,       \* switched_to_ssl_midstream
    sent,           \* probes sent, in order
    verdict,        \* what was printed for the port
    stopProbe       \* terminate_flag

versionVars == <<vpPc, mode, isSsl, probeIdx, cur, resp, label, scheme, hop, back, fps,
                 nullClosed, switched, sent, verdict, stopProbe>>

VersionInit ==
    /\ vpPc = "start"
    /\ mode \in Modes
    /\ isSsl = FALSE /\ probeIdx = 1 /\ cur = NoAnswer /\ resp = NoAnswer
    /\ label = "" /\ scheme = "http" /\ hop = 0 /\ back = "" /\ fps = {}
    /\ nullClosed = FALSE /\ switched = FALSE /\ sent = <<>> /\ verdict = ""
    /\ stopProbe = FALSE

----------------------------------------------------------------------------
\* One answer of capture_tcp, or of capture_ssl and, after nothing,
\* capture_ssl_permissive.
CaptureOver(via) == {[kind |-> k, via |-> via] : k \in IF via = "tls" THEN Tls ELSE Plain}

Empty(r) == r.kind = "none"
Done == UNCHANGED <<verdict, stopProbe>>
probing == <<mode, probeIdx, nullClosed, sent>>
idle == <<resp, label, scheme, hop, back, fps>>

\* follow_redirects_tcp_fp or _ssl_fp, and then capture_done.
Follow(r, s, l) ==
    /\ cur' = r /\ scheme' = s /\ hop' = 0 /\ label' = l /\ vpPc' = "follow"
    /\ UNCHANGED <<resp, back, fps>>

\* The answer is the response.
Take(r, l, mark) ==
    /\ resp' = r /\ label' = l /\ vpPc' = "captured"
    /\ fps' = fps \cup mark
    /\ UNCHANGED <<cur, scheme, hop, back>>

Twin(r, ret) ==
    /\ cur' = r /\ back' = ret /\ fps' = fps \cup {"http"} /\ vpPc' = "twin"
    /\ UNCHANGED <<resp, label, scheme, hop>>

----------------------------------------------------------------------------
\* The ways without a plan of probes.

CaptureDirect ==
    /\ vpPc = "start" /\ mode \in {"udp", "raw"}
    /\ \E k \in IF mode = "udp" THEN Udp ELSE Plain :
          Take([kind |-> k, via |-> "tcp"], mode, {})
    /\ UNCHANGED <<probing, isSsl, switched>> /\ Done

\* An exception ends the capture; thread_worker catches it and goes on with
\* the other ports.
CaptureMqtt ==
    /\ vpPc = "start" /\ mode = "mqtt"
    /\ \E k \in Mqtt :
          IF k = "exception" THEN vpPc' = "thrown" /\ UNCHANGED <<cur, idle>>
          ELSE Take([kind |-> k, via |-> "tcp"], mode, {})
    /\ UNCHANGED <<probing, isSsl, switched>> /\ Done

CaptureHttp ==
    /\ vpPc = "start" /\ mode = "http"
    /\ \E r \in CaptureOver("tcp") :
          IF r.kind \in Client4xx THEN Twin(r, "forced")
          ELSE IF r.kind = "moved" THEN Follow(r, "http", "http-redirect")
          ELSE Take(r, "http", IF Empty(r) THEN {} ELSE {"http"})
    /\ UNCHANGED <<probing, isSsl, switched>> /\ Done

CaptureHttps ==
    /\ vpPc = "start" /\ mode = "https"
    /\ \E r \in CaptureOver("tls") :
          IF r.kind = "moved" THEN Follow(r, "https", "https-redirect")
          ELSE Take(r, "https", IF Empty(r) THEN {} ELSE {"https"})
    /\ UNCHANGED <<probing, isSsl, switched>> /\ Done

\* A port of sslports is TLS; any other is if the pre-check says so.
PlanProbes ==
    /\ vpPc = "start" /\ mode \in {"sslports", "auto"}
    /\ isSsl' \in IF mode = "sslports" THEN {TRUE} ELSE BOOLEAN
    /\ vpPc' = "probe"
    /\ UNCHANGED <<probing, cur, resp, label, scheme, hop, back, fps, switched>> /\ Done

----------------------------------------------------------------------------
\* The probes of S, in the order of the list.
Those(S) ==
    LET pick[i \in 0 .. Len(ProbeList)] ==
          IF i = 0 THEN <<>>
          ELSE IF ProbeList[i] \in S THEN Append(pick[i - 1], ProbeList[i])
          ELSE pick[i - 1]
    IN  pick[Len(ProbeList)]

\* The NULL probe first, then those that name the port, then the common ones.
Plan ==
    LET all == ToSet(ProbeList)
    IN  Those({p \in all : p.null}) \o Those({p \in all : ~p.null /\ p.explicit})
          \o Those({p \in all : ~p.null /\ ~p.explicit})

Sending == vpPc = "probe" /\ probeIdx <= Len(Plan) /\ ~stopProbe
Probe == Plan[probeIdx]
SendProbe ==
    /\ Sending
    /\ \E r \in CaptureOver(IF isSsl THEN "tls" ELSE "tcp") :
          /\ cur' = r
          /\ nullClosed' \in {nullClosed} \cup
                IF ~isSsl /\ Probe.null /\ Empty(r) THEN {TRUE} ELSE {}
          /\ vpPc' = IF Empty(r) THEN "next" ELSE "judge"
    /\ switched' = FALSE
    /\ sent' = Append(sent, Probe.name)
    /\ UNCHANGED <<mode, isSsl, probeIdx, idle>> /\ Done

NextProbe ==
    /\ vpPc = "next"
    /\ probeIdx' = probeIdx + 1 /\ vpPc' = "probe"
    /\ UNCHANGED <<mode, isSsl, cur, nullClosed, switched, sent, idle>> /\ Done

\* Fault: when TLS has no answer either, the port is given up.
SwitchToSslGivesUp ==
    /\ vpPc = "judge" /\ ~isSsl /\ cur.kind = "alert"
    /\ isSsl' = TRUE /\ switched' = TRUE
    /\ \E r \in CaptureOver("tls") :
          cur' = r /\ vpPc' = IF Empty(r) THEN "captured" ELSE "judge"
    /\ UNCHANGED <<probing, idle>> /\ Done

\* A raw TLS record on a plaintext attempt: TLS from here on, this probe again.
SwitchToSsl ==
    /\ vpPc = "judge" /\ ~isSsl /\ cur.kind = "alert"
    /\ isSsl' = TRUE /\ switched' = TRUE
    /\ \E r \in CaptureOver("tls") :
          cur' = r /\ vpPc' = IF Empty(r) THEN "next" ELSE "judge"
    /\ UNCHANGED <<probing, idle>> /\ Done

Judged == vpPc = "judge" /\ cur.kind # "alert"

\* An HTTP error to the NULL probe says nothing: the next probe.
SkipNullHttp == cur.kind \in Http \ {"ok"} /\ Probe.null

JudgeNull ==
    /\ Judged /\ SkipNullHttp
    /\ vpPc' = "next"
    /\ UNCHANGED <<probing, isSsl, cur, switched, idle>> /\ Done

\* Port 9100 is no printer if it answers hp-pjl with an HTTP error: a GET over
\* plain TCP, and without an answer to it the first one is judged as any other.
JudgePrinter ==
    /\ Judged /\ ~SkipNullHttp /\ Probe.name = "hp-pjl" /\ cur.kind \in Client4xx
    /\ \E r \in CaptureOver("tcp") :
          ~Empty(r) /\ Take(r, "http/port9100-fallback", {})
    /\ UNCHANGED <<probing, isSsl, switched>> /\ Done

\* A GET in place of a probe HTTP does not understand; it keeps the first
\* answer when there is none.
GetInstead == ~Probe.http /\ (~isSsl \/ switched) /\ cur.kind = "bad400"

JudgeGetInstead ==
    /\ Judged /\ ~SkipNullHttp /\ GetInstead
    /\ \E r \in CaptureOver(IF isSsl THEN "tls" ELSE "tcp") :
          IF Empty(r) THEN Take(cur, IF isSsl THEN "ssl/probe" ELSE "probe", {})
          ELSE IF r.kind = "moved" THEN Follow(r, "http", "http-get-fallback-redirect")
          ELSE Take(r, "http-get-fallback", {IF isSsl THEN "https" ELSE "http"})
    /\ UNCHANGED <<probing, isSsl, switched>> /\ Done

\* 4xx to an HTTP probe over plain TCP: perhaps TLS was meant.
JudgeTwin ==
    /\ Judged /\ Probe.http /\ ~isSsl /\ cur.kind \in Client4xx
    /\ Twin(cur, "probe")
    /\ UNCHANGED <<probing, isSsl, switched>> /\ Done

\* No TLS there: a GET with a Host header.
HostRetryPlain ==
    /\ vpPc = "hostretry"
    /\ \E r \in CaptureOver("tcp") :
          IF Empty(r) THEN Take(cur, "probe", {})
          ELSE IF r.kind = "moved" THEN Follow(r, "http", "http-host-retry-redirect")
          ELSE Take(r, "http-host-retry", {"http"})
    /\ UNCHANGED <<probing, isSsl, switched>> /\ Done

\* The same over TLS; its redirects are followed by the routine for plain HTTP.
HostRetrySsl ==
    /\ Judged /\ Probe.http /\ isSsl /\ cur.kind \in Client4xx
    /\ \E r \in CaptureOver("tls") :
          IF Empty(r) THEN Take(cur, "ssl/probe", {})
          ELSE IF r.kind = "moved" THEN Follow(r, "http", "http-host-retry-ssl-redirect")
          ELSE Take(r, "http-host-retry-ssl", {"https"})
    /\ UNCHANGED <<probing, isSsl, switched>> /\ Done

JudgeRedirect ==
    /\ Judged /\ Probe.http /\ cur.kind = "moved"
    /\ IF isSsl THEN Follow(cur, "https", "ssl-redirect")
                ELSE Follow(cur, "http", "http-redirect")
    /\ UNCHANGED <<probing, isSsl, switched>> /\ Done

AcceptAnswer ==
    /\ Judged /\ ~SkipNullHttp /\ ~GetInstead
    /\ Probe.http => cur.kind \in {"banner", "ok"}
    /\ Take(cur, IF isSsl THEN "ssl/probe" ELSE "probe", {})
    /\ UNCHANGED <<probing, isSsl, switched>> /\ Done

----------------------------------------------------------------------------
\* follow_redirects_fp: source and destination of every hop leave a
\* fingerprint; no Location, a target refused or silent, or the last hop ends
\* it with the answer it has.
FollowHop ==
    /\ vpPc = "follow" /\ hop < RedirectHops /\ cur.kind = "moved"
    /\ \E s \in Schemes :
       \E r \in CaptureOver(IF s = "https" THEN "tls" ELSE "tcp") :
          /\ ~Empty(r)
          /\ cur' = r /\ scheme' = s /\ hop' = hop + 1
          /\ fps' = fps \cup {scheme, s}
    /\ UNCHANGED <<vpPc, probing, isSsl, switched, resp, label, back>> /\ Done

FollowEnds ==
    /\ vpPc = "follow"
    /\ resp' = cur /\ vpPc' = "captured"
    /\ fps' \in {fps} \cup IF cur.kind = "moved" /\ hop < RedirectHops
                             THEN {fps \cup {scheme}} ELSE {}
    /\ UNCHANGED <<probing, isSsl, switched, cur, label, scheme, hop, back>> /\ Done

\* do_400_ssl_twin_fingerprint: the request over TLS; without an answer its
\* caller goes on with the 4xx.
TwinAnswers ==
    /\ vpPc = "twin"
    /\ \E r \in CaptureOver("tls") :
          /\ ~Empty(r)
          /\ IF r.kind = "moved"
               THEN /\ cur' = r /\ scheme' = "https" /\ hop' = 0 /\ vpPc' = "follow"
                    /\ UNCHANGED resp
               ELSE resp' = r /\ vpPc' = "captured" /\ UNCHANGED <<cur, scheme, hop>>
    /\ fps' = fps \cup {"https"}
    /\ label' = "ssl-after-4xx"
    /\ UNCHANGED <<probing, isSsl, switched, back>> /\ Done

TwinFails ==
    /\ vpPc = "twin"
    /\ IF back = "probe"
         THEN vpPc' = "hostretry" /\ UNCHANGED <<resp, label, fps>>
         ELSE /\ resp' = cur /\ vpPc' = "captured" /\ label' = "http"
              /\ fps' = fps \cup {"http"}
    /\ UNCHANGED <<probing, isSsl, switched, cur, scheme, hop, back>> /\ Done

----------------------------------------------------------------------------
\* capture_fallback, when no probe had an answer: plain HTTP, TLS, and plain
\* HTTP from port 443.
Exhausted == vpPc = "probe" /\ probeIdx > Len(Plan) /\ ~stopProbe

FallbackHttp ==
    /\ Exhausted \/ vpPc = "fallback443"
    /\ \E r \in CaptureOver("tcp") :
          IF Empty(r)
            THEN IF vpPc = "probe"
                   THEN vpPc' = "fallbackTls" /\ UNCHANGED <<cur, idle>>
                   ELSE Take(NoAnswer, "none", {})
          ELSE IF r.kind \in Client4xx THEN Twin(r, "fallback")
          ELSE IF r.kind = "moved" THEN Follow(r, "http", "http")
          ELSE Take(r, "http", {"http"})
    /\ UNCHANGED <<probing, isSsl, switched>> /\ Done

FallbackTls ==
    /\ vpPc = "fallbackTls"
    /\ \E r \in CaptureOver("tls") :
          IF Empty(r) THEN vpPc' = "fallback443" /\ UNCHANGED <<cur, idle>>
          ELSE IF r.kind = "moved" THEN Follow(r, "https", "Default TLS")
          ELSE Take(r, "Default TLS", {"https"})
    /\ UNCHANGED <<probing, isSsl, switched>> /\ Done

Interrupted ==
    /\ vpPc = "probe" /\ stopProbe
    /\ vpPc' = "captured"
    /\ UNCHANGED <<probing, isSsl, switched, cur, idle>> /\ Done

----------------------------------------------------------------------------
\* The transport is told from the label.
FinalSsl == label \in {"ssl/probe", "https", "https-redirect", "Default TLS",
                       "ssl-after-4xx", "ssl-redirect"}

\* No answer: tcpwrapped if the NULL probe was closed in our face.  With one,
\* the match, the assets, the client-side redirect and the websocket check,
\* each of which only adds fingerprints, and the line is printed.
PrintVerdict ==
    /\ vpPc = "captured"
    /\ IF Empty(resp)
         THEN /\ verdict' \in {"no response"} \cup
                    IF mode # "udp" /\ nullClosed THEN {"tcpwrapped"} ELSE {}
              /\ UNCHANGED fps
         ELSE /\ verdict' = IF FinalSsl THEN "service over TLS" ELSE "service"
              /\ fps' = IF fps = {} THEN {IF FinalSsl THEN "https" ELSE "http"} ELSE fps
    /\ vpPc' = "done"
    /\ UNCHANGED <<probing, isSsl, switched, cur, resp, label, scheme, hop, back, stopProbe>>

VersionOver == vpPc \in {"done", "thrown"}

StopProbe ==
    /\ ~VersionOver /\ ~stopProbe
    /\ stopProbe' = TRUE
    /\ UNCHANGED <<vpPc, probing, isSsl, switched, cur, resp, label, scheme, hop, back,
                   fps, verdict>>

VersionStep ==
    \/ CaptureDirect \/ CaptureMqtt \/ CaptureHttp \/ CaptureHttps \/ PlanProbes
    \/ SendProbe \/ NextProbe \/ SwitchToSsl \/ JudgeNull \/ JudgePrinter
    \/ JudgeGetInstead \/ JudgeTwin \/ HostRetryPlain \/ HostRetrySsl \/ JudgeRedirect \/ AcceptAnswer
    \/ FollowHop \/ FollowEnds \/ TwinAnswers \/ TwinFails
    \/ FallbackHttp \/ FallbackTls \/ Interrupted \/ PrintVerdict

VersionNext == VersionStep \/ StopProbe

----------------------------------------------------------------------------
\* No probe is sent twice and none is left out: a port with a service keeps
\* none of the later probes, and "no response" or "tcpwrapped" is printed only
\* after every probe and the fallbacks, unless the user interrupted.
ProbesExhausted ==
    /\ IsPrefix(sent, [i \in 1 .. Len(Plan) |-> Plan[i].name])
    /\ verdict \in {"no response", "tcpwrapped"} /\ mode \in {"auto", "sslports"} =>
          stopProbe \/ (Len(sent) = Len(Plan) /\ label = "none")
=============================================================================
