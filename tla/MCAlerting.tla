----------------------------- MODULE MCAlerting -----------------------------
(***************************************************************************)
(* Reports of one host put together from a few services, so that ports     *)
(* open and close, a CVE is rated higher elsewhere, entries are repeated   *)
(* or listed in another order, and the host goes offline.                  *)
(***************************************************************************)
EXTENDS Alerting

Plain == [expired |-> FALSE, subject |-> NoName, issuer |-> NoName, versions |-> {}]

Service(port, module) ==
    [port |-> port, module |-> module, transport |-> "tcp", product |-> TRUE, vulns |-> <<>>,
     screenshot |-> "none", anonymous |-> FALSE, shares |-> {}, mqtt |-> FALSE, ssl |-> Plain]

Rated(cvss, verified) == ("CVE" :> [cvss |-> cvss, verified |-> verified])

web == [Service(443, NoName) EXCEPT !.vulns = Rated(50, FALSE),
           !.ssl = [expired |-> FALSE, subject |-> "host", issuer |-> "host", versions |-> {"TLSv1.2", "-SSLv3"}]]

redis == [Service(6379, "redis") EXCEPT !.vulns = Rated(98, TRUE)]

console == [Service(5900, "http") EXCEPT !.screenshot = "plain"]

desktop == [Service(5900, "vnc") EXCEPT !.screenshot = "plain"]

share == [Service(445, "smb") EXCEPT !.anonymous = TRUE, !.shares = {"pub"}]

Report(data, vulns, defaultPassword) ==
    [ports |-> [i \in DOMAIN data |-> data[i].port], vulns |-> vulns,
     defaultPassword |-> defaultPassword, data |-> data]

HostReports ==
    [nothing  |-> Report(<<>>, <<>>, FALSE),
     named    |-> Report(<<web, console>>, <<"CVE">>, FALSE),
     more     |-> Report(<<web, console, redis>>, <<"CVE">>, FALSE),
     reversed |-> Report(<<redis, console, web>>, <<"CVE", "">>, FALSE),
     screens  |-> Report(<<console, desktop, share, share>>, <<>>, TRUE)]

\* The other table minds only whether a CVE is verified.
Tables ==
    [default |-> DefaultWeights,
     flat    |-> [DefaultWeights EXCEPT !.CVECritical = Points(1), !.CVEHigh = Points(1),
                     !.CVEMedium = Points(1), !.VerifiedMultiplier = 30,
                     !.ExposedDatabase = 0, !.SensitivePort = 0]]

ASSUME TablesAreSensible == \A name \in DOMAIN Tables : Sensible(Tables[name])

Watch(condition, bound, grade, remote) ==
    [condition |-> condition, bound |-> bound, grade |-> grade, remote |-> remote]

AllWatches ==
    {Watch(c, 0, "B", FALSE) : c \in {"new_open_port", "grade_drops_below", "asset_online"}}
    \union {Watch("cve_cvss_at_least", 70, "B", FALSE), Watch("new_screenshot_service", 0, "B", TRUE),
            Watch("score_drop_at_least", 10, "B", FALSE)}

SomeWatches == {Watch("cve_cvss_at_least", 70, "B", FALSE)}

=============================================================================
