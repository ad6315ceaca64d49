------------------------------ MODULE Routing ------------------------------
(***************************************************************************)
(* robomp/github_events.py: what a webhook asks for (route), which key its *)
(* task is serialized under, whether it speaks with the authority of a     *)
(* maintainer, and how many submissions its author has (rate_limit_cap).   *)
(*                                                                         *)
(* An event is a record: type, action, number, onPull (the issue of a      *)
(* comment is a pull request), by (the submitter), assoc (an association   *)
(* of GitHub's, or "absent" when the payload names none), mention (the     *)
(* body names the bot), owns (by owns the personal repository), pullBy     *)
(* (the author of the pull request), ready (open and no draft) and release *)
(* (a workflow run of a release commit on the default branch or a tag).    *)
(***************************************************************************)
EXTENDS Naturals

CONSTANTS
    Bots,           \* accounts of ours, "[bot]" logins and accounts of type Bot
    Self,           \* the login of the bot
    ReviewerBots,   \* settings.reviewer_bots
    Maintainers,    \* settings.maintainer_logins
    Unrestricted,   \* settings.rate_limit_unlimited
    Default,        \* settings.rate_limit_default
    Contributor,    \* settings.rate_limit_contributor
    Unlimited       \* no cap

ASSUME RoutingAssumption ==
    /\ Self \in Bots
    /\ Default \in Nat
    /\ Contributor \in Nat
    /\ Unlimited \notin Nat

Trusted == {"OWNER", "MEMBER", "COLLABORATOR"}

NoDirective == [directive |-> FALSE, authorizes |-> FALSE]

Decision(task, key, by, assoc, order) ==
    [task |-> task, key |-> key, by |-> by, assoc |-> assoc,
     directive |-> order.directive, authorizes |-> order.authorizes]

Lifecycle == "nobody"

Skip == Decision("skip", 0, Lifecycle, "absent", NoDirective)

\* _effective_association, for comments only: the owner of a personal
\* repository is taken for one where the payload names no association.  The
\* association "NONE" is one, and stays.
EffectiveAssociation(e) == IF e.assoc = "absent" /\ e.owns THEN "OWNER" ELSE e.assoc

IsMaintainer(login, assoc) == login \in Maintainers \/ assoc \in Trusted

\* is_implementation_authorizer.
IsAuthorizer(login, assoc) == login \in Maintainers \/ assoc = "OWNER"

\* _directive_kwargs: reviewer bots, and maintainers that mention the bot.
Directive(e, assoc) ==
    CASE e.by \in ReviewerBots -> [directive |-> TRUE, authorizes |-> FALSE]
      [] e.by \notin ReviewerBots /\ IsMaintainer(e.by, assoc) /\ e.mention ->
            [directive |-> TRUE, authorizes |-> IsAuthorizer(e.by, assoc)]
      [] OTHER -> NoDirective

\* A comment with the authority of its author.
Comment(task, key, e) ==
    LET assoc == EffectiveAssociation(e)
    IN  Decision(task, key, e.by, assoc, Directive(e, assoc))

BotComment(e) == e.by \in Bots \ ReviewerBots

\* The key of a pull request: its issue's, if the database knows it (pulls).
PrKey(pulls, number) == IF number \in DOMAIN pulls THEN pulls[number] ELSE number

RouteIssue(e) ==
    CASE e.onPull -> Skip
      [] ~e.onPull /\ e.action \in {"opened", "reopened"} ->
            Decision("triage_issue", e.number, e.by, e.assoc, NoDirective)
      [] ~e.onPull /\ e.action = "closed" ->
            Decision("cleanup_workspace", e.number, Lifecycle, "absent", NoDirective)
      [] OTHER -> Skip

RouteIssueComment(e, pulls) ==
    CASE e.action # "created" \/ BotComment(e) -> Skip
      [] e.action = "created" /\ ~BotComment(e) /\ e.onPull /\ e.pullBy = Self ->
            Comment("handle_pr_conversation", PrKey(pulls, e.number), e)
      [] e.action = "created" /\ ~BotComment(e) /\ ~e.onPull ->
            Comment("handle_comment", e.number, e)
      [] OTHER -> Skip

RouteReviewComment(e, pulls) ==
    IF e.action # "created" \/ BotComment(e) \/ e.pullBy # Self THEN Skip
    ELSE Comment("handle_review", PrKey(pulls, e.number), e)

RoutePull(e, pulls) ==
    CASE e.action \in {"opened", "reopened", "ready_for_review"} /\ e.ready /\ e.by \notin Bots ->
            Decision("review_pr", e.number, e.by, e.assoc, NoDirective)
      [] e.action = "closed" ->
            Decision("cleanup_workspace", PrKey(pulls, e.number), Lifecycle, "absent", NoDirective)
      [] OTHER -> Skip

\* workflow_run.completed of a release; all of a repository share key 0.
RouteWorkflow(e) ==
    IF e.release THEN Decision("handle_release_ci", 0, Lifecycle, "absent", NoDirective) ELSE Skip

Route(e, pulls) ==
    CASE e.type = "issues" -> RouteIssue(e)
      [] e.type = "issue_comment" -> RouteIssueComment(e, pulls)
      [] e.type = "pull_request_review_comment" -> RouteReviewComment(e, pulls)
      [] e.type = "pull_request" -> RoutePull(e, pulls)
      [] OTHER -> RouteWorkflow(e)

\* rate_limit_cap.
RateLimitCap(login, assoc) ==
    CASE login \in Unrestricted \union Maintainers \/ assoc \in Trusted -> Unlimited
      [] login \notin Unrestricted \union Maintainers /\ assoc = "CONTRIBUTOR" -> Contributor
      [] OTHER -> Default
=============================================================================
