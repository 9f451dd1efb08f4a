----------------------------- MODULE MCServices -----------------------------
(***************************************************************************)
(* Model checking the services that handle requests.  They share no state  *)
(* here, so each behaviour is one of a single one of them, which `focus`   *)
(* chooses: the state spaces add up instead of multiplying.                *)
(***************************************************************************)
EXTENDS OrgMembership, AdminAccess, AuthSession, PasswordLogin, TwoFactor, OAuth, Review,
        LiveView, History, UserAccount, TLC

VARIABLE focus

vars == <<focus, orgVars, adminVars, authVars, loginVars, codeVars, oauthVars, reviewVars,
          viewVars, historyVars, accountVars>>

Init == /\ focus \in {"org", "admin", "auth", "login", "code", "oauth", "review", "view", "history",
                      "account"}
        /\ OrgInit /\ AdminInit /\ AuthInit /\ LoginInit /\ CodeInit /\ OAuthInit /\ ReviewInit
        /\ ViewInit /\ HistoryInit /\ AccountInit
        /\ focus # "code" => secret = "off"

OrgStep == /\ focus = "org" /\ OrgNext
           /\ UNCHANGED <<focus, adminVars, authVars, loginVars, codeVars,
                          oauthVars, reviewVars, viewVars, historyVars, accountVars>>
AdminStep == /\ focus = "admin" /\ AdminNext
             /\ UNCHANGED <<focus, orgVars, authVars, loginVars, codeVars,
                            oauthVars, reviewVars, viewVars, historyVars, accountVars>>
AuthStep == /\ focus = "auth" /\ AuthNext
            /\ UNCHANGED <<focus, orgVars, adminVars, loginVars, codeVars,
                           oauthVars, reviewVars, viewVars, historyVars, accountVars>>
LoginStep == /\ focus = "login" /\ LoginNext
             /\ UNCHANGED <<focus, orgVars, adminVars, authVars, codeVars,
                            oauthVars, reviewVars, viewVars, historyVars, accountVars>>
CodeStep == /\ focus = "code" /\ CodeNext
            /\ UNCHANGED <<focus, orgVars, adminVars, authVars, loginVars,
                           oauthVars, reviewVars, viewVars, historyVars, accountVars>>
OAuthStep == /\ focus = "oauth" /\ OAuthNext
             /\ UNCHANGED <<focus, orgVars, adminVars, authVars, loginVars,
                            codeVars, reviewVars, viewVars, historyVars, accountVars>>
ReviewStep == /\ focus = "review" /\ ReviewNext
              /\ UNCHANGED <<focus, orgVars, adminVars, authVars, loginVars,
                             codeVars, oauthVars, viewVars, historyVars, accountVars>>
ViewStep == /\ focus = "view" /\ ViewNext
            /\ UNCHANGED <<focus, orgVars, adminVars, authVars, loginVars,
                           codeVars, oauthVars, reviewVars, historyVars, accountVars>>
AccountStep == /\ focus = "account" /\ AccountNext
               /\ UNCHANGED <<focus, orgVars, adminVars, authVars, loginVars, codeVars,
                              oauthVars, reviewVars, viewVars, historyVars>>
HistoryStep == /\ focus = "history" /\ HistoryNext
               /\ UNCHANGED <<focus, orgVars, adminVars, authVars, loginVars,
                              codeVars, oauthVars, reviewVars, viewVars, accountVars>>

Next == \/ OrgStep \/ AdminStep \/ AuthStep \/ LoginStep \/ CodeStep \/ OAuthStep
        \/ ReviewStep \/ ViewStep \/ HistoryStep \/ AccountStep

Spec == Init /\ [][Next]_vars

\* Every component's variables have their types.
TypesOK == /\ OrgTypeOK /\ AdminTypeOK /\ AuthTypeOK /\ LoginTypeOK /\ CodeTypeOK
           /\ OAuthTypeOK /\ ReviewTypeOK /\ ViewTypeOK /\ HistoryTypeOK
           /\ AccountTypeOK

-----------------------------------------------------------------------------
\* Ids and people that nothing tells apart.  A service has at most one set of
\* ids in each of the three; the configuration gives them the same values.
Symmetry == {f @@ g @@ h : f \in Permutations(Req), g \in Permutations(Invitation),
                           h \in Permutations(Secret)}

\* Where the properties say nothing once requests have overlapped, what comes
\* after the first overlap is left out; and so are ever more wrong passwords,
\* the time that passes once two access tokens are open, and what comes after
\* an overlap of renewals and resets once the refresh tokens have run out.
Bound == /\ overlapped = {} /\ adminOverlap = {} /\ codeOverlap = {} /\ oauthOverlap = {}
         /\ historyOverlap = {} /\ accountOverlap = {}
         /\ authOverlap # {} => Token # Issued
         /\ Cardinality(Opened) > 1 => \A a \in Opened : access[a].left = Life
         /\ failed <= MaxFailedAttempts + 2 /\ wrong <= MaxFailedAttempts + 2
=============================================================================
