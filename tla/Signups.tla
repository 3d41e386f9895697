------------------------------- MODULE Signups -------------------------------
(***************************************************************************)
(* How a company comes to be.  SignupService: whoever wants a shop fills   *)
(* in a form, a link comes by mail, and opening it makes the company, its  *)
(* administrator and its trial in one transaction.                         *)
(* TenantService.registrar: the platform enters the company; with a        *)
(* template of a catalogue, `importar' commits half way.                   *)
(*                                                                         *)
(* The tax number of a company is unique as its slug is, and is left out.  *)
(***************************************************************************)
EXTENDS Naturals

CONSTANTS Slugs,        \* the names the companies ask for
          Spares,       \* the names with a number behind them
          Emails,
          Links,        \* the mails with a link
          SignupCalls,
          NoLink        \* where a link could stand: the platform entered it

SignupAssumption == NoLink \notin Links

VARIABLES company,      \* per name: made, its administrator, where it came from
          user,         \* per e-mail: free, live or deleted
          mail,         \* per link: what was asked for, and what became of it
          entering      \* the requests under way

signupVars == <<company, user, mail, entering>>

Names == Slugs \union Spares

NoCompany == [made |-> FALSE, admin |-> FALSE, contact |-> "", from |-> NoLink,
              template |-> FALSE, again |-> FALSE]

NoMail == [state |-> "none", slug |-> "", email |-> ""]

NotEntering == [busy |-> FALSE, from |-> NoLink, slug |-> "", email |-> "",
                template |-> FALSE, imported |-> FALSE, again |-> FALSE]

Open(s) == ~ company[s].made

\* The form: a name nobody has, an e-mail no live user and no company has; a
\* deleted user does not count here.
Solicitar(l, s, e) ==
    /\ mail[l].state = "none"
    /\ Open(s)
    /\ user[e] # "live"
    /\ \A n \in Names : ~ Open(n) => company[n].contact # e
    /\ mail' = [mail EXCEPT ![l] = [state |-> "sent", slug |-> s, email |-> e]]
    /\ UNCHANGED <<company, user, entering>>

Expire(l) ==
    /\ mail[l].state = "sent"
    /\ mail' = [mail EXCEPT ![l].state = "expired"]
    /\ UNCHANGED <<company, user, entering>>

\* The link is opened: it is there, unused and in time, and the name is
\* another one if it went to somebody else.
Verificar(c, l) ==
    /\ ~ entering[c].busy
    /\ mail[l].state = "sent"
    /\ \E s \in IF Open(mail[l].slug) THEN {mail[l].slug} ELSE Spares :
           entering' = [entering EXCEPT ![c] =
               [NotEntering EXCEPT !.busy = TRUE, !.from = l, !.slug = s,
                                   !.email = mail[l].email]]
    /\ UNCHANGED <<company, user, mail>>

\* The platform enters a company: an e-mail of a deleted user counts here.
Registrar(c, s, e, template) ==
    /\ ~ entering[c].busy
    /\ Open(s)
    /\ user[e] = "free"
    /\ entering' = [entering EXCEPT ![c] =
           [NotEntering EXCEPT !.busy = TRUE, !.slug = s, !.email = e,
                               !.template = template]]
    /\ UNCHANGED <<company, user, mail>>

Made(call) == [made |-> TRUE, admin |-> FALSE, contact |-> call.email,
               from |-> call.from, template |-> call.template,
               again |-> call.again]

\* The template's categories, sizes, colours and seasons go in, and the
\* company with them: importar commits.  A name that went fails the request.
Importar(c) ==
    /\ entering[c].busy /\ entering[c].template /\ ~ entering[c].imported
    /\ LET call == entering[c]
       IN  IF Open(call.slug)
           THEN /\ company' = [company EXCEPT ![call.slug] = Made(call)]
                /\ entering' = [entering EXCEPT ![c].imported = TRUE]
           ELSE /\ entering' = [entering EXCEPT ![c] = NotEntering]
                /\ UNCHANGED company
    /\ UNCHANGED <<user, mail>>

\* tenants.slug and users.email are unique, a deleted user's too.
Accepted(call) == (call.imported \/ Open(call.slug)) /\ user[call.email] = "free"

Enter(c) ==
    /\ entering[c].busy
    /\ entering[c].template => entering[c].imported
    /\ LET call == entering[c]
       IN  IF Accepted(call)
           THEN /\ company' = [company EXCEPT ![call.slug] =
                       [(IF call.imported THEN @ ELSE Made(call)) EXCEPT !.admin = TRUE]]
                /\ user' = [user EXCEPT ![call.email] = "live"]
                /\ mail' = [l \in Links |-> IF l = call.from
                                            THEN [mail[l] EXCEPT !.state = "used"]
                                            ELSE mail[l]]
           ELSE UNCHANGED <<company, user, mail>>
    /\ entering' = [entering EXCEPT ![c] = NotEntering]

\* The process goes down, or the database does.
Fail(c) ==
    /\ entering[c].busy
    /\ entering' = [entering EXCEPT ![c] = NotEntering]
    /\ UNCHANGED <<company, user, mail>>

\* Somebody registers with the e-mail, to buy.
Register(e) ==
    /\ user[e] = "free"
    /\ user' = [user EXCEPT ![e] = "live"]
    /\ UNCHANGED <<company, mail, entering>>

\* Whoever has the e-mail takes another one, and it is free again.
ChangeEmail(e, f) ==
    /\ user[e] = "live" /\ user[f] = "free"
    /\ user' = [user EXCEPT ![e] = "free", ![f] = "live"]
    /\ entering' = [c \in SignupCalls |->
           [entering[c] EXCEPT !.again = @ \/ (entering[c].busy /\ entering[c].email = e)]]
    /\ UNCHANGED <<company, mail>>

DeleteUser(e) ==
    /\ user[e] = "live"
    /\ user' = [user EXCEPT ![e] = "deleted"]
    /\ UNCHANGED <<company, mail, entering>>

ChangeContact(s, e) ==
    /\ ~ Open(s) /\ company[s].contact # e
    /\ company' = [company EXCEPT ![s].contact = e]
    /\ UNCHANGED <<user, mail, entering>>

SignupInit ==
    /\ company = [s \in Names |-> NoCompany]
    /\ user = [e \in Emails |-> "free"]
    /\ mail = [l \in Links |-> NoMail]
    /\ entering = [c \in SignupCalls |-> NotEntering]

SignupNext ==
    \/ \E c \in SignupCalls :
          \/ \E l \in Links : Verificar(c, l)
          \/ \E s \in Slugs, e \in Emails, template \in BOOLEAN :
                Registrar(c, s, e, template)
          \/ Importar(c)
          \/ Enter(c)
          \/ Fail(c)
    \/ \E l \in Links :
          \/ Expire(l)
          \/ \E s \in Slugs, e \in Emails : Solicitar(l, s, e)
    \/ \E e \in Emails :
          \/ Register(e)
          \/ DeleteUser(e)
          \/ \E f \in Emails : ChangeEmail(e, f)
          \/ \E s \in Names : ChangeContact(s, e)

-----------------------------------------------------------------------------
\* A link is used when a company came of it, and one company only: verificar
\* (signup_service.py:194) looks at verified_at before it decides and never
\* again, and what stops the second request is that users.email is unique;
\* not if the administrator took another e-mail while it was deciding.
OneCompanyPerLink ==
    \A l \in Links :
        LET made == {s \in Names : ~ Open(s) /\ company[s].from = l}
        IN  /\ made # {} <=> mail[l].state = "used"
            /\ \A s, t \in made : s # t => company[s].again \/ company[t].again

\* A company without its administrator and its subscription is one that the
\* platform entered from a template: importar (catalog_template_service.py:277)
\* commits before they are there, and what fails afterwards leaves it behind.
WholeUnlessTemplate ==
    \A s \in Names : ~ Open(s) /\ ~ company[s].admin => company[s].template

=============================================================================
