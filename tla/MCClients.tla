------------------------------ MODULE MCClients ------------------------------
(***************************************************************************)
(* One run for the backend's clients, the parts of the console and the     *)
(* wallets, which share no state: each behaviour is one part's, the others *)
(* stay as they were before anything happened.                             *)
(***************************************************************************)
EXTENDS MCConsole, Tables, Columns, Exchange

VARIABLE part

\* Rows: two made in the same moment, and a later one.
TwoOfAnAge == <<1, 1, 2>>
\* The lists begin empty, or full.
FewRows    == {<<"absent", "absent", "absent">>, <<"pending", "issued", "pending">>}
OneText    == [x \in Texts |-> IF x = "a" THEN {1, 3} ELSE {}]

FiveHeaders == <<"status", "did", "type", "date", "actions">>
RowMenu     == {"actions"}

OneHolder  == [a \in Attempts |-> "did"]
Usual      == [how |-> "holder", did |-> TRUE, state |-> TRUE, redirect |-> TRUE,
               scope |-> "openid", challenge |-> "s256", types |-> "supported",
               vpType |-> FALSE, offer |-> 1, pin |-> TRUE]
Stateless  == [Usual EXCEPT !.state = FALSE]
Presents   == [Usual EXCEPT !.scope = "presentation"]
Otherwise  == [Presents EXCEPT !.challenge = "other"]
NoRedirect == [Usual EXCEPT !.scope = "presentation", !.redirect = FALSE]
PreAuth    == [Usual EXCEPT !.how = "pre"]
PlanPairs  ==
    {<<Usual, Usual>>, <<Usual, Presents>>, <<Presents, Presents>>,
     <<Otherwise, [Usual EXCEPT !.how = "uri"]>>,
     <<Stateless, [Usual EXCEPT !.how = "service"]>>,
     <<PreAuth, Usual>>, <<[PreAuth EXCEPT !.pin = FALSE], PreAuth>>,
     <<[Usual EXCEPT !.scope = "vpTest"], [NoRedirect EXCEPT !.scope = "idTest"]>>,
     <<[Usual EXCEPT !.scope = "idTest"], [Usual EXCEPT !.scope = "vpTest", !.vpType = TRUE]>>,
     <<[Usual EXCEPT !.offer = Nobody], [Usual EXCEPT !.types = "unsupported"]>>,
     <<NoRedirect, Otherwise>>}

-----------------------------------------------------------------------------
NoDialogs  == /\ Init
              /\ students = [s \in Students |-> "unborn"]
              /\ owner = [d \in Dids |-> None]
              /\ \A t \in Tabs : tab[t].page = "closed"
NoRows     == TablesInit /\ state = [i \in Items |-> "absent"]
NoExchange == ExchangeInit /\ plan = CHOOSE p \in Plans : TRUE

ClientsInit ==
    \/ part = "dialogs" /\ Init /\ NoRows /\ ColumnsInit /\ NoExchange
    \/ part = "rows" /\ NoDialogs /\ TablesInit /\ state \in FewRows /\ ColumnsInit /\ NoExchange
    \/ part = "columns" /\ NoDialogs /\ NoRows /\ ColumnsInit /\ NoExchange
    \/ part = "exchange" /\ NoDialogs /\ NoRows /\ ColumnsInit /\ ExchangeInit

ClientsNext ==
    /\ UNCHANGED part
    /\ \/ part = "dialogs" /\ Next
          /\ UNCHANGED <<tablesVars, columnsVars, exchangeVars>>
       \/ part = "rows" /\ TablesNext
          /\ UNCHANGED <<vars, columnsVars, exchangeVars>>
       \/ part = "columns" /\ ColumnsNext
          /\ UNCHANGED <<vars, tablesVars, exchangeVars>>
       \/ part = "exchange" /\ ExchangeNext
          /\ UNCHANGED <<vars, tablesVars, columnsVars>>

ClientsSpec == ClientsInit /\ [][ClientsNext]_<<part, vars, tablesVars, columnsVars, exchangeVars>>
=============================================================================
