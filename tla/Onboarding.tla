----------------------------- MODULE Onboarding -----------------------------
(***************************************************************************)
(* The onboarding screens over Wallet: navigation/AppNavigator.tsx and     *)
(* screens/onboarding/, with uiSlice's isOnboarding.  A screen may be left *)
(* while the handler of its button awaits, and the handler goes on.        *)
(*                                                                         *)
(* The stack of screens is react-navigation's: navigate goes back to a     *)
(* screen of that name if the stack has one.  What the user types, reveals *)
(* or taps wrong changes none of this state and is left out.               *)
(***************************************************************************)
EXTENDS Wallet, Sequences, SequencesExt

VARIABLES
    isOnboarding, \* uiSlice's flag
    screens,      \* the stack of onboarding screens, the visible one last
    importing,    \* the accounts whose set-up was called by handleImport
    known,        \* history: the accounts there have been
    backedUp      \* history: those whose phrase the user has entered

uiVars == <<isOnboarding, screens, importing, known, backedUp>>
onboardingVars == <<walletVars, uiVars>>

Names == {"Welcome", "CreateWallet", "ImportWallet", "RecoveryPhrase", "VerifyPhrase",
          "WalletReady"}
Routes == [name : Names, phrase : SUBSET Account, busy : SUBSET Account]

\* A mounted screen; busy holds the account that its handler awaits (loading).
Route(name, phrase) == [name |-> name, phrase |-> phrase, busy |-> {}]

UiTypeOK ==
    /\ isOnboarding \in BOOLEAN
    /\ screens \in Seq(Routes)
    /\ importing \in SUBSET Account /\ known \in SUBSET Account
    /\ backedUp \in SUBSET Account

UiInit ==
    /\ Init
    /\ isOnboarding = TRUE
    /\ screens = <<Route("Welcome", {})>>
    /\ importing = {} /\ known = {} /\ backedUp = {}
-----------------------------------------------------------------------------
(* Navigation *)

Shows(name) == screens # <<>> /\ Last(screens).name = name

\* navigate: the screen of that name with the new parameters, and nothing above it.
Navigated(stack, route) ==
    LET places == {i \in DOMAIN stack : stack[i].name = route.name}
    IN  IF places = {} THEN Append(stack, route)
        ELSE LET i == Max(places)
             IN Append(SubSeq(stack, 1, i - 1), [stack[i] EXCEPT !.phrase = route.phrase])

\* A button of the Welcome screen, and "I have written it down".
Open(from, name) ==
    /\ Shows(from)
    /\ screens' = Navigated(screens, Route(name, Last(screens).phrase))
    /\ UNCHANGED <<walletVars, isOnboarding, importing, known, backedUp>>

\* Also while the screen's handler awaits.
GoBack ==
    /\ Len(screens) > 1
    /\ screens' = Front(screens)
    /\ UNCHANGED <<walletVars, isOnboarding, importing, known, backedUp>>

\* setLoading(false), of a screen that may be gone.
NotLoading(w) == [i \in DOMAIN screens |-> [screens[i] EXCEPT !.busy = @ \ {w}]]

\* The flag swaps the onboarding screens for the main app's.
CompleteOnboarding == isOnboarding' = FALSE /\ screens' = <<>>
-----------------------------------------------------------------------------
(* Handlers *)

Press(name, w) ==
    /\ Shows(name) /\ Last(screens).busy = {}
    /\ SetUp(w)
    /\ screens' = [screens EXCEPT ![Len(screens)].busy = {w}]
    /\ known' = known \cup {w}
    /\ UNCHANGED <<isOnboarding, backedUp>>

\* handleCreate: the account is a new one.
HandleCreate(w) ==
    /\ w \notin known
    /\ Press("CreateWallet", w)
    /\ importing' = importing \ {w}

\* handleImport, with a phrase that mnemonicToSecretKey accepts.
HandleImport(w) ==
    /\ Press("ImportWallet", w)
    /\ importing' = importing \cup {w}

KeychainWrites(w) ==
    /\ setup[w] < 3
    /\ Stored(w)
    /\ UNCHANGED uiVars

\* createWallet returns; navigate finds no such screen in the main app.
CreateReturns(w) ==
    /\ setup[w] = 3 /\ w \notin importing
    /\ Stored(w)
    /\ screens' = IF isOnboarding
                  THEN Navigated(NotLoading(w), Route("RecoveryPhrase", {w})) ELSE screens
    /\ UNCHANGED <<isOnboarding, importing, known, backedUp>>

ImportReturns(w) ==
    /\ setup[w] = 3 /\ w \in importing
    /\ Stored(w)
    /\ CompleteOnboarding
    /\ backedUp' = backedUp \cup {w}
    /\ UNCHANGED <<importing, known>>

\* Mutant: completeOnboarding is dispatched whether or not importWallet threw.
CompletesAnyway(w) ==
    /\ SetUpFails(w)
    /\ IF w \in importing THEN CompleteOnboarding
       ELSE screens' = NotLoading(w) /\ UNCHANGED isOnboarding
    /\ UNCHANGED <<importing, known, backedUp>>

\* createWallet or importWallet throws: an alert.
HandlerFails(w) ==
    /\ SetUpFails(w)
    /\ screens' = NotLoading(w)
    /\ UNCHANGED <<isOnboarding, importing, known, backedUp>>

\* handleVerify, with the words in order.
HandleVerify ==
    /\ Shows("VerifyPhrase")
    /\ screens' = Append(Front(screens), Route("WalletReady", {}))
    /\ backedUp' = backedUp \cup Last(screens).phrase
    /\ UNCHANGED <<walletVars, isOnboarding, importing, known>>

GetStarted ==
    /\ Shows("WalletReady")
    /\ CompleteOnboarding
    /\ UNCHANGED <<walletVars, importing, known, backedUp>>

\* uiSlice is not persisted, and nothing calls hasWallet or loadWallet at the start.
AppRestart ==
    /\ Restart
    /\ isOnboarding' = TRUE
    /\ screens' = <<Route("Welcome", {})>>
    /\ importing' = {}
    /\ UNCHANGED <<known, backedUp>>

UiNext ==
    \/ Open("Welcome", "CreateWallet") \/ Open("Welcome", "ImportWallet")
    \/ Open("RecoveryPhrase", "VerifyPhrase")
    \/ GoBack
    \/ \E w \in Account :
        \/ HandleCreate(w) \/ HandleImport(w)
        \/ KeychainWrites(w) \/ CreateReturns(w) \/ ImportReturns(w) \/ HandlerFails(w)
    \/ HandleVerify \/ GetStarted
    \/ AppRestart

UiSpec == UiInit /\ [][UiNext]_onboardingVars
-----------------------------------------------------------------------------
(* Properties *)

\* ARCHITECTURE.md:688: "Enforce mnemonic backup before allowing transfers".  Whoever is in
\* the main app has an account, and unless two set-ups have met, it is the one all three
\* entries of the keychain hold and its phrase was entered by the user.  It takes the
\* screens' order, the awaits of the handlers and what a failed set-up leaves in memory
\* (WalletService.ts:33).
BackedUp ==
    ~isOnboarding =>
        /\ account # {}
        /\ crossed = {} => /\ \A i \in Item : stored[i] = account
                           /\ account \subseteq backedUp
=============================================================================
