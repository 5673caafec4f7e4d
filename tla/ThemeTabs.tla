----------------------------- MODULE ThemeTabs ------------------------------
(***************************************************************************)
(* The theme of the console (theme-provider.tsx) in the tabs of one        *)
(* browser.  They share localStorage: a write is announced to the other    *)
(* tabs by storage events, which come later and one after the other.  The  *)
(* class of the document is set by an effect after the theme was rendered, *)
(* and by the change event of the system's colour scheme while the theme   *)
(* is "system".                                                            *)
(***************************************************************************)
EXTENDS Naturals, Sequences

CONSTANTS Tab, None, MaxOps

VARIABLES
  stored,     \* the theme in localStorage, None without one
  scheme,     \* the colour scheme of the system
  theme,      \* theme of every tab, None while it is closed
  class,      \* the class of its document
  listening,  \* its handler for the scheme is registered
  due,        \* its theme was rendered, the effect comes
  notified,   \* the scheme changed, the event comes
  events,     \* storage events on their way to it
  crossed,    \* history: a tab wrote while another theme was on its way to it
  ops         \* what users did (bound)

page == <<theme, class, listening, due, notified>>
vars == <<stored, scheme, page, events, crossed, ops>>

Theme == {"dark", "light", "system"}
defaultTheme == "light"

ResolvedTheme(th) == IF th = "system" THEN scheme ELSE th

(* The script of index.html runs before the provider; without a stored theme *)
(* it takes the system's.                                                    *)
FirstClass == ResolvedTheme(IF stored = None THEN "system" ELSE stored)

Init ==
  /\ stored \in {None, "system", "dark"} /\ scheme \in {"dark", "light"}
  /\ theme = [t \in Tab |-> None] /\ class = [t \in Tab |-> None]
  /\ listening = [t \in Tab |-> FALSE] /\ due = [t \in Tab |-> FALSE]
  /\ notified = [t \in Tab |-> FALSE] /\ events = [t \in Tab |-> <<>>]
  /\ crossed = FALSE /\ ops = 0

Open(t) == theme[t] # None
StoredTheme == IF stored \in Theme THEN stored ELSE defaultTheme

Counted == ops < MaxOps /\ ops' = ops + 1

OpenTab(t) ==
  /\ ~Open(t) /\ Counted
  /\ theme' = [theme EXCEPT ![t] = StoredTheme]
  /\ class' = [class EXCEPT ![t] = FirstClass]
  /\ due' = [due EXCEPT ![t] = TRUE]
  /\ UNCHANGED <<stored, scheme, listening, notified, events, crossed>>

CloseTab(t) ==
  /\ Open(t) /\ Counted
  /\ theme' = [theme EXCEPT ![t] = None] /\ class' = [class EXCEPT ![t] = None]
  /\ listening' = [listening EXCEPT ![t] = FALSE] /\ due' = [due EXCEPT ![t] = FALSE]
  /\ notified' = [notified EXCEPT ![t] = FALSE] /\ events' = [events EXCEPT ![t] = <<>>]
  /\ UNCHANGED <<stored, scheme, crossed>>

SetThemeState(t, th) ==
  /\ theme' = [theme EXCEPT ![t] = th]
  /\ due' = [due EXCEPT ![t] = @ \/ th # theme[t]]

(* localStorage.setItem: a value that stays the same is not announced.       *)
SetItem(t, th) ==
  /\ stored' = th
  /\ events' = IF th = stored THEN events
               ELSE [u \in Tab |-> IF u # t /\ Open(u) THEN Append(events[u], th) ELSE events[u]]
  /\ crossed' = (crossed \/ (th # stored /\ events[t] # <<>>))

(* The menu of the navigation bar. *)
SetTheme(t, th) ==
  /\ Open(t) /\ Counted
  /\ SetItem(t, th) /\ SetThemeState(t, th)
  /\ UNCHANGED <<scheme, class, listening, notified>>

Toggled(th) == IF ResolvedTheme(th) = "dark" THEN "light" ELSE "dark"

Press == [key : {"d", "other"}, repeat : BOOLEAN, modifier : BOOLEAN, editable : BOOLEAN]

HandleKeyDown(t, press) ==
  /\ Open(t) /\ Counted
  /\ ~press.repeat /\ ~press.modifier /\ ~press.editable /\ press.key = "d"
  /\ SetItem(t, Toggled(theme[t])) /\ SetThemeState(t, Toggled(theme[t]))
  /\ UNCHANGED <<scheme, class, listening, notified>>

HandleStorageChange(t) ==
  /\ events[t] # <<>>
  /\ SetThemeState(t, Head(events[t]))
  /\ events' = [events EXCEPT ![t] = Tail(@)]
  /\ UNCHANGED <<stored, scheme, class, listening, notified, crossed, ops>>

(* The effect of a rendered theme, its cleanup included. *)
Applies(t) ==
  /\ due[t]
  /\ due' = [due EXCEPT ![t] = FALSE]
  /\ class' = [class EXCEPT ![t] = ResolvedTheme(theme[t])]
  /\ listening' = [listening EXCEPT ![t] = theme[t] = "system"]
  /\ UNCHANGED <<stored, scheme, theme, notified, events, crossed, ops>>

SchemeChanges ==
  /\ Counted
  /\ scheme' = IF scheme = "dark" THEN "light" ELSE "dark"
  /\ notified' = [t \in Tab |-> Open(t)]
  /\ UNCHANGED <<stored, theme, class, listening, due, events, crossed>>

HandleChange(t) ==
  /\ notified[t]
  /\ notified' = [notified EXCEPT ![t] = FALSE]
  /\ class' = IF listening[t] THEN [class EXCEPT ![t] = ResolvedTheme("system")] ELSE class
  /\ UNCHANGED <<stored, scheme, theme, listening, due, events, crossed, ops>>

Next ==
  \/ SchemeChanges
  \/ \E t \in Tab :
       \/ OpenTab(t) \/ CloseTab(t) \/ HandleStorageChange(t) \/ Applies(t) \/ HandleChange(t)
       \/ \E th \in Theme : SetTheme(t, th)
       \/ \E press \in Press : HandleKeyDown(t, press)

Spec == Init /\ [][Next]_vars

(***************************************************************************)
(* Properties.                                                             *)
(***************************************************************************)
TypeOK ==
  /\ stored \in Theme \cup {None}
  /\ \A t \in Tab :
       /\ theme[t] \in Theme \cup {None} /\ class[t] \in {"dark", "light", None}
       /\ ~Open(t) => class[t] = None /\ events[t] = <<>> /\ ~listening[t] /\ ~due[t]

(* A document that waits for no effect and no event of the scheme has the    *)
(* class of its theme, and follows the scheme only while the theme says so:  *)
(* the handler of a theme that was left is gone (theme-provider.tsx).        *)
ClassFollowsTheme ==
  \A t \in Tab :
    Open(t) /\ ~due[t] =>
      /\ listening[t] <=> theme[t] = "system"
      /\ ~notified[t] => class[t] = ResolvedTheme(theme[t])

(* When all the storage events have come, every tab shows the stored theme,  *)
(* unless two tabs wrote while the other's theme was on its way.             *)
TabsAgree ==
  ~crossed /\ (\A t \in Tab : events[t] = <<>>) =>
    \A t \in Tab : Open(t) => theme[t] = StoredTheme
=============================================================================
