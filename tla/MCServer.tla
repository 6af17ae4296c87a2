------------------------------ MODULE MCServer ------------------------------
(***************************************************************************)
(* A small instance of Server for TLC: users a and b, free names c and C   *)
(* that differ by case, a user r of another instance, and the payloads they*)
(* sign, one of them in two spellings.                                     *)
(***************************************************************************)
EXTENDS Server, TLC

CONSTANTS a, b, c, C, r,      \* addresses
          here, there,        \* instances
          ka, kb, kb2, kr,    \* key pairs; b may rotate from kb to kb2
          t1, t2, tb, tb2, tc, tC, tr  \* tokens

MCDomainOf == a :> here @@ b :> here @@ c :> here @@ C :> here @@ r :> there

MCFold == a :> "a" @@ b :> "b" @@ c :> "c" @@ C :> "c"

MCPowFor == t1 :> a @@ t2 :> a @@ tb :> b @@ tb2 :> b @@ tc :> c @@ tC :> C @@ tr :> r

MCInitialRow == a :> ka @@ b :> kb @@ c :> Absent @@ C :> Absent

Sign(op, user, signer, target, key, m, reply) ==
    [op |-> op, user |-> user, signer |-> signer, target |-> target,
     key |-> key, mail |-> m, reply |-> reply, spelling |-> "padded"]

Respelled(p) == [p EXCEPT !.spelling = "unpadded"]

SendLocal == Sign("send", a, ka, b, kb, 0, FALSE)
SendHere  == Sign("send", r, kr, b, kb, 0, FALSE)
SendReply == Sign("send", a, ka, r, kr, 0, TRUE)
Rotate    == Sign("rotate", b, kb, b, kb2, 0, FALSE)
Destroy   == Sign("destroy", b, kb, b, kb, 0, FALSE)
Block     == Sign("block", b, kb, there, kb, 0, FALSE)
Unblock   == Sign("unblock", b, kb, there, kb, 0, FALSE)
Burn      == Sign("burn", a, ka, a, ka, 1, FALSE)
Lower     == Sign("register", c, kb2, c, kb2, 0, FALSE)
Upper     == Sign("register", C, kb2, C, kb2, 0, FALSE)
ReadMail  == Sign("read", b, kb2, b, kb2, 0, FALSE)

\* Handlers are interchangeable, and so are the tokens of one user.
Interchangeable ==
    {f @@ g @@ h : f \in Permutations(Handler), g \in Permutations({t1, t2}),
                   h \in Permutations({tb, tb2})}

MCPayloads == {SendLocal, Respelled(SendLocal), SendHere, SendReply, Rotate, Destroy,
               Block, Unblock, Burn, Lower, Upper, ReadMail}

\* What changes an account, for the run that looks for one behaviour.
DestroyPayloads == {Rotate, Destroy}
=============================================================================
