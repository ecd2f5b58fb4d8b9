------------------------------- MODULE MCTree -------------------------------
EXTENDS Tree

MCWorkload ==
    {<<"create", <<"b">>, <<>>>>, <<"create", <<"a", "b">>, <<>>>>,
     <<"mkdir", <<"b">>, <<>>>>,
     <<"open", <<"a", "a">>, <<>>>>, <<"open", <<"a">>, <<>>>>,
     <<"getattr", <<"a", "a">>, <<>>>>,
     <<"unlink", <<"a", "a">>, <<>>>>, <<"unlink", <<"a">>, <<>>>>,
     <<"unlink", <<"b">>, <<>>>>,
     <<"rename", <<"a", "a">>, <<"b">>>>, <<"rename", <<"b">>, <<"a", "a">>>>,
     <<"rename", <<"a">>, <<"b">>>>, <<"rename", <<"b">>, <<"a">>>>,
     <<"rename", <<"a">>, <<"a", "b">>>>, <<"rename", <<"a", "a">>, <<"a">>>>,
     <<"rename", <<"a", "a">>, <<"b", "a">>>>}
=============================================================================
