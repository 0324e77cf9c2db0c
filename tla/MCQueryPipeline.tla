--------------------------- MODULE MCQueryPipeline ---------------------------
(***************************************************************************)
(* Statements, tables and parameter sets for TLC.  With P = 7 the values   *)
(* the comparisons are exact for are 0..3; strings are of at most two      *)
(* characters with codes in 1..3.                                          *)
(***************************************************************************)
EXTENDS QueryAnswers

Employee(id, age, salary, dept, name) ==
    [id |-> id, age |-> age, salary |-> salary, department_id |-> dept, name |-> name]

(* Ages and salaries tie, one name is as wide as its column, employee 3    *)
(* has no department and department 2 no employee.                         *)
Bundled ==
    [employees |-> << Employee(1, 2, 3, 1, <<1, 2>>), Employee(2, 2, 1, 1, <<1>>),
                      Employee(3, 0, 3, 0, <<2, 1>>) >>,
     departments |-> << [id |-> 1, department_name |-> <<3>>],
                        [id |-> 2, department_name |-> <<1, 2>>] >>]
(* Rows out of order, an empty name, every employee in some department.    *)
Shuffled ==
    [employees |-> << Employee(3, 1, 2, 3, <<>>), Employee(1, 3, 0, 2, <<1>>),
                      Employee(2, 1, 2, 3, <<2, 1>>) >>,
     departments |-> << [id |-> 3, department_name |-> <<1>>],
                        [id |-> 2, department_name |-> <<2, 2>>] >>]
MCDatabases == {Bundled, Shuffled}
OneDatabase == {Bundled}

-----------------------------------------------------------------------------
Asc(c) == [col |-> c, desc |-> FALSE]
Desc(c) == [col |-> c, desc |-> TRUE]
age == Col("", "age")
salary == Col("", "salary")
id == Col("", "id")
name == Col("", "name")

Scan(projections, where, orderBy, limit) ==
    [projections |-> projections, table |-> "employees", alias |-> "employees",
     joins |-> <<>>, where |-> where, orderBy |-> orderBy, limit |-> limit]

(* Conditions over one table: each comparison, each connective, the        *)
(* literals at the bounds, and forms that are refused or are no condition. *)
BasicAtoms ==
    {Binary(k, age, IntLit(2)) : k \in Comparisons}
      \cup {Binary(k, IntLit(1), salary) : k \in {"LessThan", "GreaterEqual"}}
      \cup {Binary(k, name, StrLit(<<1>>)) : k \in {"Equal", "NotEqual"}}
      \cup {Binary(k, salary, age) : k \in {"GreaterThan", "LessEqual"}}
OddAtoms ==
    {age, name, id, IntLit(1), StrLit(<<1>>),
     Binary("Equal", StrLit(<<1, 2>>), name), Binary("Equal", name, StrLit(<<1, 2, 1>>)),
     Binary("Equal", name, StrLit(<<>>)), Binary("Equal", name, name),
     Binary("Equal", name, IntLit(1)), Binary("Equal", age, StrLit(<<1>>)),
     Binary("LessThan", name, StrLit(<<1>>)), Binary("Equal", IntLit(1), IntLit(1)),
     Binary("GreaterThan", age, IntLit(0)), Binary("GreaterThan", IntLit(3), age),
     Binary("GreaterThan", age, IntLit(6)),
     Binary("Equal", Col("", "boss"), IntLit(1)),
     Binary("Equal", Col("employees", "age"), IntLit(2)),
     Binary("Equal", Col("employees", "boss"), IntLit(2)),
     Binary("Equal", Col("x", "age"), IntLit(2)),
     Binary("Equal", Col("employees", "name"), StrLit(<<1>>))}
Compounds ==
    LET a == Binary("Equal", age, IntLit(2))
        b == Binary("GreaterThan", salary, IntLit(1))
        c == Binary("NotEqual", name, StrLit(<<1>>))
    IN  {Binary(k, x, y) : k \in Connectives, x \in {a, NotExpr(b), c}, y \in {b, NotExpr(c)}}
          \cup {NotExpr(Binary("And", a, Binary("Or", b, c))),
                Binary("Or", Binary("And", a, b), NotExpr(NotExpr(c))),
                NotExpr(age), Binary("And", age, b), Binary("Or", a, StrLit(<<1>>))}
Wheres == {NoExpr} \cup BasicAtoms \cup OddAtoms \cup Compounds

Lists == {<<>>, <<name, id>>, <<age>>}
Orders == {<<>>, <<Asc(age)>>, <<Desc(age), Asc(salary)>>, <<Desc(salary), Desc(id)>>}
ScanStatements ==
    {Scan(<<name, id>>, w, o, -1) : w \in Wheres, o \in {<<>>, <<Desc(salary)>>}}
      \cup {Scan(l, w, o, n) : l \in Lists, w \in {NoExpr, Binary("NotEqual", age, IntLit(0))},
                               o \in Orders, n \in {-1, 0, 1, 2}}
      \cup {Scan(l, NoExpr, o, -1) :
                l \in {<<Col("employees", "id")>>, <<Col("", "boss")>>, <<id, id>>},
                o \in {<<>>, <<Asc(name)>>, <<Asc(name), Desc(id)>>, <<Asc(Col("employees", "age"))>>}}
      \cup {[Scan(<<Col("", "department_name"), id>>, w, <<Desc(id)>>, -1)
                EXCEPT !.table = "departments", !.alias = "departments"] :
                w \in {NoExpr, Binary("NotEqual", Col("", "department_name"), StrLit(<<3>>))}}
      \cup {[Scan(<<id>>, NoExpr, <<>>, -1) EXCEPT !.table = "managers"]}

-----------------------------------------------------------------------------
Join(table, alias, on) == [table |-> table, alias |-> alias, on |-> on]
EmployeesJoin(joins, projections, where, orderBy, limit) ==
    [projections |-> projections, table |-> "employees", alias |-> "e", joins |-> joins,
     where |-> where, orderBy |-> orderBy, limit |-> limit]

eid == Col("e", "id")
eage == Col("e", "age")
edept == Col("e", "department_id")
did == Col("d", "id")
dname == Col("d", "department_name")
Departments(on) == <<Join("departments", "d", on)>>
OnDepartment == Binary("Equal", edept, did)

Ons == {OnDepartment, Binary("Equal", did, edept), Binary("Equal", edept, edept),
        Binary("Equal", Col("", "department_id"), did), Binary("Equal", edept, dname),
        Binary("LessThan", edept, did)}
JoinLists == {<<eid, dname>>, <<Col("e", "name"), did>>, <<name>>,
              <<Col("", "department_name")>>, <<id>>, <<>>}
JoinWheres ==
    LET onAge == Binary("GreaterThan", eage, IntLit(1))
        onDept == Binary("Equal", did, IntLit(1))
    IN  {NoExpr, onAge, onDept, Binary("And", onAge, onDept), Binary("Or", NotExpr(onAge), onDept),
         Binary("Equal", eage, did), Binary("LessThan", age, IntLit(3)), did, eage,
         Binary("Equal", dname, StrLit(<<3>>)), Binary("Equal", Col("e", "name"), StrLit(<<1>>)),
         Binary("Equal", name, StrLit(<<1>>)), Binary("Equal", dname, Col("e", "name")),
         Binary("Equal", Col("", "department_name"), StrLit(<<3>>))}
JoinStatements ==
    {EmployeesJoin(Departments(on), <<eid, dname>>, NoExpr, <<>>, -1) : on \in Ons}
      \cup {EmployeesJoin(Departments(OnDepartment), l, w, <<>>, -1) : l \in JoinLists, w \in JoinWheres}
      \cup {EmployeesJoin(Departments(OnDepartment), <<eid, dname>>, w, o, n) :
                w \in {NoExpr, Binary("LessThan", did, IntLit(3))},
                o \in {<<Desc(eid)>>, <<Asc(did), Desc(eage)>>, <<Asc(dname)>>,
                       <<Asc(Col("", "salary"))>>}, n \in {-1, 1}}
      \cup {[EmployeesJoin(<<Join("employees", "e", Binary("Equal", did, edept))>>,
                           <<did, eid>>, w, <<>>, -1)
                EXCEPT !.table = "departments", !.alias = "d"] :
                w \in {NoExpr, Binary("Equal", eage, IntLit(2)), Binary("Equal", eid, IntLit(2))}}
      \cup {EmployeesJoin(<<Join("employees", "f", Binary("Equal", eage, Col("f", "age")))>>,
                          <<eid, Col("f", "id")>>, Binary("NotEqual", eid, Col("f", "id")), <<>>, -1)}
      (* Outside the supported class: two JOINs, one alias twice.            *)
      \cup {EmployeesJoin(Departments(OnDepartment)
                            \o <<Join("employees", "f", Binary("Equal", eage, Col("f", "age")))>>,
                          l, w, o, -1) :
                l \in {<<eid, dname>>, <<eid, Col("f", "id")>>, <<Col("f", "age")>>},
                w \in {NoExpr, Binary("GreaterThan", Col("f", "age"), IntLit(1))},
                o \in {<<>>, <<Desc(Col("f", "id"))>>}}
      \cup {EmployeesJoin(<<Join("departments", "e", Binary("Equal", eid, eid))>>,
                          <<eid>>, NoExpr, <<>>, -1)}
      (* Sorted by what * does not stand for, and one alias for two JOINs.   *)
      \cup {EmployeesJoin(Departments(OnDepartment), <<>>, NoExpr, o, -1) :
                o \in {<<Desc(did)>>, <<Asc(dname), Desc(eid)>>, <<Asc(salary)>>}}
      \cup {EmployeesJoin(<<Join("employees", "d", Binary("Equal", edept, Col("d", "id")))>>
                            \o Departments(OnDepartment),
                          <<eid, salary>>, NoExpr, o, -1) : o \in {<<>>, <<Desc(did)>>}}

MCStatements == ScanStatements \cup JoinStatements

-----------------------------------------------------------------------------
BothSizes == {1, 2}
OneRow == {1}
TwoParamSets == {"bfv-257-depth12", "other"}
SameParams == {"bfv-257-depth12"}

UnknownColumn == {Scan(<<id>>, Binary("Equal", Col("employees", "boss"), IntLit(2)), <<>>, -1)}
OrderByName == {Scan(<<id, name>>, NoExpr, <<Desc(name)>>, -1)}
NameAndAge == {Scan(<<id>>, Binary("And", Binary("Equal", name, StrLit(<<1>>)),
                                          Binary("GreaterThan", age, IntLit(2))), <<>>, -1)}
=============================================================================
